----------------------- MODULE OneTimeMessagesProofs -----------------------
(***************************************************************************)
(* What TLAPS proves of the message bus, for any owners, messages and      *)
(* length of the list: an observer is called once with each version, and   *)
(* with the latest one.                                                    *)
(*                                                                         *)
(* The filter Without is recursive.  No induction theorem of the library   *)
(* can be instantiated, but its theorem that a set of numbers has a least  *)
(* element can: Induction, below, is a consequence.                        *)
(***************************************************************************)
EXTENDS OneTimeMessages, SequenceTheorems, FiniteSetTheorems, WellFoundedInduction, TLAPS

OneTimeMessage ==
  [version : Int, current : Int, observers : Seq(Owners), active : SUBSET Owners,
   last : [Owners -> Int], joined : [Owners -> Int], eaten : SUBSET Owners]
Dispatching == [msg : Messages, left : SUBSET Owners, called : Owners \cup {Nobody}]

(* What the variables are, without what TypeOK says besides.               *)
Shapes ==
  /\ life \in [Owners -> {"none", "created", "started", "destroyed"}]
  /\ observing \in SUBSET Owners /\ invalid \in SUBSET Messages
  /\ results \in Seq(Messages) /\ waking \in Seq(Messages)
  /\ waker \in Owners \cup {Nobody} /\ sends \in 0 .. MaxSends
  /\ msg \in [Messages -> OneTimeMessage]
  /\ stack \in Seq(Dispatching)
  /\ log \in [Owners -> Seq(Messages \X Int)]

(* A message is in the list once, an observer in a message once, and only  *)
(* observers of the dispatcher are in a message.                           *)
ListInv ==
  /\ IsInjective(results) /\ Len(results) <= QueueLength
  /\ \A m \in Messages :
       /\ IsInjective(msg[m].observers) /\ ToSet(msg[m].observers) \subseteq observing
       /\ msg[m].active \subseteq ToSet(msg[m].observers)

(* The owners with an observer are those that are there, and the one being *)
(* started is started.                                                     *)
OwnersInv ==
  /\ \A o \in Owners : o \in observing <=> life[o] \in {"created", "started"}
  /\ \A o \in Owners : life[o] = "none" => log[o] = << >>
  /\ waker = Nobody => waking = << >>

(* The versions of a message: observers come at a version that is at most  *)
(* the current one, and are called with versions that were set.            *)
VersionInv ==
  \A m \in Messages :
    /\ 0 <= msg[m].version /\ msg[m].version <= sends
    /\ -1 <= msg[m].current /\ msg[m].current <= msg[m].version
    /\ \A o \in Owners :
         /\ -1 <= msg[m].joined[o] /\ msg[m].joined[o] <= msg[m].current
         /\ -1 <= msg[m].last[o] /\ msg[m].last[o] <= msg[m].version
    /\ msg[m].version = 0 => msg[m].observers = << >>
    /\ m \in ToSet(results) => 1 <= msg[m].version

(* A message has at most one dispatch, of a version that was set after the *)
(* last observer came.                                                     *)
StackInv ==
  /\ \A i, j \in DOMAIN stack : stack[i].msg = stack[j].msg => i = j
  /\ \A i \in DOMAIN stack :
       LET r == msg[stack[i].msg] IN 1 <= r.version /\ r.current < r.version
  /\ \A m \in invalid : \E i \in DOMAIN stack : stack[i].msg = m

(* What an observer was called with is at most the last version of its     *)
(* wrapper.                                                                *)
LogInv ==
  \A o \in Owners : \A i \in DOMAIN log[o] :
    LET m == log[o][i][1]  v == log[o][i][2] IN
    /\ 1 <= v /\ msg[m].joined[o] < v /\ v <= msg[m].last[o]
    /\ \A j \in 1 .. i - 1 : log[o][j][1] = m => log[o][j][2] < v

(* The wrapper of a started owner is active, or is about to be told.       *)
Told(o, m) == o = waker /\ m \in ToSet(waking)
ActiveInv ==
  \A o \in Owners : \A m \in ToSet(results) :
    life[o] = "started" /\ o \in ToSet(msg[m].observers) =>
      o \in msg[m].active \/ Told(o, m)

(* A started observer that waits for a version will be asked by a dispatch *)
(* or when its wrapper is told, unless another observer has come.          *)
Asked(o, m) ==
  \E i \in DOMAIN stack : stack[i].msg = m /\ (o \in stack[i].left \/ m \in invalid)
PendingInv ==
  \A o \in Owners : \A m \in ToSet(results) :
    life[o] = "started" /\ Waits(msg[m], o) /\ o \notin msg[m].eaten =>
      Asked(o, m) \/ Told(o, m)
EatenInv ==
  \A o \in Owners : \A m \in Messages :
    Waits(msg[m], o) /\ msg[m].version = msg[m].current => o \in msg[m].eaten

OnceInv == Shapes /\ ListInv /\ OwnersInv /\ VersionInv /\ StackInv /\ LogInv
SafetyInv == OnceInv /\ ActiveInv /\ PendingInv /\ EatenInv

-----------------------------------------------------------------------------
(* What Without leaves.                                                    *)

LEMMA Induction ==
  ASSUME NEW S, 0 \in S, \A n \in Nat : n \in S => n + 1 \in S
  PROVE  Nat \subseteq S
<1> DEFINE T == Nat \ S
<1>1. SUFFICES ASSUME T # {} PROVE FALSE
  OBVIOUS
<1>2. PICK x \in T : \A y \in T : ~ (<<y, x>> \in OpToRel(<, Nat))
  <2>1. T \subseteq Nat
    OBVIOUS
  <2> HIDE DEF T
  <2>2. QED BY <1>1, <2>1, NatLessThanWellFounded, WFMin
<1>3. x \in Nat /\ x # 0 /\ x - 1 \in Nat
  OBVIOUS
<1>4. x - 1 \in T
  BY <1>3
<1>5. <<x - 1, x>> \in OpToRel(<, Nat)
  BY <1>3 DEF OpToRel
<1>6. QED BY <1>2, <1>4, <1>5

LEMMA WithoutFunction ==
  ASSUME NEW A, NEW s \in Seq(A), NEW S
  PROVE  \E g : /\ g = [n \in 0 .. Len(s) |->
                          IF n = 0 THEN << >>
                          ELSE IF s[n] \in S THEN g[n - 1] ELSE Append(g[n - 1], s[n])]
                /\ Without(s, S) = g[Len(s)]
<1> DEFINE Of(g, k) == [n \in 0 .. k |->
                          IF n = 0 THEN << >>
                          ELSE IF s[n] \in S THEN g[n - 1] ELSE Append(g[n - 1], s[n])]
           N == {k \in Nat : \E g : g = Of(g, k)}
<1>1. 0 \in N
  <2> DEFINE g == [n \in 0 .. 0 |-> << >>]
  <2>1. g = Of(g, 0)
    OBVIOUS
  <2>2. QED BY <2>1
<1>2. ASSUME NEW k \in Nat, k \in N PROVE k + 1 \in N
  <2>1. PICK g : g = Of(g, k)
    BY <1>2
  <2> DEFINE v == IF s[k + 1] \in S THEN g[k] ELSE Append(g[k], s[k + 1])
             h == [n \in 0 .. k + 1 |-> IF n = k + 1 THEN v ELSE g[n]]
  <2>2. ASSUME NEW n \in 0 .. k + 1
        PROVE  h[n] = Of(h, k + 1)[n]
    <3>1. CASE n = k + 1
      <4>1. h[n - 1] = g[k]
        BY <3>1
      <4>2. QED BY <3>1, <4>1
    <3>2. CASE n # k + 1
      <4>1. n \in 0 .. k /\ h[n] = g[n] /\ (n # 0 => h[n - 1] = g[n - 1])
        BY <3>2
      <4>2. g[n] = Of(g, k)[n]
        BY <2>1
      <4> QED BY <4>1, <4>2
    <3>3. QED BY <3>1, <3>2
  <2>3. h = Of(h, k + 1)
    BY <2>2
  <2> HIDE DEF h, Of
  <2>4. k + 1 \in Nat /\ \E f : f = Of(f, k + 1)
    BY <2>3
  <2>5. QED BY <2>4
<1>3. Len(s) \in N
  <2> HIDE DEF N
  <2>1. Nat \subseteq N
    BY <1>1, <1>2, Induction
  <2>2. QED BY <2>1
<1> DEFINE rest == CHOOSE g : g = Of(g, Len(s))
<1>4. rest = Of(rest, Len(s))
  BY <1>3
<1>5. Without(s, S) = rest[Len(s)]
  BY Zenon DEF Without
<1>6. QED BY <1>4, <1>5

(* The elements of Without(s, S) are those of s that are not in S, each    *)
(* once when they are in s once.                                           *)
LEMMA WithoutFacts ==
  ASSUME NEW A, NEW s \in Seq(A), NEW S
  PROVE  /\ Without(s, S) \in Seq(A)
         /\ ToSet(Without(s, S)) = ToSet(s) \ S
         /\ IsInjective(s) => IsInjective(Without(s, S))
<1> DEFINE Good(k, t) ==
      /\ t \in Seq(A)
      /\ \A x : (\E i \in DOMAIN t : t[i] = x) <=> (x \notin S /\ \E i \in 1 .. k : s[i] = x)
      /\ (\A i, j \in 1 .. k : s[i] = s[j] => i = j) => \A i, j \in DOMAIN t : t[i] = t[j] => i = j
<1>1. PICK g : /\ g = [n \in 0 .. Len(s) |->
                          IF n = 0 THEN << >>
                          ELSE IF s[n] \in S THEN g[n - 1] ELSE Append(g[n - 1], s[n])]
               /\ Without(s, S) = g[Len(s)]
  BY WithoutFunction
<1>2. g[0] = << >>
  BY <1>1
<1>3. ASSUME NEW n \in 1 .. Len(s)
      PROVE  g[n] = IF s[n] \in S THEN g[n - 1] ELSE Append(g[n - 1], s[n])
  <2>1. n \in 0 .. Len(s) /\ n # 0
    OBVIOUS
  <2>2. QED BY <1>1, <2>1
<1> DEFINE N == {k \in Nat : k <= Len(s) => Good(k, g[k])}
<1>4. 0 \in N
  <2>1. \A x : (\E i \in DOMAIN g[0] : g[0][i] = x) <=> (x \notin S /\ \E i \in 1 .. 0 : s[i] = x)
    BY <1>2
  <2>2. g[0] \in Seq(A) /\ \A i, j \in DOMAIN g[0] : g[0][i] = g[0][j] => i = j
    BY <1>2
  <2>3. Good(0, g[0])
    BY <2>1, <2>2
  <2> HIDE DEF Good
  <2>4. QED BY <2>3
<1>5. ASSUME NEW k \in Nat, k \in N PROVE k + 1 \in N
  <2>1. SUFFICES ASSUME k + 1 <= Len(s) PROVE Good(k + 1, g[k + 1])
    OBVIOUS
  <2>2. k + 1 \in 1 .. Len(s) /\ s[k + 1] \in A /\ (k + 1) - 1 = k
    BY <2>1
  <2>3. Good(k, g[k])
    BY <1>5, <2>1
  <2>4. CASE s[k + 1] \in S
    <3>1. g[k + 1] = g[k]
      BY <1>3, <2>2, <2>4
    <3>2. \A x : x \notin S =>
            ((\E i \in 1 .. k + 1 : s[i] = x) <=> \E i \in 1 .. k : s[i] = x)
      BY <2>4
    <3>3. \A x : (\E i \in DOMAIN g[k] : g[k][i] = x) <=> (x \notin S /\ \E i \in 1 .. k + 1 : s[i] = x)
      BY <2>3, <3>2
    <3>4. (\A i, j \in 1 .. k + 1 : s[i] = s[j] => i = j) =>
            \A i, j \in DOMAIN g[k] : g[k][i] = g[k][j] => i = j
      BY <2>3
    <3>5. QED BY <2>3, <3>1, <3>3, <3>4
  <2>5. CASE s[k + 1] \notin S
    <3> DEFINE t == g[k]  u == g[k + 1]
    <3>1. u = Append(t, s[k + 1])
      BY <1>3, <2>2, <2>5
    <3>2. /\ u \in Seq(A) /\ Len(u) = Len(t) + 1 /\ u[Len(t) + 1] = s[k + 1]
          /\ \A i \in 1 .. Len(t) : u[i] = t[i]
      BY <2>2, <2>3, <3>1
    <3>3. DOMAIN t = 1 .. Len(t) /\ DOMAIN u = 1 .. Len(t) + 1 /\ Len(t) \in Nat
      BY <2>3, <3>2
    <3>4. t \in Seq(A) /\ \A x : (\E i \in DOMAIN t : t[i] = x) <=> (x \notin S /\ \E i \in 1 .. k : s[i] = x)
      BY <2>3
    <3>5. (\A i, j \in 1 .. k : s[i] = s[j] => i = j) => \A i, j \in DOMAIN t : t[i] = t[j] => i = j
      BY <2>3
    <3> HIDE DEF t, u
    <3>6. ASSUME NEW x PROVE (\E i \in DOMAIN u : u[i] = x) <=> (x \notin S /\ \E i \in 1 .. k + 1 : s[i] = x)
      <4>1. (\E i \in DOMAIN u : u[i] = x) <=> (x = s[k + 1] \/ \E i \in DOMAIN t : t[i] = x)
        BY <3>2, <3>3
      <4>2. (\E i \in 1 .. k + 1 : s[i] = x) <=> (x = s[k + 1] \/ \E i \in 1 .. k : s[i] = x)
        OBVIOUS
      <4> QED BY <4>1, <4>2, <3>4, <2>5
    <3>7. ASSUME \A i, j \in 1 .. k + 1 : s[i] = s[j] => i = j
          PROVE  \A i, j \in DOMAIN u : u[i] = u[j] => i = j
      <4>1. \A i, j \in DOMAIN t : t[i] = t[j] => i = j
        BY <3>5, <3>7
      <4>2. ASSUME NEW i \in DOMAIN t PROVE t[i] # s[k + 1]
        <5>1. PICK j \in 1 .. k : s[j] = t[i]
          BY <3>4
        <5>2. QED BY <3>7, <5>1
      <4> QED BY <4>1, <4>2, <3>2, <3>3
    <3> QED BY <3>2, <3>6, <3>7 DEF u
  <2>6. QED BY <2>4, <2>5
<1>6. Good(Len(s), g[Len(s)])
  <2> HIDE DEF N
  <2>1. Len(s) \in N
    BY <1>4, <1>5, Induction
  <2>2. QED BY <2>1 DEF N
<1>7. DOMAIN s = 1 .. Len(s)
  OBVIOUS
<1> DEFINE t == Without(s, S)
<1>8. /\ t \in Seq(A)
      /\ \A x : (\E i \in DOMAIN t : t[i] = x) <=> (x \notin S /\ \E i \in DOMAIN s : s[i] = x)
      /\ (\A i, j \in DOMAIN s : s[i] = s[j] => i = j) => \A i, j \in DOMAIN t : t[i] = t[j] => i = j
  BY <1>1, <1>6, <1>7
<1> HIDE DEF t
<1>9. ToSet(t) = ToSet(s) \ S
  BY <1>8 DEF ToSet
<1>10. IsInjective(s) => IsInjective(t)
  BY <1>8 DEF IsInjective
<1>11. QED BY <1>8, <1>9, <1>10 DEF t

-----------------------------------------------------------------------------
(* Sequences as sets.                                                      *)

LEMMA ToSetFacts ==
  ASSUME NEW A, NEW s \in Seq(A)
  PROVE  /\ \A x : x \in ToSet(s) <=> \E i \in 1 .. Len(s) : s[i] = x
         /\ ToSet(s) \subseteq A
         /\ ToSet(s) = {} <=> s = << >>
         /\ \A i \in 1 .. Len(s) : s[i] \in ToSet(s)
<1>1. DOMAIN s = 1 .. Len(s) /\ Len(s) \in Nat
  OBVIOUS
<1>2. \A x : x \in ToSet(s) <=> \E i \in 1 .. Len(s) : s[i] = x
  BY <1>1 DEF ToSet
<1>3. \A i \in 1 .. Len(s) : s[i] \in A
  OBVIOUS
<1>4. s # << >> => 1 \in 1 .. Len(s)
  BY <1>1
<1>5. s = << >> => Len(s) = 0
  OBVIOUS
<1>6. ToSet(s) \subseteq A
  BY <1>2, <1>3
<1>7. ToSet(s) = {} <=> s = << >>
  <2>1. s = << >> => ToSet(s) = {}
    BY <1>2, <1>5
  <2>2. s # << >> => s[1] \in ToSet(s)
    BY <1>2, <1>4
  <2>3. QED BY <2>1, <2>2
<1>8. QED BY <1>2, <1>6, <1>7

LEMMA EmptyFacts == ToSet(<< >>) = {} /\ IsInjective(<< >>)
  BY DEF ToSet, IsInjective

LEMMA JoinFacts ==
  ASSUME NEW A, NEW s \in Seq(A), NEW t \in Seq(A)
  PROVE  /\ s \o t \in Seq(A)
         /\ ToSet(s \o t) = ToSet(s) \cup ToSet(t)
         /\ IsInjective(s) /\ IsInjective(t) /\ ToSet(s) \cap ToSet(t) = {} =>
              IsInjective(s \o t)
<1> DEFINE u == s \o t
<1>1. /\ u \in Seq(A) /\ Len(u) = Len(s) + Len(t)
      /\ \A i \in 1 .. Len(s) : u[i] = s[i]
      /\ \A i \in 1 .. Len(t) : u[Len(s) + i] = t[i]
      /\ \A i \in Len(s) + 1 .. Len(u) : u[i] = t[i - Len(s)]
  OBVIOUS
<1>2. /\ Len(s) \in Nat /\ Len(t) \in Nat
      /\ DOMAIN s = 1 .. Len(s) /\ DOMAIN t = 1 .. Len(t) /\ DOMAIN u = 1 .. Len(s) + Len(t)
  BY <1>1
<1> HIDE DEF u
<1>3. \A i \in DOMAIN u : \/ i \in 1 .. Len(s) /\ u[i] = s[i]
                          \/ i - Len(s) \in 1 .. Len(t) /\ u[i] = t[i - Len(s)]
  BY <1>1, <1>2
<1>4. ToSet(u) = ToSet(s) \cup ToSet(t)
  <2>1. ASSUME NEW x \in ToSet(u) PROVE x \in ToSet(s) \cup ToSet(t)
    BY <1>2, <1>3, <2>1 DEF ToSet
  <2>2. ASSUME NEW x \in ToSet(s) PROVE x \in ToSet(u)
    BY <1>1, <1>2, <2>2 DEF ToSet
  <2>3. ASSUME NEW x \in ToSet(t) PROVE x \in ToSet(u)
    <3>1. PICK i \in 1 .. Len(t) : x = t[i]
      BY <1>2 DEF ToSet
    <3>2. Len(s) + i \in DOMAIN u /\ u[Len(s) + i] = x
      BY <1>1, <1>2, <3>1
    <3>3. QED BY <3>2 DEF ToSet
  <2>4. QED BY <2>1, <2>2, <2>3
<1>5. ASSUME IsInjective(s), IsInjective(t), ToSet(s) \cap ToSet(t) = {} PROVE IsInjective(u)
  <2>1. SUFFICES ASSUME NEW i \in DOMAIN u, NEW j \in DOMAIN u, u[i] = u[j] PROVE i = j
    BY DEF IsInjective
  <2>2. \A a \in DOMAIN s, b \in DOMAIN t : s[a] # t[b]
    BY <1>5 DEF ToSet
  <2>3. /\ \A a, b \in DOMAIN s : s[a] = s[b] => a = b
        /\ \A a, b \in DOMAIN t : t[a] = t[b] => a = b
    BY <1>5 DEF IsInjective
  <2>4. QED BY <1>2, <1>3, <2>1, <2>2, <2>3
<1>6. QED BY <1>1, <1>4, <1>5 DEF u

LEMMA AppendFacts ==
  ASSUME NEW A, NEW s \in Seq(A), NEW x \in A
  PROVE  /\ Append(s, x) \in Seq(A)
         /\ Len(Append(s, x)) = Len(s) + 1
         /\ ToSet(Append(s, x)) = ToSet(s) \cup {x}
         /\ IsInjective(s) /\ x \notin ToSet(s) => IsInjective(Append(s, x))
         /\ \A i \in 1 .. Len(s) : Append(s, x)[i] = s[i]
         /\ Append(s, x)[Len(s) + 1] = x
<1>1. PICK t : /\ t \in Seq(A) /\ DOMAIN t = {1} /\ t[1] = x
               /\ Append(s, x) = s \o t
  <2>1. <<x>> \in Seq(A) /\ DOMAIN <<x>> = {1} /\ <<x>>[1] = x /\ Append(s, x) = s \o <<x>>
    OBVIOUS
  <2>2. QED BY <2>1
<1>2. ToSet(t) = {x} /\ IsInjective(t)
  BY <1>1 DEF ToSet, IsInjective
<1>3. t \in Seq(A) /\ Append(s, x) = s \o t
  BY <1>1
<1>4. Append(s, x) \in Seq(A) /\ ToSet(Append(s, x)) = ToSet(s) \cup {x}
  BY <1>2, <1>3, JoinFacts
<1>5. IsInjective(s) /\ x \notin ToSet(s) => IsInjective(Append(s, x))
  <2>1. ToSet(s) \cap {x} = {} => (IsInjective(s) => IsInjective(s \o t))
    BY <1>2, <1>3, JoinFacts
  <2>2. QED BY <1>3, <2>1
<1>6. /\ Len(Append(s, x)) = Len(s) + 1
      /\ \A i \in 1 .. Len(s) : Append(s, x)[i] = s[i]
      /\ Append(s, x)[Len(s) + 1] = x
  OBVIOUS
<1>7. QED BY <1>4, <1>5, <1>6

LEMMA TailFacts ==
  ASSUME NEW A, NEW s \in Seq(A), s # << >>
  PROVE  /\ Head(s) \in A /\ Tail(s) \in Seq(A) /\ Len(Tail(s)) = Len(s) - 1
         /\ ToSet(s) = {Head(s)} \cup ToSet(Tail(s))
         /\ IsInjective(s) => IsInjective(Tail(s)) /\ Head(s) \notin ToSet(Tail(s))
<1>1. /\ Head(s) = s[1] /\ Head(s) \in A /\ Tail(s) \in Seq(A) /\ Len(Tail(s)) = Len(s) - 1
      /\ \A i \in 1 .. Len(s) - 1 : Tail(s)[i] = s[i + 1]
      /\ Len(s) \in Nat \ {0} /\ DOMAIN s = 1 .. Len(s) /\ DOMAIN Tail(s) = 1 .. Len(s) - 1
  OBVIOUS
<1>2. ASSUME NEW i \in DOMAIN s, i # 1 PROVE i - 1 \in DOMAIN Tail(s) /\ Tail(s)[i - 1] = s[i]
  BY <1>1, <1>2
<1>3. ToSet(s) = {Head(s)} \cup ToSet(Tail(s))
  <2>1. ASSUME NEW x \in ToSet(s) PROVE x \in {Head(s)} \cup ToSet(Tail(s))
    <3>1. PICK i \in DOMAIN s : x = s[i]
      BY DEF ToSet
    <3>2. CASE i = 1
      BY <1>1, <3>1, <3>2
    <3>3. CASE i # 1
      BY <1>2, <3>1, <3>3 DEF ToSet
    <3>4. QED BY <3>2, <3>3
  <2>2. ASSUME NEW x \in ToSet(Tail(s)) PROVE x \in ToSet(s)
    <3>1. PICK i \in DOMAIN Tail(s) : x = Tail(s)[i]
      BY DEF ToSet
    <3>2. i + 1 \in DOMAIN s /\ s[i + 1] = x
      BY <1>1, <3>1
    <3>3. QED BY <3>2 DEF ToSet
  <2>3. Head(s) \in ToSet(s)
    BY <1>1 DEF ToSet
  <2>4. QED BY <2>1, <2>2, <2>3
<1>4. ASSUME IsInjective(s) PROVE IsInjective(Tail(s)) /\ Head(s) \notin ToSet(Tail(s))
  <2>1. \A a, b \in DOMAIN s : s[a] = s[b] => a = b
    BY <1>4 DEF IsInjective
  <2>2. \A i \in DOMAIN Tail(s) : i + 1 \in DOMAIN s /\ Tail(s)[i] = s[i + 1] /\ i + 1 # 1
    BY <1>1
  <2>3. 1 \in DOMAIN s
    BY <1>1
  <2>4. \A i \in DOMAIN Tail(s) : i \in Int
    BY <1>1
  <2>5. IsInjective(Tail(s))
    BY <2>1, <2>2, <2>4 DEF IsInjective
  <2>6. Head(s) \notin ToSet(Tail(s))
    BY <1>1, <2>1, <2>2, <2>3 DEF ToSet
  <2>7. QED BY <2>5, <2>6
<1>5. QED BY <1>1, <1>3, <1>4

-----------------------------------------------------------------------------
(* What observe() and removeObserver() change of a message.                *)

LEMMA ObservedFacts ==
  ASSUME NEW r \in OneTimeMessage, NEW s \in Seq(Owners), NEW awake, s # << >>
  PROVE  LET t == Observed(r, s, awake) IN
         /\ t \in OneTimeMessage
         /\ t.version = r.version /\ t.current = r.version
         /\ t.observers = r.observers \o s
         /\ t.active = r.active \cup (ToSet(s) \cap awake)
         /\ \A o \in Owners : o \in ToSet(s) => t.last[o] = -1 /\ t.joined[o] = r.version
         /\ \A o \in Owners : o \notin ToSet(s) =>
              t.last[o] = r.last[o] /\ t.joined[o] = r.joined[o]
         /\ t.eaten = r.eaten \cup {o \in Owners : Waits(r, o)}
<1> DEFINE t == Observed(r, s, awake)
<1>1. /\ ToSet(s) \subseteq Owners /\ r.observers \o s \in Seq(Owners)
      /\ r.version \in Int /\ r.active \subseteq Owners /\ r.eaten \subseteq Owners
      /\ r.last \in [Owners -> Int] /\ r.joined \in [Owners -> Int]
  BY ToSetFacts DEF OneTimeMessage
<1> DEFINE l == [o \in Owners |-> IF o \in ToSet(s) THEN -1 ELSE r.last[o]]
           j == [o \in Owners |-> IF o \in ToSet(s) THEN r.version ELSE r.joined[o]]
<1>2. t = [r EXCEPT !.observers = r.observers \o s, !.active = r.active \cup (ToSet(s) \cap awake),
               !.current = r.version, !.last = l, !.joined = j,
               !.eaten = r.eaten \cup {o \in Owners : Waits(r, o)}]
  BY DEF Observed
<1>3. l \in [Owners -> Int] /\ j \in [Owners -> Int]
  BY <1>1
<1>4. /\ \A o \in Owners : o \in ToSet(s) => l[o] = -1 /\ j[o] = r.version
      /\ \A o \in Owners : o \notin ToSet(s) => l[o] = r.last[o] /\ j[o] = r.joined[o]
  OBVIOUS
<1> HIDE DEF l, j
<1>5. /\ t.version = r.version /\ t.current = r.version
      /\ t.observers = r.observers \o s
      /\ t.active = r.active \cup (ToSet(s) \cap awake)
      /\ t.last = l /\ t.joined = j
      /\ t.eaten = r.eaten \cup {o \in Owners : Waits(r, o)}
  BY <1>2 DEF OneTimeMessage
<1>6. t \in OneTimeMessage
  BY <1>1, <1>2, <1>3 DEF OneTimeMessage
<1> HIDE DEF t
<1>7. /\ t \in OneTimeMessage
      /\ t.version = r.version /\ t.current = r.version
      /\ t.observers = r.observers \o s
      /\ t.active = r.active \cup (ToSet(s) \cap awake)
      /\ \A o \in Owners : o \in ToSet(s) => t.last[o] = -1 /\ t.joined[o] = r.version
      /\ \A o \in Owners : o \notin ToSet(s) =>
           t.last[o] = r.last[o] /\ t.joined[o] = r.joined[o]
      /\ t.eaten = r.eaten \cup {o \in Owners : Waits(r, o)}
  BY <1>4, <1>5, <1>6
<1>8. QED BY <1>7 DEF t

LEMMA RemovedFacts ==
  ASSUME NEW r \in OneTimeMessage, NEW S
  PROVE  /\ Removed(r, S) \in OneTimeMessage
         /\ Removed(r, S).version = r.version /\ Removed(r, S).current = r.current
         /\ Removed(r, S).last = r.last /\ Removed(r, S).joined = r.joined
         /\ Removed(r, S).eaten = r.eaten
         /\ ToSet(Removed(r, S).observers) = ToSet(r.observers) \ S
         /\ IsInjective(r.observers) => IsInjective(Removed(r, S).observers)
         /\ r.observers = << >> => Removed(r, S).observers = << >>
         /\ Removed(r, S).active = r.active \ S
<1> DEFINE t == Removed(r, S)
<1>1. r.observers \in Seq(Owners) /\ r.active \subseteq Owners
  BY DEF OneTimeMessage
<1> DEFINE w == Without(r.observers, S)
<1>2. /\ w \in Seq(Owners) /\ ToSet(w) = ToSet(r.observers) \ S
      /\ IsInjective(r.observers) => IsInjective(w)
  BY <1>1, WithoutFacts
<1>3. r.observers = << >> => w = << >>
  BY <1>2, ToSetFacts, EmptyFacts
<1>4. t = [r EXCEPT !.observers = w, !.active = r.active \ S]
  BY DEF Removed
<1> HIDE DEF w
<1>5. /\ t.version = r.version /\ t.current = r.current
      /\ t.last = r.last /\ t.joined = r.joined /\ t.eaten = r.eaten
      /\ t.observers = w /\ t.active = r.active \ S
  BY <1>4 DEF OneTimeMessage
<1>6. t \in OneTimeMessage
  BY <1>1, <1>2, <1>4 DEF OneTimeMessage
<1> HIDE DEF t
<1>7. /\ t \in OneTimeMessage /\ t.version = r.version /\ t.current = r.current
      /\ t.last = r.last /\ t.joined = r.joined /\ t.eaten = r.eaten
      /\ ToSet(t.observers) = ToSet(r.observers) \ S
      /\ IsInjective(r.observers) => IsInjective(t.observers)
      /\ r.observers = << >> => t.observers = << >>
      /\ t.active = r.active \ S
  BY <1>2, <1>3, <1>5, <1>6
<1>8. QED BY <1>7, Zenon DEF t

(* The dispatches that are under way.                                      *)
LEMMA StackFacts ==
  ASSUME Shapes
  PROVE  /\ DOMAIN stack = 1 .. Len(stack) /\ Len(stack) \in Nat
         /\ \A i \in DOMAIN stack : /\ stack[i] \in Dispatching
                                    /\ stack[i].msg \in Messages
                                    /\ stack[i].left \subseteq Owners
<1>1. stack \in Seq(Dispatching)
  BY DEF Shapes
<1>2. DOMAIN stack = 1 .. Len(stack) /\ Len(stack) \in Nat
  BY <1>1
<1>3. \A i \in DOMAIN stack : stack[i] \in Dispatching
  BY <1>1, <1>2
<1>4. QED BY <1>2, <1>3 DEF Dispatching

(* The innermost dispatch; those it still has to ask.                      *)
LEMMA TopFacts ==
  ASSUME Shapes, stack # << >>
  PROVE  /\ Len(stack) \in DOMAIN stack /\ DOMAIN stack = 1 .. Len(stack) /\ Len(stack) \in Nat
         /\ Top \in Dispatching /\ Top = stack[Len(stack)]
         /\ Top.msg \in Messages /\ Top.left \subseteq Owners /\ Top.called \in Owners \cup {Nobody}
         /\ msg[Top.msg] \in OneTimeMessage
         /\ NextObservers \in Seq(Owners)
         /\ ToSet(NextObservers) = ToSet(msg[Top.msg].observers) \cap Top.left
         /\ NextObservers # << >> => Head(NextObservers) \in ToSet(NextObservers)
<1>1. stack \in Seq(Dispatching) /\ msg \in [Messages -> OneTimeMessage]
  BY DEF Shapes
<1>2. Len(stack) \in DOMAIN stack /\ DOMAIN stack = 1 .. Len(stack) /\ Len(stack) \in Nat
  BY <1>1
<1>3. Top \in Dispatching /\ Top = stack[Len(stack)]
  BY <1>1, <1>2 DEF Top
<1>4. Top.msg \in Messages /\ Top.left \subseteq Owners /\ Top.called \in Owners \cup {Nobody}
  BY <1>3 DEF Dispatching
<1>5. msg[Top.msg] \in OneTimeMessage /\ msg[Top.msg].observers \in Seq(Owners)
  BY <1>1, <1>4 DEF OneTimeMessage
<1>6. /\ NextObservers \in Seq(Owners)
      /\ ToSet(NextObservers) = ToSet(msg[Top.msg].observers) \ (Owners \ Top.left)
  BY <1>5, WithoutFacts DEF NextObservers
<1>7. ToSet(msg[Top.msg].observers) \subseteq Owners
  BY <1>5, ToSetFacts
<1>8. NextObservers # << >> => Head(NextObservers) \in ToSet(NextObservers)
  BY <1>6, TailFacts
<1>9. QED BY <1>2, <1>3, <1>4, <1>5, <1>6, <1>7, <1>8

-----------------------------------------------------------------------------
(* The invariant holds at the start, and what follows from it.             *)

LEMMA InitSafe == Init => SafetyInv
<1> SUFFICES ASSUME Init PROVE SafetyInv
  OBVIOUS
<1>1. /\ life = [o \in Owners |-> "none"] /\ observing = {} /\ results = << >>
      /\ msg = [m \in Messages |-> Fresh]
      /\ stack = << >> /\ invalid = {} /\ waker = Nobody /\ waking = << >>
      /\ log = [o \in Owners |-> << >>] /\ sends = 0
  BY DEF Init
<1>2. /\ Fresh \in OneTimeMessage
      /\ Fresh.version = 0 /\ Fresh.current = -1 /\ Fresh.observers = << >>
      /\ Fresh.active = {} /\ \A o \in Owners : Fresh.last[o] = -1 /\ Fresh.joined[o] = -1
  BY DEF Fresh, OneTimeMessage
<1>3. \A m \in Messages : msg[m] = Fresh
  BY <1>1
<1>4. QueueLength \in Nat /\ MaxSends \in Nat
  BY MessagesAssumption
<1>5. Shapes
  BY <1>1, <1>2, <1>4 DEF Shapes
<1>6. ListInv
  BY <1>1, <1>2, <1>3, <1>4, EmptyFacts DEF ListInv
<1>7. OwnersInv
  BY <1>1 DEF OwnersInv
<1>8. VersionInv
  BY <1>1, <1>2, <1>3, EmptyFacts DEF VersionInv
<1>9. StackInv
  BY <1>1 DEF StackInv
<1>10. LogInv
  BY <1>1 DEF LogInv
<1>11. ActiveInv /\ PendingInv
  BY <1>1, EmptyFacts DEF ActiveInv, PendingInv
<1>12. EatenInv
  BY <1>1, <1>2, <1>3, EmptyFacts DEF EatenInv, Waits
<1>13. QED BY <1>5, <1>6, <1>7, <1>8, <1>9, <1>10, <1>11, <1>12 DEF SafetyInv, OnceInv

LEMMA SafetyParts ==
  ASSUME SafetyInv
  PROVE  /\ Shapes /\ ListInv /\ OwnersInv /\ VersionInv /\ StackInv /\ LogInv
         /\ ActiveInv /\ PendingInv /\ EatenInv
  BY DEF SafetyInv, OnceInv

(* How a message is typed, and the observers in it.                        *)
LEMMA MessageFacts ==
  ASSUME Shapes, NEW m \in Messages
  PROVE  /\ msg[m] \in OneTimeMessage
         /\ msg[m].version \in Int /\ msg[m].current \in Int
         /\ msg[m].observers \in Seq(Owners) /\ ToSet(msg[m].observers) \subseteq Owners
         /\ msg[m].active \subseteq Owners /\ msg[m].eaten \subseteq Owners
         /\ \A o \in Owners : msg[m].last[o] \in Int /\ msg[m].joined[o] \in Int
<1>1. msg[m] \in OneTimeMessage
  BY DEF Shapes
<1>2. /\ msg[m].version \in Int /\ msg[m].current \in Int
      /\ msg[m].observers \in Seq(Owners)
      /\ msg[m].active \subseteq Owners /\ msg[m].eaten \subseteq Owners
      /\ \A o \in Owners : msg[m].last[o] \in Int /\ msg[m].joined[o] \in Int
  BY <1>1 DEF OneTimeMessage
<1>3. ToSet(msg[m].observers) \subseteq Owners
  BY <1>2, ToSetFacts
<1>4. QED BY <1>1, <1>2, <1>3

-----------------------------------------------------------------------------
(* One lemma for each action.                                              *)

LEMMA ReturnSafe == SafetyInv /\ Return => SafetyInv'
<1> SUFFICES ASSUME SafetyInv, Return PROVE SafetyInv'
  OBVIOUS
<1>0. /\ Shapes /\ ListInv /\ OwnersInv /\ VersionInv /\ StackInv /\ LogInv
      /\ ActiveInv /\ PendingInv /\ EatenInv
  BY SafetyParts
<1> DEFINE n == Len(stack)
<1>1. /\ life' = life /\ observing' = observing /\ results' = results /\ msg' = msg
      /\ invalid' = invalid /\ waker' = waker /\ waking' = waking /\ log' = log /\ sends' = sends
      /\ stack # << >> /\ stack' = [stack EXCEPT ![n].called = Nobody]
  BY DEF Return
<1>2. stack \in Seq(Dispatching) /\ n \in DOMAIN stack /\ stack[n] \in Dispatching
  BY <1>0, <1>1 DEF Shapes
<1>3. [stack[n] EXCEPT !.called = Nobody] \in Dispatching
  BY <1>2 DEF Dispatching
<1>4. stack' \in Seq(Dispatching) /\ DOMAIN stack' = DOMAIN stack
  BY <1>1, <1>2, <1>3
<1>5. \A i \in DOMAIN stack : stack'[i].msg = stack[i].msg /\ stack'[i].left = stack[i].left
  BY <1>1, <1>2 DEF Dispatching
<1>6. Shapes'
  BY <1>0, <1>1, <1>4 DEF Shapes
<1>7. ListInv' /\ OwnersInv' /\ LogInv'
  BY <1>0, <1>1 DEF ListInv, OwnersInv, LogInv
<1>8. VersionInv' /\ EatenInv'
  BY <1>0, <1>1 DEF VersionInv, EatenInv, Waits
<1>9. StackInv'
  BY <1>0, <1>1, <1>4, <1>5 DEF StackInv
<1>10. ActiveInv'
  BY <1>0, <1>1 DEF ActiveInv, Told
<1>11. PendingInv'
  BY <1>0, <1>1, <1>4, <1>5 DEF PendingInv, Asked, Told, Waits
<1>12. QED BY <1>6, <1>7, <1>8, <1>9, <1>10, <1>11 DEF SafetyInv, OnceInv

LEMMA AwakeSafe == SafetyInv /\ Awake => SafetyInv'
<1> SUFFICES ASSUME SafetyInv, Awake PROVE SafetyInv'
  OBVIOUS
<1>0. /\ Shapes /\ ListInv /\ OwnersInv /\ VersionInv /\ StackInv /\ LogInv
      /\ ActiveInv /\ PendingInv /\ EatenInv
  BY SafetyParts
<1>1. /\ life' = life /\ observing' = observing /\ results' = results /\ msg' = msg
      /\ stack' = stack /\ invalid' = invalid /\ waking' = waking /\ log' = log /\ sends' = sends
      /\ waking = << >> /\ waker' = Nobody
  BY DEF Awake
<1>2. Shapes'
  BY <1>0, <1>1 DEF Shapes
<1>3. ListInv' /\ OwnersInv' /\ LogInv'
  BY <1>0, <1>1 DEF ListInv, OwnersInv, LogInv
<1>4. VersionInv' /\ EatenInv'
  BY <1>0, <1>1 DEF VersionInv, EatenInv, Waits
<1>5. StackInv'
  BY <1>0, <1>1 DEF StackInv
<1>6. ActiveInv'
  BY <1>0, <1>1, EmptyFacts DEF ActiveInv, Told
<1>7. PendingInv'
  BY <1>0, <1>1, EmptyFacts DEF PendingInv, Asked, Told, Waits
<1>8. QED BY <1>2, <1>3, <1>4, <1>5, <1>6, <1>7 DEF SafetyInv, OnceInv

LEMMA ConsiderNotifySafe == SafetyInv /\ ConsiderNotify => SafetyInv'
<1> SUFFICES ASSUME SafetyInv, ConsiderNotify PROVE SafetyInv'
  OBVIOUS
<1>0. /\ Shapes /\ ListInv /\ OwnersInv /\ VersionInv /\ StackInv /\ LogInv
      /\ ActiveInv /\ PendingInv /\ EatenInv
  BY SafetyParts
<1> DEFINE n == Len(stack)
           m == Top.msg
           r == msg[m]
           o == Head(NextObservers)
           started == life[o] = "started"
           calls == o \in r.active /\ started /\ Newer(r, o)
<1>1. /\ life' = life /\ observing' = observing /\ results' = results
      /\ invalid' = invalid /\ waker' = waker /\ waking' = waking /\ sends' = sends
      /\ stack # << >> /\ m \notin invalid /\ NextObservers # << >>
  BY DEF ConsiderNotify, Running
<1>2. /\ stack' = [stack EXCEPT ![n].left = @ \ {o},
                                ![n].called = IF calls THEN o ELSE Nobody]
      /\ msg' = [msg EXCEPT ![m].active = IF started THEN @ ELSE @ \ {o},
                            ![m].last = IF calls THEN [@ EXCEPT ![o] = r.version] ELSE @]
      /\ log' = IF calls THEN [log EXCEPT ![o] = Append(@, <<m, r.version>>)] ELSE log
  BY DEF ConsiderNotify
<1>3. /\ n \in DOMAIN stack /\ DOMAIN stack = 1 .. n /\ n \in Nat
      /\ stack \in Seq(Dispatching) /\ stack[n] \in Dispatching /\ stack[n] = Top
      /\ m \in Messages /\ r \in OneTimeMessage /\ m = stack[n].msg
      /\ o \in ToSet(r.observers) /\ o \in stack[n].left
  BY <1>0, <1>1, TopFacts DEF Shapes
<1>4. o \in Owners
  BY <1>0, <1>3, MessageFacts
<1> HIDE DEF m, o
<1>5. /\ r.version \in Int /\ r.current \in Int /\ r.active \subseteq Owners
      /\ r.last \in [Owners -> Int] /\ r.joined \in [Owners -> Int]
  BY <1>3 DEF OneTimeMessage
<1>6. /\ stack' \in Seq(Dispatching) /\ DOMAIN stack' = DOMAIN stack
      /\ \A i \in DOMAIN stack : stack'[i].msg = stack[i].msg
      /\ \A i \in DOMAIN stack : i # n => stack'[i].left = stack[i].left
      /\ stack'[n].left = stack[n].left \ {o}
  <2>1. [stack[n] EXCEPT !.left = @ \ {o}, !.called = IF calls THEN o ELSE Nobody] \in Dispatching
    BY <1>3, <1>4 DEF Dispatching
  <2> DEFINE d == [stack[n] EXCEPT !.left = @ \ {o}, !.called = IF calls THEN o ELSE Nobody]
  <2>2. d.msg = stack[n].msg /\ d.left = stack[n].left \ {o}
    BY <1>3 DEF Dispatching
  <2>3. stack' = [stack EXCEPT ![n] = d]
    BY <1>2, <1>3
  <2> HIDE DEF d, calls
  <2>4. d \in Dispatching
    BY <2>1 DEF d
  <2>5. QED BY <1>3, <2>2, <2>3, <2>4
<1> DEFINE q == msg'[m]
<1>7. /\ q \in OneTimeMessage
      /\ q.version = r.version /\ q.current = r.current /\ q.observers = r.observers
      /\ q.joined = r.joined /\ q.eaten = r.eaten
      /\ q.active = IF started THEN r.active ELSE r.active \ {o}
      /\ q.last = IF calls THEN [r.last EXCEPT ![o] = r.version] ELSE r.last
      /\ \A k \in Messages : k # m => msg'[k] = msg[k]
      /\ msg' \in [Messages -> OneTimeMessage]
  <2> DEFINE a == IF started THEN r.active ELSE r.active \ {o}
             l == IF calls THEN [r.last EXCEPT ![o] = r.version] ELSE r.last
             t == [r EXCEPT !.active = a, !.last = l]
  <2>1. a \subseteq Owners /\ l \in [Owners -> Int]
    BY <1>5
  <2>2. msg' = [msg EXCEPT ![m] = t]
    BY <1>0, <1>2, <1>3 DEF Shapes
  <2> HIDE DEF a, l, started, calls
  <2>3. /\ t \in OneTimeMessage
        /\ t.version = r.version /\ t.current = r.current /\ t.observers = r.observers
        /\ t.joined = r.joined /\ t.eaten = r.eaten /\ t.active = a /\ t.last = l
    BY <1>3, <2>1 DEF OneTimeMessage
  <2> HIDE DEF t, r
  <2>4. q = t /\ (\A k \in Messages : k # m => msg'[k] = msg[k]) /\ msg' \in [Messages -> OneTimeMessage]
    BY <1>0, <1>3, <2>2, <2>3 DEF Shapes
  <2> HIDE DEF q
  <2>5. QED BY <2>3, <2>4 DEF a, l
<1> HIDE DEF q
<1>8. /\ \A p \in Owners : p # o => q.last[p] = r.last[p]
      /\ calls => q.last[o] = r.version
      /\ ~ calls => q.last[o] = r.last[o]
  BY <1>4, <1>5, <1>7
<1>9. q.active \subseteq r.active /\ \A p \in r.active : life[p] = "started" => p \in q.active
  BY <1>7
<1>10. /\ 1 <= r.version /\ r.current < r.version
       /\ \A p \in Owners : r.joined[p] <= r.current /\ -1 <= r.last[p] /\ r.last[p] <= r.version
  BY <1>0, <1>3 DEF StackInv, VersionInv
<1>11. calls => r.last[o] < r.version
  BY DEF Newer
<1> HIDE DEF calls
<1>12. log' \in [Owners -> Seq(Messages \X Int)]
  <2>1. log \in [Owners -> Seq(Messages \X Int)] /\ <<m, r.version>> \in Messages \X Int
    BY <1>0, <1>3, <1>5 DEF Shapes
  <2>2. Append(log[o], <<m, r.version>>) \in Seq(Messages \X Int)
    BY <1>4, <2>1, AppendFacts
  <2>3. QED BY <1>2, <1>4, <2>1, <2>2
<1>13. Shapes'
  BY <1>0, <1>1, <1>6, <1>7, <1>12 DEF Shapes
<1>14. \A k \in Messages : msg'[k].version = msg[k].version /\ msg'[k].current = msg[k].current
          /\ msg'[k].observers = msg[k].observers /\ msg'[k].joined = msg[k].joined
          /\ msg'[k].eaten = msg[k].eaten /\ msg'[k].active \subseteq msg[k].active
  BY <1>7, <1>9 DEF q, r
<1>15. ListInv'
  BY <1>0, <1>1, <1>14 DEF ListInv
<1>16. life[o] # "none"
  BY <1>0, <1>3, <1>4 DEF OwnersInv, ListInv
<1>17. OwnersInv'
  <2>1. log \in [Owners -> Seq(Messages \X Int)]
    BY <1>0 DEF Shapes
  <2>2. \A p \in Owners : p # o => log'[p] = log[p]
    BY <1>2, <2>1
  <2>3. QED BY <1>0, <1>1, <1>16, <2>2 DEF OwnersInv
<1>18. VersionInv'
  <2>1. \A p \in Owners : -1 <= q.last[p] /\ q.last[p] <= r.version
    BY <1>5, <1>8, <1>10
  <2>2. \A k \in Messages, p \in Owners : -1 <= msg'[k].last[p] /\ msg'[k].last[p] <= msg[k].version
    BY <1>0, <1>7, <2>1 DEF VersionInv, q, r
  <2>3. QED BY <1>0, <1>1, <1>14, <2>2 DEF VersionInv
<1>19. StackInv'
  <2>1. \A i \in DOMAIN stack : stack[i].msg \in Messages
    BY <1>0, StackFacts
  <2>2. QED BY <1>0, <1>1, <1>6, <1>14, <2>1 DEF StackInv
<1>20. LogInv'
  <2>1. \A p \in Owners : log'[p] = log[p] \/ (p = o /\ calls /\ log'[p] = Append(log[p], <<m, r.version>>))
    BY <1>0, <1>2 DEF Shapes
  <2>2. \A p \in Owners, k \in Messages :
          /\ msg'[k].joined[p] = msg[k].joined[p]
          /\ msg[k].last[p] <= msg'[k].last[p]
    <3>1. \A p \in Owners : r.last[p] <= q.last[p]
      BY <1>5, <1>8, <1>10
    <3>2. \A k \in Messages, p \in Owners : msg[k].last[p] <= msg[k].last[p]
      BY <1>0, MessageFacts
    <3>3. QED BY <1>7, <1>14, <3>1, <3>2 DEF q, r
  <2>3. \A p \in Owners : log[p] \in Seq(Messages \X Int)
    BY <1>0 DEF Shapes
  <2>4. SUFFICES ASSUME NEW p \in Owners, NEW i \in DOMAIN log'[p]
        PROVE  LET k == log'[p][i][1]  v == log'[p][i][2] IN
               /\ 1 <= v /\ msg'[k].joined[p] < v /\ v <= msg'[k].last[p]
               /\ \A j \in 1 .. i - 1 : log'[p][j][1] = k => log'[p][j][2] < v
    BY DEF LogInv
  <2>5. ASSUME NEW j \in DOMAIN log[p]
        PROVE  LET k == log[p][j][1]  v == log[p][j][2] IN
               /\ k \in Messages /\ v \in Int
               /\ 1 <= v /\ msg'[k].joined[p] < v /\ v <= msg[k].last[p] /\ v <= msg'[k].last[p]
    <3>1. log[p][j] \in Messages \X Int
      BY <2>3
    <3> DEFINE k == log[p][j][1]  v == log[p][j][2]
    <3>2. k \in Messages /\ v \in Int
      BY <3>1
    <3>3. 1 <= v /\ msg[k].joined[p] < v /\ v <= msg[k].last[p]
      BY <1>0 DEF LogInv
    <3> HIDE DEF k, v
    <3>4. msg[k].last[p] \in Int /\ msg'[k].last[p] \in Int /\ msg'[k].joined[p] = msg[k].joined[p]
      <4>1. msg[k] \in OneTimeMessage /\ msg'[k] \in OneTimeMessage
        BY <1>0, <1>13, <3>2 DEF Shapes
      <4>2. msg[k].last[p] \in Int /\ msg'[k].last[p] \in Int
        BY <4>1 DEF OneTimeMessage
      <4>3. QED BY <2>2, <3>2, <4>2
    <3>5. v <= msg'[k].last[p]
      BY <2>2, <3>2, <3>3, <3>4
    <3>6. QED BY <3>2, <3>3, <3>4, <3>5 DEF k, v
  <2>6. CASE log'[p] = log[p]
    BY <1>0, <2>4, <2>5, <2>6 DEF LogInv
  <2>7. CASE p = o /\ calls /\ log'[p] = Append(log[p], <<m, r.version>>)
    <3> DEFINE L == Len(log[p])
    <3>1. /\ L \in Nat /\ DOMAIN log[p] = 1 .. L /\ DOMAIN log'[p] = 1 .. L + 1
          /\ \A j \in 1 .. L : log'[p][j] = log[p][j]
          /\ log'[p][L + 1] = <<m, r.version>>
      BY <2>3, <2>7
    <3>2. CASE i \in 1 .. L
      <4>1. \A j \in 1 .. i - 1 : log'[p][j] = log[p][j]
        BY <3>1, <3>2
      <4>2. log'[p][i] = log[p][i] /\ i \in DOMAIN log[p]
        BY <3>1, <3>2
      <4>3. QED BY <1>0, <2>5, <4>1, <4>2 DEF LogInv
    <3>3. CASE i = L + 1
      <4>1. log'[p][i][1] = m /\ log'[p][i][2] = r.version
        BY <3>1, <3>3
      <4>2. q.last[o] = r.version /\ q.joined[o] < r.version
        BY <1>4, <1>5, <1>7, <1>8, <1>10, <2>7
      <4>3. ASSUME NEW j \in 1 .. i - 1, log'[p][j][1] = m PROVE log'[p][j][2] < r.version
        <5>1. j \in DOMAIN log[p] /\ log'[p][j] = log[p][j]
          BY <3>1, <3>3
        <5>2. log[p][j][2] \in Int /\ log[p][j][2] <= r.last[o]
          <6>1. log[p][j][1] = m
            BY <4>3, <5>1
          <6>2. log[p][j][2] \in Int /\ log[p][j][2] <= msg[m].last[p]
            BY <2>5, <5>1, <6>1
          <6>3. QED BY <2>7, <6>2 DEF r
        <5>3. QED BY <1>4, <1>5, <1>11, <2>7, <5>1, <5>2
      <4>4. r.version \in Int /\ 1 <= r.version
        BY <1>5, <1>10
      <4>5. msg'[m].last[p] = r.version /\ msg'[m].joined[p] < r.version
        BY <2>7, <4>2 DEF q
      <4>6. QED BY <4>1, <4>3, <4>4, <4>5
    <3>4. QED BY <3>1, <3>2, <3>3
  <2>8. QED BY <2>1, <2>6, <2>7
<1>21. ActiveInv'
  <2>1. \A k \in Messages, p \in Owners : life[p] = "started" /\ p \in msg[k].active => p \in msg'[k].active
    BY <1>7, <1>9 DEF q, r
  <2>2. ToSet(results) \subseteq Messages
    BY <1>0, ToSetFacts DEF Shapes
  <2>3. QED BY <1>0, <1>1, <1>14, <2>1, <2>2 DEF ActiveInv, Told
<1>22. \A k \in Messages, p \in Owners :
          Waits(msg'[k], p) => Waits(msg[k], p) /\ (k = m /\ p = o => ~ calls)
  <2>1. SUFFICES ASSUME NEW k \in Messages, NEW p \in Owners, Waits(msg'[k], p)
        PROVE  Waits(msg[k], p) /\ (k = m /\ p = o => ~ calls)
    OBVIOUS
  <2>2. /\ p \in ToSet(msg[k].observers) /\ msg[k].version > msg[k].joined[p]
        /\ msg[k].version > msg'[k].last[p]
    BY <1>14, <2>1 DEF Waits
  <2>3. CASE k = m /\ p = o /\ calls
    BY <1>5, <1>8, <2>2, <2>3 DEF q, r
  <2>4. CASE ~ (k = m /\ p = o /\ calls)
    <3>1. msg'[k].last[p] = msg[k].last[p]
      BY <1>7, <1>8, <2>4 DEF q, r
    <3>2. QED BY <2>2, <2>4, <3>1 DEF Waits
  <2>5. QED BY <2>3, <2>4
<1>23. PendingInv'
  <2>1. SUFFICES ASSUME NEW p \in Owners, NEW k \in ToSet(results), life[p] = "started",
                        Waits(msg'[k], p), p \notin msg'[k].eaten
        PROVE  Asked(p, k)' \/ Told(p, k)'
    BY <1>1 DEF PendingInv
  <2>2. k \in Messages
    BY <1>0, ToSetFacts DEF Shapes
  <2>3. Waits(msg[k], p) /\ (k = m /\ p = o => ~ calls) /\ p \notin msg[k].eaten
    BY <1>14, <1>22, <2>1, <2>2
  <2>4. Asked(p, k) \/ Told(p, k)
    BY <1>0, <2>1, <2>3 DEF PendingInv
  <2>5. CASE Told(p, k)
    BY <1>1, <2>5 DEF Told
  <2>6. CASE Asked(p, k) /\ ~ (k = m /\ p = o)
    <3>1. PICK i \in DOMAIN stack : stack[i].msg = k /\ (p \in stack[i].left \/ k \in invalid)
      BY <2>6 DEF Asked
    <3>2. i = n => k = m
      BY <1>3, <3>1
    <3>3. p \in stack[i].left => p \in stack'[i].left
      BY <1>6, <2>6, <3>2
    <3>4. QED BY <1>1, <1>6, <3>1, <3>3 DEF Asked
  <2>7. CASE k = m /\ p = o
    <3>1. r.version > r.last[o]
      BY <2>3, <2>7 DEF Waits, r
    <3>2. o \notin r.active
      BY <2>1, <2>3, <2>7, <3>1 DEF calls, Newer
    <3>3. Told(p, k)
      BY <1>0, <1>3, <2>1, <2>7, <3>2 DEF ActiveInv, r
    <3>4. QED BY <1>1, <3>3 DEF Told
  <2>8. QED BY <2>4, <2>5, <2>6, <2>7
<1>24. EatenInv'
  BY <1>0, <1>14, <1>22 DEF EatenInv
<1>25. QED BY <1>13, <1>15, <1>17, <1>18, <1>19, <1>20, <1>21, <1>23, <1>24 DEF SafetyInv, OnceInv

LEMMA TurnOrEndSafe == SafetyInv /\ TurnOrEnd => SafetyInv'
<1> SUFFICES ASSUME SafetyInv, TurnOrEnd PROVE SafetyInv'
  OBVIOUS
<1>0. /\ Shapes /\ ListInv /\ OwnersInv /\ VersionInv /\ StackInv /\ LogInv
      /\ ActiveInv /\ PendingInv /\ EatenInv
  BY SafetyParts
<1> DEFINE n == Len(stack)
           m == Top.msg
<1>1. /\ life' = life /\ observing' = observing /\ results' = results /\ msg' = msg
      /\ waker' = waker /\ waking' = waking /\ log' = log /\ sends' = sends
      /\ stack # << >> /\ invalid' = invalid \ {m}
  BY DEF TurnOrEnd, Running
<1>2. \/ m \in invalid /\ stack' = [stack EXCEPT ![n].left = Owners]
      \/ m \notin invalid /\ NextObservers = << >> /\ stack' = Front(stack)
  BY DEF TurnOrEnd, Again
<1>3. /\ n \in DOMAIN stack /\ DOMAIN stack = 1 .. n /\ n \in Nat
      /\ stack \in Seq(Dispatching) /\ stack[n] \in Dispatching /\ stack[n] = Top
      /\ m \in Messages /\ m = stack[n].msg
      /\ ToSet(NextObservers) = ToSet(msg[m].observers) \cap stack[n].left
  BY <1>0, <1>1, TopFacts DEF Shapes
<1> HIDE DEF m
<1>4. ListInv' /\ OwnersInv' /\ LogInv'
  BY <1>0, <1>1 DEF ListInv, OwnersInv, LogInv
<1>5. VersionInv' /\ EatenInv'
  BY <1>0, <1>1 DEF VersionInv, EatenInv, Waits
<1>6. ActiveInv'
  BY <1>0, <1>1 DEF ActiveInv, Told
<1>7. invalid' \subseteq Messages
  BY <1>0, <1>1 DEF Shapes
<1>8. CASE m \in invalid
  <2>1. stack' = [stack EXCEPT ![n].left = Owners]
    BY <1>2, <1>8
  <2>2. [stack[n] EXCEPT !.left = Owners] \in Dispatching
    BY <1>3 DEF Dispatching
  <2>3. /\ stack' \in Seq(Dispatching) /\ DOMAIN stack' = DOMAIN stack
        /\ \A i \in DOMAIN stack : stack'[i].msg = stack[i].msg
        /\ \A i \in DOMAIN stack : i # n => stack'[i].left = stack[i].left
        /\ stack'[n].left = Owners
    BY <1>3, <2>1, <2>2 DEF Dispatching
  <2>4. Shapes'
    BY <1>0, <1>1, <1>7, <2>3 DEF Shapes
  <2>5. StackInv'
    BY <1>0, <1>1, <2>3 DEF StackInv
  <2>6. \A p \in Owners : \A k : Asked(p, k) => Asked(p, k)'
    <3>1. SUFFICES ASSUME NEW p \in Owners, NEW k, Asked(p, k) PROVE Asked(p, k)'
      OBVIOUS
    <3>2. PICK i \in DOMAIN stack : stack[i].msg = k /\ (p \in stack[i].left \/ k \in invalid)
      BY <3>1 DEF Asked
    <3>3. CASE i = n
      BY <2>3, <3>2, <3>3 DEF Asked
    <3>4. CASE i # n
      <4>1. k # m
        BY <1>0, <1>3, <3>2, <3>4 DEF StackInv
      <4>2. QED BY <1>1, <2>3, <3>2, <3>4, <4>1 DEF Asked
    <3>5. QED BY <3>3, <3>4
  <2>7. PendingInv'
    BY <1>0, <1>1, <2>6 DEF PendingInv, Told, Waits
  <2>8. QED BY <1>4, <1>5, <1>6, <2>4, <2>5, <2>7 DEF SafetyInv, OnceInv
<1>9. CASE m \notin invalid
  <2>1. stack' = SubSeq(stack, 1, n - 1) /\ NextObservers = << >>
    BY <1>2, <1>9 DEF Front
  <2>2. /\ stack' \in Seq(Dispatching) /\ DOMAIN stack' = 1 .. n - 1
        /\ \A i \in 1 .. n - 1 : stack'[i] = stack[i]
    BY <1>3, <2>1
  <2>3. invalid' = invalid /\ ToSet(msg[m].observers) \cap stack[n].left = {}
    BY <1>1, <1>3, <1>9, <2>1, EmptyFacts
  <2>4. Shapes'
    BY <1>0, <1>1, <1>7, <2>2 DEF Shapes
  <2>5. \A i \in DOMAIN stack : i # n => i \in DOMAIN stack'
    BY <1>3, <2>2
  <2>6. StackInv'
    <3>1. \A i \in DOMAIN stack' : i \in DOMAIN stack /\ stack'[i] = stack[i]
      BY <1>3, <2>2
    <3>2. ASSUME NEW k \in invalid PROVE \E i \in DOMAIN stack' : stack'[i].msg = k
      <4>1. PICK i \in DOMAIN stack : stack[i].msg = k
        BY <1>0 DEF StackInv
      <4>2. i # n
        BY <1>3, <1>9, <4>1
      <4>3. QED BY <2>5, <3>1, <4>1, <4>2
    <3>3. QED BY <1>0, <1>1, <2>3, <3>1, <3>2 DEF StackInv
  <2>7. ASSUME NEW p \in Owners, NEW k, Waits(msg[k], p), Asked(p, k)
        PROVE  Asked(p, k)'
    <3>1. PICK i \in DOMAIN stack : stack[i].msg = k /\ (p \in stack[i].left \/ k \in invalid)
      BY <2>7 DEF Asked
    <3>2. i # n
      BY <1>3, <1>9, <2>3, <2>7, <3>1 DEF Waits
    <3>3. QED BY <2>2, <2>3, <2>5, <3>1, <3>2 DEF Asked
  <2>8. PendingInv'
    BY <1>0, <1>1, <2>7 DEF PendingInv, Told, Waits
  <2>9. QED BY <1>4, <1>5, <1>6, <2>4, <2>6, <2>8 DEF SafetyInv, OnceInv
<1>10. QED BY <1>8, <1>9

LEMMA StartSafe == ASSUME NEW o \in Owners PROVE SafetyInv /\ Start(o) => SafetyInv'
<1> SUFFICES ASSUME SafetyInv, Start(o) PROVE SafetyInv'
  OBVIOUS
<1>0. /\ Shapes /\ ListInv /\ OwnersInv /\ VersionInv /\ StackInv /\ LogInv
      /\ ActiveInv /\ PendingInv /\ EatenInv
  BY SafetyParts
<1>1. /\ observing' = observing /\ results' = results /\ msg' = msg
      /\ stack' = stack /\ invalid' = invalid /\ log' = log /\ sends' = sends
      /\ stack = << >> /\ waker = Nobody /\ life[o] = "created" /\ waker' = o
      /\ life' = [life EXCEPT ![o] = "started"]
      /\ waking' = Without(results, {m \in Messages : o \notin ToSet(msg[m].observers)})
  BY DEF Start, Idle
<1>2. /\ life \in [Owners -> {"none", "created", "started", "destroyed"}]
      /\ results \in Seq(Messages) /\ ToSet(results) \subseteq Messages
  BY <1>0, ToSetFacts DEF Shapes
<1>3. /\ waking' \in Seq(Messages)
      /\ ToSet(waking') = ToSet(results) \ {m \in Messages : o \notin ToSet(msg[m].observers)}
  BY <1>1, <1>2, WithoutFacts
<1>4. \A m \in ToSet(results) : o \in ToSet(msg[m].observers) => m \in ToSet(waking')
  BY <1>2, <1>3
<1>5. \A p \in Owners : p # o => life'[p] = life[p]
  BY <1>1, <1>2
<1>6. life' \in [Owners -> {"none", "created", "started", "destroyed"}] /\ life'[o] = "started"
  BY <1>1, <1>2
<1>7. Shapes'
  BY <1>0, <1>1, <1>3, <1>6 DEF Shapes
<1>8. ListInv' /\ LogInv'
  BY <1>0, <1>1 DEF ListInv, LogInv
<1>9. VersionInv' /\ EatenInv'
  BY <1>0, <1>1 DEF VersionInv, EatenInv, Waits
<1>10. StackInv'
  BY <1>0, <1>1 DEF StackInv
<1>11. OwnersInv'
  BY <1>0, <1>1, <1>5, <1>6, MessagesAssumption DEF OwnersInv
<1>12. waking = << >> /\ \A p, m : ~ Told(p, m)
  BY <1>0, <1>1, EmptyFacts DEF OwnersInv, Told
<1>13. ActiveInv'
  BY <1>0, <1>1, <1>4, <1>5, <1>12 DEF ActiveInv, Told
<1>14. PendingInv'
  <2>1. \A p, m : Waits(msg[m], p) => p \in ToSet(msg[m].observers)
    BY DEF Waits
  <2>2. \A p, m : ~ Asked(p, m)
    BY <1>1 DEF Asked
  <2>3. QED BY <1>0, <1>1, <1>4, <1>5, <1>12, <2>1, <2>2 DEF PendingInv, Told, Waits
<1>15. QED BY <1>7, <1>8, <1>9, <1>10, <1>11, <1>13, <1>14 DEF SafetyInv, OnceInv

LEMMA StopSafe == ASSUME NEW o \in Owners PROVE SafetyInv /\ Stop(o) => SafetyInv'
<1> SUFFICES ASSUME SafetyInv, Stop(o) PROVE SafetyInv'
  OBVIOUS
<1>0. /\ Shapes /\ ListInv /\ OwnersInv /\ VersionInv /\ StackInv /\ LogInv
      /\ ActiveInv /\ PendingInv /\ EatenInv
  BY SafetyParts
<1>1. /\ observing' = observing /\ results' = results /\ waker' = waker /\ waking' = waking
      /\ stack' = stack /\ invalid' = invalid /\ log' = log /\ sends' = sends
      /\ stack = << >> /\ waker = Nobody /\ life[o] = "started"
      /\ life' = [life EXCEPT ![o] = "created"]
      /\ msg' = [m \in Messages |-> [msg[m] EXCEPT !.active = @ \ {o}]]
  BY DEF Stop, Idle
<1>2. \A m \in Messages :
        /\ msg'[m] \in OneTimeMessage
        /\ msg'[m].version = msg[m].version /\ msg'[m].current = msg[m].current
        /\ msg'[m].observers = msg[m].observers /\ msg'[m].joined = msg[m].joined
        /\ msg'[m].last = msg[m].last /\ msg'[m].eaten = msg[m].eaten
        /\ msg'[m].active = msg[m].active \ {o}
  BY <1>0, <1>1, MessageFacts DEF OneTimeMessage
<1>3. \A m \in Messages, p \in Owners : Waits(msg'[m], p) <=> Waits(msg[m], p)
  BY <1>2 DEF Waits
<1>4. life' \in [Owners -> {"none", "created", "started", "destroyed"}] /\ life'[o] = "created"
  BY <1>0, <1>1 DEF Shapes
<1>5. \A p \in Owners : p # o => life'[p] = life[p]
  BY <1>0, <1>1 DEF Shapes
<1>6. msg' \in [Messages -> OneTimeMessage]
  <2>1. msg' = [m \in Messages |-> msg'[m]]
    BY <1>1
  <2>2. QED BY <1>2, <2>1
<1>7. ToSet(results) \subseteq Messages
  BY <1>0, ToSetFacts DEF Shapes
<1>8. Shapes'
  BY <1>0, <1>1, <1>4, <1>6 DEF Shapes
<1>9. ListInv'
  BY <1>0, <1>1, <1>2 DEF ListInv
<1>10. OwnersInv'
  BY <1>0, <1>1, <1>4, <1>5 DEF OwnersInv
<1>11. VersionInv'
  BY <1>0, <1>1, <1>2 DEF VersionInv
<1>12. StackInv'
  <2>1. invalid = {}
    BY <1>0, <1>1 DEF StackInv
  <2>2. QED BY <1>1, <2>1 DEF StackInv
<1>13. LogInv'
  <2>1. \A p \in Owners : log[p] \in Seq(Messages \X Int)
    BY <1>0 DEF Shapes
  <2>2. \A p \in Owners : \A i \in DOMAIN log[p] : log[p][i][1] \in Messages
    BY <2>1
  <2>3. QED BY <1>0, <1>1, <1>2, <2>2 DEF LogInv
<1>14. ActiveInv'
  BY <1>0, <1>1, <1>2, <1>4, <1>5, <1>7 DEF ActiveInv, Told
<1>15. PendingInv'
  <2>1. SUFFICES ASSUME NEW p \in Owners, NEW m \in ToSet(results'), life'[p] = "started",
                        Waits(msg'[m], p), p \notin msg'[m].eaten
        PROVE  Asked(p, m)' \/ Told(p, m)'
    BY DEF PendingInv
  <2>2. /\ m \in ToSet(results) /\ m \in Messages /\ life[p] = "started"
        /\ Waits(msg[m], p) /\ p \notin msg[m].eaten
    BY <1>1, <1>2, <1>3, <1>4, <1>5, <1>7, <2>1
  <2>3. Asked(p, m) \/ Told(p, m)
    BY <1>0, <2>2 DEF PendingInv
  <2>4. QED BY <1>1, <2>3 DEF Asked, Told
<1>16. EatenInv'
  BY <1>0, <1>2, <1>3 DEF EatenInv
<1>17. QED BY <1>8, <1>9, <1>10, <1>11, <1>12, <1>13, <1>14, <1>15, <1>16 DEF SafetyInv, OnceInv

LEMMA DestroySafe == ASSUME NEW o \in Owners PROVE SafetyInv /\ Destroy(o) => SafetyInv'
<1> SUFFICES ASSUME SafetyInv, Destroy(o) PROVE SafetyInv'
  OBVIOUS
<1>0. /\ Shapes /\ ListInv /\ OwnersInv /\ VersionInv /\ StackInv /\ LogInv
      /\ ActiveInv /\ PendingInv /\ EatenInv
  BY SafetyParts
<1>1. /\ observing' = observing \ {o} /\ waker' = waker /\ waking' = waking
      /\ stack' = stack /\ invalid' = invalid /\ log' = log /\ sends' = sends
      /\ stack = << >> /\ waker = Nobody /\ life[o] = "created"
      /\ life' = [life EXCEPT ![o] = "destroyed"]
      /\ results' = << >> \/ results' = results
      /\ msg' = [m \in Messages |-> Removed(msg[m], {o})]
  BY DEF Destroy, Idle
<1>2. \A m \in Messages :
        /\ msg'[m] \in OneTimeMessage
        /\ msg'[m].version = msg[m].version /\ msg'[m].current = msg[m].current
        /\ msg'[m].joined = msg[m].joined /\ msg'[m].last = msg[m].last
        /\ msg'[m].eaten = msg[m].eaten
        /\ ToSet(msg'[m].observers) = ToSet(msg[m].observers) \ {o}
        /\ IsInjective(msg[m].observers) => IsInjective(msg'[m].observers)
        /\ msg[m].observers = << >> => msg'[m].observers = << >>
        /\ msg'[m].active = msg[m].active \ {o}
  <2>1. SUFFICES ASSUME NEW m \in Messages, NEW t, t = Removed(msg[m], {o})
        PROVE  /\ t \in OneTimeMessage
               /\ t.version = msg[m].version /\ t.current = msg[m].current
               /\ t.joined = msg[m].joined /\ t.last = msg[m].last
               /\ t.eaten = msg[m].eaten
               /\ ToSet(t.observers) = ToSet(msg[m].observers) \ {o}
               /\ IsInjective(msg[m].observers) => IsInjective(t.observers)
               /\ msg[m].observers = << >> => t.observers = << >>
               /\ t.active = msg[m].active \ {o}
    BY <1>1
  <2>2. msg[m] \in OneTimeMessage
    BY <1>0, MessageFacts
  <2>3. PICK S : S = {o}
    OBVIOUS
  <2>4. t = Removed(msg[m], S)
    BY <2>1, <2>3
  <2>5. /\ t \in OneTimeMessage
        /\ t.version = msg[m].version /\ t.current = msg[m].current
        /\ t.joined = msg[m].joined /\ t.last = msg[m].last
        /\ t.eaten = msg[m].eaten
        /\ ToSet(t.observers) = ToSet(msg[m].observers) \ S
        /\ IsInjective(msg[m].observers) => IsInjective(t.observers)
        /\ msg[m].observers = << >> => t.observers = << >>
        /\ t.active = msg[m].active \ S
    BY <2>2, <2>4, RemovedFacts
  <2>6. QED BY <2>3, <2>5
<1>3. \A m \in Messages, p \in Owners : Waits(msg'[m], p) => Waits(msg[m], p)
  BY <1>2 DEF Waits
<1>4. life' \in [Owners -> {"none", "created", "started", "destroyed"}] /\ life'[o] = "destroyed"
  BY <1>0, <1>1 DEF Shapes
<1>5. \A p \in Owners : p # o => life'[p] = life[p]
  BY <1>0, <1>1 DEF Shapes
<1>6. msg' \in [Messages -> OneTimeMessage]
  <2>1. msg' = [m \in Messages |-> msg'[m]]
    BY <1>1
  <2>2. QED BY <1>2, <2>1
<1>7. ToSet(results) \subseteq Messages /\ ToSet(results') \subseteq ToSet(results)
  <2>1. ToSet(results) \subseteq Messages
    BY <1>0, ToSetFacts DEF Shapes
  <2>2. QED BY <1>1, <2>1, EmptyFacts
<1>8. Shapes'
  <2>1. results \in Seq(Messages) /\ observing \in SUBSET Owners
    BY <1>0 DEF Shapes
  <2>2. results' \in Seq(Messages)
    <3>1. << >> \in Seq(Messages)
      OBVIOUS
    <3>2. results' = << >> \/ results' = results
      BY <1>1
    <3>3. QED BY <2>1, <3>1, <3>2
  <2>3. observing' \in SUBSET Owners
    BY <1>1, <2>1
  <2>4. QED BY <1>0, <1>1, <1>4, <1>6, <2>2, <2>3 DEF Shapes
<1>9. ListInv'
  <2>1. IsInjective(results') /\ Len(results') <= QueueLength
    <3>1. Len(<< >>) <= QueueLength
      BY MessagesAssumption
    <3>2. QED BY <1>0, <1>1, <3>1, EmptyFacts DEF ListInv
  <2>2. ASSUME NEW m \in Messages
        PROVE  /\ IsInjective(msg'[m].observers) /\ ToSet(msg'[m].observers) \subseteq observing'
               /\ msg'[m].active \subseteq ToSet(msg'[m].observers)
    <3>1. /\ IsInjective(msg[m].observers) /\ ToSet(msg[m].observers) \subseteq observing
          /\ msg[m].active \subseteq ToSet(msg[m].observers)
      BY <1>0 DEF ListInv
    <3>2. observing' = observing \ {o}
      BY <1>1
    <3>3. QED BY <1>2, <3>1, <3>2
  <2>3. QED BY <2>1, <2>2 DEF ListInv
<1>10. OwnersInv'
  BY <1>0, <1>1, <1>4, <1>5 DEF OwnersInv
<1>11. VersionInv'
  BY <1>0, <1>1, <1>2, <1>7 DEF VersionInv
<1>12. StackInv'
  <2>1. invalid = {}
    BY <1>0, <1>1 DEF StackInv
  <2>2. QED BY <1>1, <2>1 DEF StackInv
<1>13. LogInv'
  <2>1. \A p \in Owners : log[p] \in Seq(Messages \X Int)
    BY <1>0 DEF Shapes
  <2>2. \A p \in Owners : \A i \in DOMAIN log[p] : log[p][i][1] \in Messages
    BY <2>1
  <2>3. \A m \in Messages : msg'[m].joined = msg[m].joined /\ msg'[m].last = msg[m].last
    BY <1>2
  <2>4. LogInv /\ log' = log
    BY <1>0, <1>1
  <2>5. QED BY <2>2, <2>3, <2>4 DEF LogInv
<1>14. ActiveInv'
  <2>1. SUFFICES ASSUME NEW p \in Owners, NEW m \in ToSet(results'), life'[p] = "started",
                        p \in ToSet(msg'[m].observers)
        PROVE  p \in msg'[m].active \/ Told(p, m)'
    BY DEF ActiveInv
  <2>2. /\ m \in ToSet(results) /\ m \in Messages /\ p # o /\ life[p] = "started"
        /\ p \in ToSet(msg[m].observers)
    BY <1>2, <1>4, <1>5, <1>7, <2>1
  <2>3. p \in msg[m].active \/ Told(p, m)
    BY <1>0, <2>2 DEF ActiveInv
  <2>4. QED BY <1>1, <1>2, <2>2, <2>3 DEF Told
<1>15. PendingInv'
  <2>1. SUFFICES ASSUME NEW p \in Owners, NEW m \in ToSet(results'), life'[p] = "started",
                        Waits(msg'[m], p), p \notin msg'[m].eaten
        PROVE  Asked(p, m)' \/ Told(p, m)'
    BY DEF PendingInv
  <2>2. /\ m \in ToSet(results) /\ m \in Messages /\ life[p] = "started"
        /\ Waits(msg[m], p) /\ p \notin msg[m].eaten
    BY <1>1, <1>2, <1>3, <1>4, <1>5, <1>7, <2>1
  <2>3. Asked(p, m) \/ Told(p, m)
    BY <1>0, <2>2 DEF PendingInv
  <2>4. QED BY <1>1, <2>3 DEF Asked, Told
<1>16. EatenInv'
  BY <1>0, <1>2, <1>3 DEF EatenInv
<1>17. QED BY <1>8, <1>9, <1>10, <1>11, <1>12, <1>13, <1>14, <1>15, <1>16 DEF SafetyInv, OnceInv

LEMMA WakeSafe == SafetyInv /\ Wake => SafetyInv'
<1> SUFFICES ASSUME SafetyInv, Wake PROVE SafetyInv'
  OBVIOUS
<1>0. /\ Shapes /\ ListInv /\ OwnersInv /\ VersionInv /\ StackInv /\ LogInv
      /\ ActiveInv /\ PendingInv /\ EatenInv
  BY SafetyParts
<1> DEFINE m == Head(waking)
           among == waker \in ToSet(msg[m].observers)
           newer == msg[m].version > msg[m].current
<1>1. /\ life' = life /\ observing' = observing /\ results' = results /\ invalid' = invalid
      /\ waker' = waker /\ log' = log /\ sends' = sends
      /\ stack = << >> /\ waking # << >> /\ waking' = Tail(waking)
      /\ among => /\ msg' = [msg EXCEPT ![m].active = @ \cup {waker}]
                  /\ stack' = IF newer THEN Dispatch(m, {waker}) ELSE stack
      /\ ~ among => msg' = msg /\ stack' = stack
  BY DEF Wake
<1>2. /\ waking' \in Seq(Messages) /\ m \in Messages
      /\ ToSet(waking) = {m} \cup ToSet(waking')
  BY <1>0, <1>1, TailFacts DEF Shapes
<1>3. waker \in Owners
  BY <1>0, <1>1 DEF Shapes, OwnersInv
<1> HIDE DEF m
<1>4. /\ msg' \in [Messages -> OneTimeMessage]
      /\ \A k \in Messages :
           /\ msg'[k].version = msg[k].version /\ msg'[k].current = msg[k].current
           /\ msg'[k].joined = msg[k].joined /\ msg'[k].last = msg[k].last
           /\ msg'[k].eaten = msg[k].eaten /\ msg'[k].observers = msg[k].observers
           /\ msg[k].active \subseteq msg'[k].active
           /\ k # m => msg'[k] = msg[k]
      /\ among => msg'[m].active = msg[m].active \cup {waker}
      /\ ~ among => msg'[m].active = msg[m].active
  <2>1. CASE ~ among
    BY <1>0, <1>1, <2>1 DEF Shapes
  <2>2. CASE among
    <3> DEFINE t == [msg[m] EXCEPT !.active = @ \cup {waker}]
    <3>1. msg' = [msg EXCEPT ![m] = t]
      BY <1>0, <1>1, <1>2, <2>2 DEF Shapes
    <3>2. /\ t \in OneTimeMessage
          /\ t.version = msg[m].version /\ t.current = msg[m].current
          /\ t.joined = msg[m].joined /\ t.last = msg[m].last
          /\ t.eaten = msg[m].eaten /\ t.observers = msg[m].observers
          /\ t.active = msg[m].active \cup {waker}
      BY <1>0, <1>2, <1>3, MessageFacts DEF OneTimeMessage
    <3> HIDE DEF t
    <3>3. msg'[m] = t /\ (\A k \in Messages : k # m => msg'[k] = msg[k])
          /\ msg' \in [Messages -> OneTimeMessage]
      BY <1>0, <1>2, <3>1, <3>2 DEF Shapes
    <3>4. QED BY <2>2, <3>2, <3>3
  <2>3. QED BY <2>1, <2>2
<1>5. \A k \in Messages, p \in Owners : Waits(msg'[k], p) <=> Waits(msg[k], p)
  BY <1>4 DEF Waits
<1>6. ToSet(results) \subseteq Messages
  BY <1>0, ToSetFacts DEF Shapes
<1>7. /\ stack' \in Seq(Dispatching)
      /\ \/ stack' = << >>
         \/ /\ among /\ newer /\ DOMAIN stack' = {1}
            /\ stack'[1].msg = m /\ stack'[1].left = {waker}
  <2> DEFINE d == [msg |-> m, left |-> {waker}, called |-> Nobody]
  <2>1. d \in Dispatching /\ d.msg = m /\ d.left = {waker}
    BY <1>2, <1>3 DEF Dispatching
  <2>2. Dispatch(m, {waker}) = Append(stack, d)
    BY DEF Dispatch
  <2> HIDE DEF d
  <2>3. Append(<< >>, d) \in Seq(Dispatching) /\ DOMAIN Append(<< >>, d) = {1} /\ Append(<< >>, d)[1] = d
    BY <2>1
  <2>4. << >> \in Seq(Dispatching)
    OBVIOUS
  <2>5. QED BY <1>1, <2>1, <2>2, <2>3, <2>4
<1>8. invalid = {}
  BY <1>0, <1>1 DEF StackInv
<1>9. Shapes'
  BY <1>0, <1>1, <1>2, <1>4, <1>7 DEF Shapes
<1>10. ListInv'
  <2>1. \A k \in Messages : msg'[k].active \subseteq ToSet(msg[k].observers)
    BY <1>0, <1>4 DEF ListInv
  <2>2. QED BY <1>0, <1>1, <1>4, <2>1 DEF ListInv
<1>11. OwnersInv'
  BY <1>0, <1>1, <1>3, MessagesAssumption DEF OwnersInv
<1>12. VersionInv'
  BY <1>0, <1>1, <1>4 DEF VersionInv
<1>13. StackInv'
  <2>1. /\ msg[m].version \in Int /\ msg[m].current \in Int
        /\ among => msg[m].observers # << >>
    BY <1>0, <1>2, MessageFacts, EmptyFacts
  <2>2. among => 1 <= msg[m].version
    BY <1>0, <1>2, <2>1 DEF VersionInv
  <2>3. CASE stack' = << >>
    BY <1>1, <1>8, <2>3 DEF StackInv
  <2>4. CASE among /\ newer /\ DOMAIN stack' = {1} /\ stack'[1].msg = m
    BY <1>1, <1>2, <1>4, <1>8, <2>1, <2>2, <2>4 DEF StackInv
  <2>5. QED BY <1>7, <2>3, <2>4
<1>14. LogInv'
  <2>1. \A p \in Owners : log[p] \in Seq(Messages \X Int)
    BY <1>0 DEF Shapes
  <2>2. \A p \in Owners : \A i \in DOMAIN log[p] : log[p][i][1] \in Messages
    BY <2>1
  <2>3. QED BY <1>0, <1>1, <1>4, <2>2 DEF LogInv
<1>15. \A k \in Messages, p \in Owners :
          Told(p, k) => Told(p, k)' \/ (k = m /\ p = waker)
  BY <1>1, <1>2 DEF Told
<1>16. ActiveInv'
  <2>1. among => waker \in msg'[m].active
    BY <1>4
  <2>2. QED BY <1>0, <1>1, <1>4, <1>6, <1>15, <2>1 DEF ActiveInv
<1>17. PendingInv'
  <2>1. SUFFICES ASSUME NEW p \in Owners, NEW k \in ToSet(results), life[p] = "started",
                        Waits(msg[k], p), p \notin msg[k].eaten
        PROVE  Asked(p, k)' \/ Told(p, k)'
    BY <1>1, <1>4, <1>5, <1>6 DEF PendingInv
  <2>2. ~ Asked(p, k)
    BY <1>1 DEF Asked
  <2>3. Told(p, k)
    BY <1>0, <2>1, <2>2 DEF PendingInv
  <2>4. CASE k = m /\ p = waker
    <3>1. among
      BY <2>1, <2>4 DEF Waits
    <3>2. msg[m].version # msg[m].current
      BY <1>0, <1>2, <2>1, <2>4 DEF EatenInv
    <3>3. newer
      BY <1>0, <1>2, <3>2, MessageFacts DEF VersionInv
    <3>4. stack' = Dispatch(m, {waker})
      BY <1>1, <3>1, <3>3
    <3>5. stack' # << >>
      BY <1>1, <3>4 DEF Dispatch
    <3>6. QED BY <1>7, <2>4, <3>5 DEF Asked
  <2>5. QED BY <1>6, <1>15, <2>3, <2>4
<1>18. EatenInv'
  BY <1>0, <1>4, <1>5 DEF EatenInv
<1>19. QED BY <1>9, <1>10, <1>11, <1>12, <1>13, <1>14, <1>16, <1>17, <1>18 DEF SafetyInv, OnceInv

(* An order of the observers of the dispatcher.                            *)
LEMMA OrderFacts ==
  ASSUME NEW S, S \subseteq Owners, NEW order \in SetToSeqs(S)
  PROVE  order \in Seq(Owners) /\ ToSet(order) = S /\ IsInjective(order)
<1> DEFINE c == Cardinality(S)
<1>1. IsFiniteSet(S) /\ c \in Nat
  BY MessagesAssumption, FS_Subset, FS_CardinalityType
<1>2. /\ order \in [1 .. c -> S]
      /\ \A i, j \in 1 .. c : i # j => order[i] # order[j]
  BY Zenon DEF SetToSeqs
<1> HIDE DEF c
<1>3. order \in Seq(Owners) /\ DOMAIN order = 1 .. c
  BY <1>1, <1>2
<1>4. IsInjective(order)
  BY <1>2, <1>3 DEF IsInjective
<1>5. order \in Injection(1 .. c, S)
  BY <1>2, <1>4 DEF Injection
<1>6. IsFiniteSet(1 .. c) /\ Cardinality(1 .. c) = c
  BY <1>1, FS_Interval
<1>7. order \in Surjection(1 .. c, S)
  BY <1>1, <1>5, <1>6, FS_Injection DEF c
<1>8. ToSet(order) = S
  BY <1>2, <1>3, <1>7 DEF ToSet, Surjection
<1>9. QED BY <1>3, <1>4, <1>8

LEMMA OutputSafe == ASSUME NEW o \in Owners PROVE SafetyInv /\ Output(o) => SafetyInv'
<1> SUFFICES ASSUME SafetyInv, Output(o) PROVE SafetyInv'
  OBVIOUS
<1>0. /\ Shapes /\ ListInv /\ OwnersInv /\ VersionInv /\ StackInv /\ LogInv
      /\ ActiveInv /\ PendingInv /\ EatenInv
  BY SafetyParts
<1>1. PICK s \in {"created", "started"} :
       /\ life' = [life EXCEPT ![o] = s]
       /\ msg' = [m \in Messages |->
            IF m \in ToSet(results)
            THEN Observed(msg[m], <<o>>, {p \in {o} : s = "started"}) ELSE msg[m]]
  BY DEF Output
<1>2. /\ observing' = observing \cup {o} /\ results' = results
      /\ waker' = waker /\ waking' = waking
      /\ stack' = stack /\ invalid' = invalid /\ log' = log /\ sends' = sends
      /\ stack = << >> /\ waker = Nobody /\ life[o] = "none"
  BY DEF Output, Idle
<1>3. PICK q \in Seq(Owners) : q = <<o>> /\ ToSet(q) = {o} /\ IsInjective(q) /\ q # << >>
  <2>1. <<o>> \in Seq(Owners) /\ DOMAIN <<o>> = {1} /\ <<o>>[1] = o /\ <<o>> # << >>
    OBVIOUS
  <2>2. PICK q : q = <<o>>
    OBVIOUS
  <2>3. ToSet(q) = {o} /\ IsInjective(q)
    BY <2>1, <2>2 DEF ToSet, IsInjective
  <2>4. QED BY <2>1, <2>2, <2>3
<1> DEFINE awake == {p \in {o} : s = "started"}
<1>4. \A m \in Messages :
        /\ m \in ToSet(results) => msg'[m] = Observed(msg[m], q, awake)
        /\ m \notin ToSet(results) => msg'[m] = msg[m]
  BY <1>1, <1>3
<1>5. awake \subseteq {o} /\ (s = "started" => awake = {o})
  OBVIOUS
<1> HIDE DEF awake
<1>6. o \notin observing /\ log[o] = << >>
  BY <1>0, <1>2 DEF OwnersInv
<1>7. ToSet(results) \subseteq Messages
  BY <1>0, ToSetFacts DEF Shapes
<1>8. ASSUME NEW m \in ToSet(results)
      PROVE  /\ msg'[m] \in OneTimeMessage
             /\ msg'[m].version = msg[m].version /\ msg'[m].current = msg[m].version
             /\ ToSet(msg'[m].observers) = ToSet(msg[m].observers) \cup {o}
             /\ IsInjective(msg'[m].observers)
             /\ msg'[m].active = msg[m].active \cup awake
             /\ msg'[m].last[o] = -1 /\ msg'[m].joined[o] = msg[m].version
             /\ \A p \in Owners : p # o =>
                  msg'[m].last[p] = msg[m].last[p] /\ msg'[m].joined[p] = msg[m].joined[p]
             /\ msg'[m].eaten = msg[m].eaten \cup {p \in Owners : Waits(msg[m], p)}
  <2> DEFINE t == Observed(msg[m], q, awake)
  <2>0. q # << >> /\ ToSet(q) = {o} /\ IsInjective(q)
    BY <1>3
  <2>1. m \in Messages /\ msg[m] \in OneTimeMessage /\ msg[m].observers \in Seq(Owners)
    BY <1>0, <1>7, MessageFacts
  <2>2. /\ t \in OneTimeMessage
        /\ t.version = msg[m].version /\ t.current = msg[m].version
        /\ t.observers = msg[m].observers \o q
        /\ t.active = msg[m].active \cup (ToSet(q) \cap awake)
        /\ \A p \in Owners : p \in ToSet(q) => t.last[p] = -1 /\ t.joined[p] = msg[m].version
        /\ \A p \in Owners : p \notin ToSet(q) =>
             t.last[p] = msg[m].last[p] /\ t.joined[p] = msg[m].joined[p]
        /\ t.eaten = msg[m].eaten \cup {p \in Owners : Waits(msg[m], p)}
    <3>1. q # << >> /\ q \in Seq(Owners) /\ msg[m] \in OneTimeMessage
      BY <2>0, <2>1
    <3>2. QED BY ONLY <3>1, ObservedFacts
  <2> HIDE DEF t
  <2>3. IsInjective(msg[m].observers) /\ ToSet(msg[m].observers) \cap ToSet(q) = {}
    BY <1>0, <1>3, <1>6, <2>1 DEF ListInv
  <2>4. ToSet(t.observers) = ToSet(msg[m].observers) \cup {o} /\ IsInjective(t.observers)
    BY <2>0, <2>1, <2>2, <2>3, JoinFacts
  <2>5. msg'[m] = t
    BY <1>4, <2>1 DEF t
  <2>6. t.active = msg[m].active \cup awake
    BY <1>3, <1>5, <2>2
  <2>7. QED BY <1>3, <2>2, <2>4, <2>5, <2>6
<1>9. msg' \in [Messages -> OneTimeMessage]
  <2>1. msg' = [m \in Messages |-> msg'[m]]
    BY <1>1
  <2>2. \A m \in Messages : msg'[m] \in OneTimeMessage
    BY <1>0, <1>4, <1>8, MessageFacts
  <2>3. QED BY <2>1, <2>2
<1>10. life' \in [Owners -> {"none", "created", "started", "destroyed"}] /\ life'[o] = s
  BY <1>0, <1>1 DEF Shapes
<1>11. \A p \in Owners : p # o => life'[p] = life[p]
  BY <1>0, <1>1 DEF Shapes
<1>12. Shapes'
  <2>1. observing' \in SUBSET Owners
    BY <1>0, <1>2 DEF Shapes
  <2>2. QED BY <1>0, <1>2, <1>9, <1>10, <2>1 DEF Shapes
<1>13. ListInv'
  <2>1. SUFFICES ASSUME NEW m \in Messages
        PROVE  /\ IsInjective(msg'[m].observers) /\ ToSet(msg'[m].observers) \subseteq observing'
               /\ msg'[m].active \subseteq ToSet(msg'[m].observers)
    BY <1>0, <1>2 DEF ListInv
  <2>2. /\ IsInjective(msg[m].observers) /\ ToSet(msg[m].observers) \subseteq observing
        /\ msg[m].active \subseteq ToSet(msg[m].observers)
    BY <1>0 DEF ListInv
  <2>3. CASE m \in ToSet(results)
    BY <1>2, <1>5, <1>8, <2>2, <2>3
  <2>4. CASE m \notin ToSet(results)
    BY <1>2, <1>4, <2>2, <2>4
  <2>5. QED BY <2>3, <2>4
<1>14. OwnersInv'
  BY <1>0, <1>1, <1>2, <1>10, <1>11 DEF OwnersInv
<1>15. VersionInv'
  <2>1. SUFFICES ASSUME NEW m \in Messages
        PROVE  /\ 0 <= msg'[m].version /\ msg'[m].version <= sends
               /\ -1 <= msg'[m].current /\ msg'[m].current <= msg'[m].version
               /\ \A p \in Owners :
                    /\ -1 <= msg'[m].joined[p] /\ msg'[m].joined[p] <= msg'[m].current
                    /\ -1 <= msg'[m].last[p] /\ msg'[m].last[p] <= msg'[m].version
               /\ msg'[m].version = 0 => msg'[m].observers = << >>
               /\ m \in ToSet(results) => 1 <= msg'[m].version
    BY <1>2 DEF VersionInv
  <2>2. CASE m \in ToSet(results)
    <3>1. /\ msg[m].version \in Int /\ msg[m].current \in Int /\ sends \in Int
          /\ \A p \in Owners : msg[m].last[p] \in Int /\ msg[m].joined[p] \in Int
      BY <1>0, MessageFacts DEF Shapes
    <3>2. /\ 1 <= msg[m].version /\ msg[m].version <= sends
          /\ -1 <= msg[m].current /\ msg[m].current <= msg[m].version
          /\ \A p \in Owners :
               /\ -1 <= msg[m].joined[p] /\ msg[m].joined[p] <= msg[m].current
               /\ -1 <= msg[m].last[p] /\ msg[m].last[p] <= msg[m].version
      BY <1>0, <2>2 DEF VersionInv
    <3>3. ASSUME NEW p \in Owners
          PROVE  /\ -1 <= msg'[m].joined[p] /\ msg'[m].joined[p] <= msg[m].version
                 /\ -1 <= msg'[m].last[p] /\ msg'[m].last[p] <= msg[m].version
      BY <1>8, <2>2, <3>1, <3>2
    <3>4. QED BY <1>8, <2>2, <3>1, <3>2, <3>3
  <2>3. CASE m \notin ToSet(results)
    BY <1>0, <1>4, <2>3 DEF VersionInv
  <2>4. QED BY <2>2, <2>3
<1>16. StackInv'
  <2>1. invalid = {}
    BY <1>0, <1>2 DEF StackInv
  <2>2. QED BY <1>2, <2>1 DEF StackInv
<1>17. LogInv'
  <2>1. \A p \in Owners : log[p] \in Seq(Messages \X Int)
    BY <1>0 DEF Shapes
  <2>2. \A p \in Owners : \A i \in DOMAIN log[p] : log[p][i][1] \in Messages /\ p # o
    BY <1>6, <2>1
  <2>3. \A m \in Messages, p \in Owners : p # o =>
          msg'[m].last[p] = msg[m].last[p] /\ msg'[m].joined[p] = msg[m].joined[p]
    BY <1>4, <1>8
  <2>4. QED BY <1>0, <1>2, <2>2, <2>3 DEF LogInv
<1>18. ActiveInv'
  <2>1. SUFFICES ASSUME NEW p \in Owners, NEW m \in ToSet(results), life'[p] = "started",
                        p \in ToSet(msg'[m].observers)
        PROVE  p \in msg'[m].active \/ Told(p, m)'
    BY <1>2 DEF ActiveInv
  <2>2. CASE p = o
    BY <1>5, <1>8, <1>10, <2>1, <2>2
  <2>3. CASE p # o
    <3>1. p \in msg[m].active \/ Told(p, m)
      BY <1>0, <1>8, <1>11, <2>1, <2>3 DEF ActiveInv
    <3>2. QED BY <1>2, <1>8, <3>1 DEF Told
  <2>4. QED BY <2>2, <2>3
<1>19. \A m \in ToSet(results), p \in Owners : Waits(msg'[m], p) => p \in msg'[m].eaten
  <2>1. SUFFICES ASSUME NEW m \in ToSet(results), NEW p \in Owners, Waits(msg'[m], p)
        PROVE  p \in msg'[m].eaten
    OBVIOUS
  <2>2. /\ p \in ToSet(msg'[m].observers) /\ msg'[m].version > msg'[m].joined[p]
        /\ msg'[m].version > msg'[m].last[p]
    BY <2>1 DEF Waits
  <2>3. msg[m].version \in Int
    BY <1>0, <1>7, MessageFacts
  <2>4. p # o
    BY <1>8, <2>2, <2>3
  <2>5. Waits(msg[m], p)
    BY <1>8, <2>2, <2>4 DEF Waits
  <2>6. QED BY <1>8, <2>5
<1>20. PendingInv'
  BY <1>2, <1>19 DEF PendingInv
<1>21. EatenInv'
  BY <1>0, <1>4, <1>19 DEF EatenInv
<1>22. QED BY <1>12, <1>13, <1>14, <1>15, <1>16, <1>17, <1>18, <1>20, <1>21 DEF SafetyInv, OnceInv

LEMMA SendResultSafe == ASSUME NEW m \in Messages PROVE SafetyInv /\ SendResult(m) => SafetyInv'
<1> SUFFICES ASSUME SafetyInv, SendResult(m) PROVE SafetyInv'
  OBVIOUS
<1>0. /\ Shapes /\ ListInv /\ OwnersInv /\ VersionInv /\ StackInv /\ LogInv
      /\ ActiveInv /\ PendingInv /\ EatenInv
  BY SafetyParts
<1> DEFINE new == m \notin ToSet(results)
           awake == {o \in observing \ {waker} : life[o] = "started"}
           full == Len(results) = QueueLength
           evicted == IF new /\ full THEN {Head(results)} ELSE {}
           set(r) == [r EXCEPT !.version = @ + 1, !.eaten = {}]
<1>1. /\ sends < MaxSends /\ sends' = sends + 1
      /\ new => msg[m].version = 0
      /\ results' = IF new THEN Append(IF full THEN Tail(results) ELSE results, m)
                           ELSE results
      /\ waking' = IF new /\ waker \in observing THEN Append(waking, m) ELSE waking
      /\ IF Busy(m) THEN invalid' = invalid \cup {m} /\ stack' = stack
                    ELSE stack' = Dispatch(m, Owners) /\ invalid' = invalid
      /\ life' = life /\ observing' = observing /\ waker' = waker /\ log' = log
  BY DEF SendResult
<1>2. PICK order \in SetToSeqs(observing) :
             msg' = [k \in Messages |->
               IF k = m THEN set(IF new THEN Observed(msg[m], order, awake) ELSE msg[m])
               ELSE IF k \in evicted THEN Removed(msg[k], observing) ELSE msg[k]]
  BY DEF SendResult
<1>3. observing \subseteq Owners /\ sends \in Nat /\ MaxSends \in Nat
  BY <1>0, MessagesAssumption DEF Shapes
<1>4. order \in Seq(Owners) /\ ToSet(order) = observing /\ IsInjective(order)
  BY <1>3, OrderFacts
<1>5. awake \subseteq observing
        /\ \A o \in observing : life[o] = "started" => o \in awake \/ o = waker
  OBVIOUS
<1> HIDE DEF awake
<1>6. ToSet(results) \subseteq Messages /\ results \in Seq(Messages) /\ IsInjective(results)
        /\ Len(results) <= QueueLength /\ QueueLength \in Nat \ {0}
  BY <1>0, ToSetFacts, MessagesAssumption DEF Shapes, ListInv
<1>7. /\ results' \in Seq(Messages) /\ IsInjective(results') /\ Len(results') <= QueueLength
      /\ ToSet(results') = (ToSet(results) \ evicted) \cup {m}
      /\ evicted \subseteq ToSet(results) /\ m \notin evicted
  <2>1. CASE ~ new
    BY <1>1, <1>6, <2>1
  <2>2. CASE new /\ ~ full
    <3>1. results' = Append(results, m) /\ evicted = {}
      BY <1>1, <2>2
    <3>2. Len(results) + 1 <= QueueLength
      BY <1>6, <2>2
    <3>3. QED BY <1>6, <2>2, <3>1, <3>2, AppendFacts
  <2>3. CASE new /\ full
    <3>1. results # << >>
      BY <1>6, <2>3
    <3>2. PICK t : t = Tail(results)
      OBVIOUS
    <3>3. /\ t \in Seq(Messages) /\ Len(t) = Len(results) - 1 /\ IsInjective(t)
          /\ ToSet(results) = {Head(results)} \cup ToSet(t) /\ Head(results) \notin ToSet(t)
      BY <1>6, <3>1, <3>2, TailFacts
    <3>4. m \notin ToSet(t) /\ m # Head(results)
      BY <2>3, <3>3
    <3>5. results' = Append(t, m) /\ evicted = {Head(results)}
      BY <1>1, <2>3, <3>2
    <3>6. /\ Append(t, m) \in Seq(Messages) /\ Len(Append(t, m)) = Len(t) + 1
          /\ ToSet(Append(t, m)) = ToSet(t) \cup {m} /\ IsInjective(Append(t, m))
      BY <3>3, <3>4, AppendFacts
    <3>7. Len(t) + 1 <= QueueLength
      BY <1>6, <2>3, <3>3
    <3>8. QED BY <3>3, <3>4, <3>5, <3>6, <3>7
  <2>4. QED BY <2>1, <2>2, <2>3
<1> DEFINE base == IF new THEN Observed(msg[m], order, awake) ELSE msg[m]
           q == msg'[m]
<1>8. /\ msg[m] \in OneTimeMessage /\ msg[m].version \in Int /\ msg[m].current \in Int
      /\ \A o \in Owners : msg[m].last[o] \in Int /\ msg[m].joined[o] \in Int
      /\ msg[m].observers \in Seq(Owners)
  BY <1>0, MessageFacts
<1>9. /\ 0 <= msg[m].version /\ msg[m].version <= sends
      /\ -1 <= msg[m].current /\ msg[m].current <= msg[m].version
      /\ \A o \in Owners :
           /\ -1 <= msg[m].joined[o] /\ msg[m].joined[o] <= msg[m].current
           /\ -1 <= msg[m].last[o] /\ msg[m].last[o] <= msg[m].version
      /\ msg[m].version = 0 => msg[m].observers = << >>
  BY <1>0 DEF VersionInv
<1>10. /\ base \in OneTimeMessage /\ base.version = msg[m].version
       /\ -1 <= base.current /\ base.current <= msg[m].version
       /\ \A o \in Owners :
            /\ -1 <= base.joined[o] /\ base.joined[o] <= base.current
            /\ -1 <= base.last[o] /\ base.last[o] <= msg[m].version
       /\ ToSet(base.observers) = IF new THEN observing ELSE ToSet(msg[m].observers)
       /\ IsInjective(base.observers)
       /\ base.active \subseteq ToSet(base.observers)
       /\ new => base.active = awake
       /\ ~ new => base = msg[m]
  <2>1. CASE ~ new
    BY <1>0, <1>8, <1>9, <2>1 DEF ListInv
  <2>2. CASE new
    <3>1. msg[m].observers = << >> /\ msg[m].active = {} /\ msg[m].version = 0
      BY <1>0, <1>1, <1>9, <2>2, EmptyFacts DEF ListInv
    <3> DEFINE t == Observed(msg[m], order, awake)
    <3>2. base = t
      BY <2>2
    <3>3. CASE order = << >>
      <4>1. t = msg[m]
        BY <3>3 DEF Observed
      <4>2. observing = {} /\ awake = {}
        BY <1>4, <1>5, <3>3, EmptyFacts
      <4>3. QED BY <1>8, <1>9, <2>2, <3>1, <3>2, <4>1, <4>2, EmptyFacts
    <3>4. CASE order # << >>
      <4>1. /\ t \in OneTimeMessage
            /\ t.version = msg[m].version /\ t.current = msg[m].version
            /\ t.observers = msg[m].observers \o order
            /\ t.active = msg[m].active \cup (ToSet(order) \cap awake)
            /\ \A o \in Owners : o \in ToSet(order) => t.last[o] = -1 /\ t.joined[o] = msg[m].version
            /\ \A o \in Owners : o \notin ToSet(order) =>
                 t.last[o] = msg[m].last[o] /\ t.joined[o] = msg[m].joined[o]
        <5>1. order # << >> /\ order \in Seq(Owners) /\ msg[m] \in OneTimeMessage
          BY <1>4, <1>8, <3>4
        <5>2. PICK c \in OneTimeMessage : c = msg[m]
          BY <5>1
        <5>3. PICK s \in Seq(Owners) : s = order /\ s # << >>
          BY <5>1
        <5>4. LET u == Observed(c, s, awake) IN
              /\ u \in OneTimeMessage
              /\ u.version = c.version /\ u.current = c.version
              /\ u.observers = c.observers \o s
              /\ u.active = c.active \cup (ToSet(s) \cap awake)
              /\ \A o \in Owners : o \in ToSet(s) => u.last[o] = -1 /\ u.joined[o] = c.version
              /\ \A o \in Owners : o \notin ToSet(s) =>
                   u.last[o] = c.last[o] /\ u.joined[o] = c.joined[o]
          BY ONLY <5>3, ObservedFacts
        <5>5. QED BY <5>2, <5>3, <5>4
      <4> HIDE DEF t
      <4>2. t.observers = order
        BY <1>4, <3>1, <4>1
      <4>3. t.active = awake
        BY <1>4, <1>5, <3>1, <4>1
      <4>4. ASSUME NEW o \in Owners
            PROVE  /\ -1 <= t.joined[o] /\ t.joined[o] <= t.current
                   /\ -1 <= t.last[o] /\ t.last[o] <= msg[m].version
        <5>1. CASE o \in ToSet(order)
          BY <1>8, <1>9, <4>1, <5>1
        <5>2. CASE o \notin ToSet(order)
          BY <1>8, <1>9, <4>1, <5>2
        <5>3. QED BY <5>1, <5>2
      <4>5. -1 <= t.current /\ t.current <= msg[m].version
        BY <1>8, <1>9, <4>1
      <4> HIDE DEF base
      <4>6. QED BY <1>4, <1>5, <2>2, <3>2, <4>1, <4>2, <4>3, <4>4, <4>5
    <3>5. QED BY <3>3, <3>4
  <2>3. QED BY <2>1, <2>2
<1>11. q = set(base) /\ \A k \in Messages : k # m => msg'[k] = IF k \in evicted THEN Removed(msg[k], observing) ELSE msg[k]
  BY <1>2
<1> HIDE DEF base
<1>12. /\ q \in OneTimeMessage /\ q.version = msg[m].version + 1 /\ q.eaten = {}
       /\ q.current = base.current /\ q.observers = base.observers /\ q.active = base.active
       /\ q.last = base.last /\ q.joined = base.joined
  <2>1. base \in OneTimeMessage /\ base.version = msg[m].version /\ base.version + 1 \in Int
    BY <1>8, <1>10
  <2> DEFINE t == set(base)
  <2>2. /\ t \in OneTimeMessage /\ t.version = base.version + 1 /\ t.eaten = {}
        /\ t.current = base.current /\ t.observers = base.observers /\ t.active = base.active
        /\ t.last = base.last /\ t.joined = base.joined
    BY <2>1 DEF OneTimeMessage
  <2>3. q = t
    BY <1>11
  <2> HIDE DEF t, q
  <2>4. QED BY <2>1, <2>2, <2>3
<1> HIDE DEF q, set
<1>13. ASSUME NEW k \in Messages, k # m
       PROVE  /\ msg'[k] \in OneTimeMessage
              /\ msg'[k].version = msg[k].version /\ msg'[k].current = msg[k].current
              /\ msg'[k].last = msg[k].last /\ msg'[k].joined = msg[k].joined
              /\ msg'[k].eaten = msg[k].eaten
              /\ ToSet(msg'[k].observers) \subseteq ToSet(msg[k].observers)
              /\ IsInjective(msg'[k].observers)
              /\ msg[k].observers = << >> => msg'[k].observers = << >>
              /\ msg'[k].active \subseteq ToSet(msg'[k].observers)
              /\ k \notin evicted => msg'[k] = msg[k]
  <2>1. msg[k] \in OneTimeMessage /\ IsInjective(msg[k].observers)
          /\ msg[k].active \subseteq ToSet(msg[k].observers)
    BY <1>0, MessageFacts DEF ListInv
  <2>2. CASE k \notin evicted
    BY <1>11, <1>13, <2>1, <2>2
  <2>3. CASE k \in evicted
    <3>1. msg'[k] = Removed(msg[k], observing)
      BY <1>11, <1>13, <2>3
    <3> DEFINE t == Removed(msg[k], observing)
    <3>2. /\ t \in OneTimeMessage
          /\ t.version = msg[k].version /\ t.current = msg[k].current
          /\ t.last = msg[k].last /\ t.joined = msg[k].joined
          /\ t.eaten = msg[k].eaten
          /\ ToSet(t.observers) = ToSet(msg[k].observers) \ observing
          /\ IsInjective(msg[k].observers) => IsInjective(t.observers)
          /\ msg[k].observers = << >> => t.observers = << >>
          /\ t.active = msg[k].active \ observing
      BY <2>1, RemovedFacts
    <3>3. msg'[k] = t
      BY <3>1
    <3> HIDE DEF t
    <3>4. QED BY <2>1, <2>3, <3>2, <3>3
  <2>4. QED BY <2>2, <2>3
<1>14. msg' \in [Messages -> OneTimeMessage]
  <2>1. msg' = [k \in Messages |-> msg'[k]]
    BY <1>2
  <2>2. \A k \in Messages : msg'[k] \in OneTimeMessage
    BY <1>12, <1>13 DEF q
  <2>3. QED BY <2>1, <2>2
<1> HIDE DEF evicted
<1>15. /\ waking' \in Seq(Messages) /\ ToSet(waking) \subseteq ToSet(waking')
       /\ new /\ waker \in observing => m \in ToSet(waking')
       /\ waker = Nobody => waking' = waking
  <2>1. waking \in Seq(Messages)
    BY <1>0 DEF Shapes
  <2>2. Append(waking, m) \in Seq(Messages) /\ ToSet(Append(waking, m)) = ToSet(waking) \cup {m}
    BY <2>1, AppendFacts
  <2>3. waker = Nobody => waker \notin observing
    BY <1>3, MessagesAssumption
  <2>4. QED BY <1>1, <2>1, <2>2, <2>3
<1> HIDE DEF new, full
<1> DEFINE n == Len(stack)
<1>16. DOMAIN stack = 1 .. n /\ n \in Nat /\ \A i \in DOMAIN stack : stack[i].msg \in Messages
  BY <1>0, StackFacts
<1>17. /\ stack' \in Seq(Dispatching)
       /\ \A i \in DOMAIN stack : i \in DOMAIN stack' /\ stack'[i] = stack[i]
       /\ \/ /\ DOMAIN stack' = DOMAIN stack /\ invalid' = invalid \cup {m}
             /\ \E i \in DOMAIN stack : stack[i].msg = m
          \/ /\ DOMAIN stack' = 1 .. n + 1 /\ invalid' = invalid
             /\ stack'[n + 1].msg = m /\ stack'[n + 1].left = Owners
             /\ \A i \in DOMAIN stack : stack[i].msg # m
  <2>1. CASE Busy(m)
    BY <1>0, <1>1, <2>1 DEF Busy, Shapes
  <2>2. CASE ~ Busy(m)
    <3> DEFINE d == [msg |-> m, left |-> Owners, called |-> Nobody]
    <3>1. d \in Dispatching /\ d.msg = m /\ d.left = Owners
      BY DEF Dispatching
    <3>2. stack' = Append(stack, d)
      BY <1>1, <2>2 DEF Dispatch
    <3>3. stack \in Seq(Dispatching)
      BY <1>0 DEF Shapes
    <3> HIDE DEF d
    <3>4. /\ stack' \in Seq(Dispatching) /\ DOMAIN stack' = 1 .. n + 1 /\ stack'[n + 1] = d
          /\ \A i \in 1 .. n : stack'[i] = stack[i]
      BY <3>1, <3>2, <3>3
    <3>5. \A i \in 1 .. n : i \in 1 .. n + 1
      BY <1>16
    <3>6. invalid' = invalid /\ \A i \in DOMAIN stack : stack[i].msg # m
      BY <1>1, <2>2 DEF Busy
    <3>7. QED BY <1>16, <3>1, <3>4, <3>5, <3>6
  <2>3. QED BY <2>1, <2>2
<1>18. Shapes'
  <2>1. invalid' \in SUBSET Messages
    BY <1>0, <1>17 DEF Shapes
  <2>2. sends' \in 0 .. MaxSends
    BY <1>1, <1>3
  <2>3. QED BY <1>0, <1>1, <1>7, <1>14, <1>15, <1>17, <2>1, <2>2 DEF Shapes
<1>19. ListInv'
  <2>1. SUFFICES ASSUME NEW k \in Messages
        PROVE  /\ IsInjective(msg'[k].observers) /\ ToSet(msg'[k].observers) \subseteq observing
               /\ msg'[k].active \subseteq ToSet(msg'[k].observers)
    BY <1>1, <1>7 DEF ListInv
  <2>2. ToSet(msg[k].observers) \subseteq observing
    BY <1>0 DEF ListInv
  <2>3. CASE k = m
    BY <1>10, <1>12, <2>2, <2>3 DEF q
  <2>4. CASE k # m
    BY <1>13, <2>2, <2>4
  <2>5. QED BY <2>3, <2>4
<1>20. OwnersInv'
  BY <1>0, <1>1, <1>15 DEF OwnersInv
<1>21. VersionInv'
  <2>1. ASSUME NEW k \in Messages
        PROVE  /\ 0 <= msg'[k].version /\ msg'[k].version <= sends + 1
               /\ -1 <= msg'[k].current /\ msg'[k].current <= msg'[k].version
               /\ \A o \in Owners :
                    /\ -1 <= msg'[k].joined[o] /\ msg'[k].joined[o] <= msg'[k].current
                    /\ -1 <= msg'[k].last[o] /\ msg'[k].last[o] <= msg'[k].version
               /\ msg'[k].version = 0 => msg'[k].observers = << >>
               /\ k \in ToSet(results') => 1 <= msg'[k].version
    <3>1. CASE k = m
      <4>1. /\ q.version \in Int /\ q.current \in Int /\ base.current \in Int
            /\ \A o \in Owners : q.last[o] \in Int
        BY <1>10, <1>12 DEF OneTimeMessage
      <4>2. /\ 1 <= q.version /\ q.version <= sends + 1
            /\ -1 <= q.current /\ q.current <= q.version
        BY <1>3, <1>8, <1>9, <1>10, <1>12, <4>1
      <4>3. ASSUME NEW o \in Owners
            PROVE  /\ -1 <= q.joined[o] /\ q.joined[o] <= q.current
                   /\ -1 <= q.last[o] /\ q.last[o] <= q.version
        BY <1>8, <1>10, <1>12, <4>1
      <4>4. QED BY <3>1, <4>1, <4>2, <4>3 DEF q
    <3>2. CASE k # m
      <4>1. /\ 0 <= msg[k].version /\ msg[k].version <= sends
            /\ -1 <= msg[k].current /\ msg[k].current <= msg[k].version
            /\ \A o \in Owners :
                 /\ -1 <= msg[k].joined[o] /\ msg[k].joined[o] <= msg[k].current
                 /\ -1 <= msg[k].last[o] /\ msg[k].last[o] <= msg[k].version
            /\ msg[k].version = 0 => msg[k].observers = << >>
            /\ k \in ToSet(results) => 1 <= msg[k].version
        BY <1>0 DEF VersionInv
      <4>2. msg[k].version \in Int
        BY <1>0, MessageFacts
      <4>3. msg[k].version <= sends + 1
        BY <1>3, <4>1, <4>2
      <4>4. k \in ToSet(results') => k \in ToSet(results)
        BY <1>7, <3>2
      <4>5. QED BY <1>13, <3>2, <4>1, <4>3, <4>4
    <3>3. QED BY <3>1, <3>2
  <2>2. QED BY <1>1, <2>1 DEF VersionInv
<1>22. StackInv'
  <2>1. /\ \A i, j \in DOMAIN stack : stack[i].msg = stack[j].msg => i = j
        /\ \A i \in DOMAIN stack :
             1 <= msg[stack[i].msg].version /\ msg[stack[i].msg].current < msg[stack[i].msg].version
        /\ \A k \in invalid : \E i \in DOMAIN stack : stack[i].msg = k
    BY <1>0 DEF StackInv
  <2>2. \A i, j \in DOMAIN stack' : stack'[i].msg = stack'[j].msg => i = j
    <3>1. CASE DOMAIN stack' = DOMAIN stack
      BY <1>17, <2>1, <3>1
    <3>2. CASE DOMAIN stack' = 1 .. n + 1 /\ stack'[n + 1].msg = m /\ \A i \in DOMAIN stack : stack[i].msg # m
      <4>1. \A i \in DOMAIN stack' : i = n + 1 \/ i \in DOMAIN stack
        BY <1>16, <3>2
      <4>2. QED BY <1>17, <2>1, <3>2, <4>1
    <3>3. QED BY <1>17, <3>1, <3>2
  <2>3. 1 <= msg'[m].version /\ msg'[m].current < msg'[m].version
    <3>1. base.current \in Int
      BY <1>10 DEF OneTimeMessage
    <3>2. QED BY <1>8, <1>9, <1>10, <1>12, <3>1 DEF q
  <2>4. \A i \in DOMAIN stack' : stack'[i].msg = m \/ (i \in DOMAIN stack /\ stack'[i].msg = stack[i].msg)
    BY <1>16, <1>17
  <2>5. ASSUME NEW i \in DOMAIN stack'
        PROVE  1 <= msg'[stack'[i].msg].version
                 /\ msg'[stack'[i].msg].current < msg'[stack'[i].msg].version
    BY <1>13, <1>16, <2>1, <2>3, <2>4
  <2>6. \A k \in invalid' : \E i \in DOMAIN stack' : stack'[i].msg = k
    BY <1>17, <2>1
  <2>7. QED BY <2>2, <2>5, <2>6 DEF StackInv
<1>23. LogInv'
  <2>1. \A p \in Owners : log[p] \in Seq(Messages \X Int)
    BY <1>0 DEF Shapes
  <2>2. \A p \in Owners : \A i \in DOMAIN log[p] : log[p][i][1] \in Messages /\ log[p][i][2] \in Int
    BY <2>1
  <2>3. ASSUME NEW p \in Owners, NEW i \in DOMAIN log[p], log[p][i][1] = m PROVE ~ new
    <3>1. 1 <= log[p][i][2] /\ log[p][i][2] <= msg[m].last[p]
      BY <1>0, <2>3 DEF LogInv
    <3>2. msg[m].version # 0
      BY <1>8, <1>9, <2>2, <3>1
    <3>3. QED BY <1>1, <3>2 DEF new
  <2>4. ~ new => q.last = msg[m].last /\ q.joined = msg[m].joined
    BY <1>10, <1>12
  <2>5. ASSUME NEW p \in Owners, NEW i \in DOMAIN log[p]
        PROVE  /\ msg'[log[p][i][1]].last = msg[log[p][i][1]].last
               /\ msg'[log[p][i][1]].joined = msg[log[p][i][1]].joined
    BY <1>13, <2>2, <2>3, <2>4 DEF q
  <2>6. QED BY <1>0, <1>1, <2>5 DEF LogInv
<1>24. \A p \in Owners : \A k : Told(p, k) => Told(p, k)'
  BY <1>1, <1>15 DEF Told
<1>25. ActiveInv'
  <2>1. SUFFICES ASSUME NEW p \in Owners, NEW k \in ToSet(results'), life[p] = "started",
                        p \in ToSet(msg'[k].observers)
        PROVE  p \in msg'[k].active \/ Told(p, k)'
    BY <1>1 DEF ActiveInv
  <2>2. CASE k = m /\ new
    <3>1. p \in observing
      BY <1>10, <1>12, <2>1, <2>2 DEF q
    <3>2. p \in awake \/ p = waker
      BY <1>5, <2>1, <3>1
    <3>3. CASE p \in awake
      BY <1>10, <1>12, <2>2, <3>3 DEF q
    <3>4. CASE p = waker
      BY <1>1, <1>15, <2>2, <3>1, <3>4 DEF Told
    <3>5. QED BY <3>2, <3>3, <3>4
  <2>3. CASE k = m /\ ~ new
    <3>1. msg'[k].observers = msg[m].observers /\ msg'[k].active = msg[m].active
      BY <1>10, <1>12, <2>3 DEF q
    <3>2. m \in ToSet(results)
      BY <2>3 DEF new
    <3>3. QED BY <1>0, <1>24, <2>1, <2>3, <3>1, <3>2 DEF ActiveInv
  <2>4. CASE k # m
    <3>1. k \in ToSet(results) /\ k \notin evicted /\ k \in Messages
      BY <1>6, <1>7, <2>4
    <3>2. msg'[k] = msg[k]
      BY <1>13, <2>4, <3>1
    <3>3. QED BY <1>0, <1>24, <2>1, <3>1, <3>2 DEF ActiveInv
  <2>5. QED BY <2>2, <2>3, <2>4
<1>26. PendingInv'
  <2>1. SUFFICES ASSUME NEW p \in Owners, NEW k \in ToSet(results'), life[p] = "started",
                        Waits(msg'[k], p), p \notin msg'[k].eaten
        PROVE  Asked(p, k)' \/ Told(p, k)'
    BY <1>1 DEF PendingInv
  <2>2. CASE k = m
    <3>1. CASE DOMAIN stack' = DOMAIN stack /\ invalid' = invalid \cup {m}
                 /\ \E i \in DOMAIN stack : stack[i].msg = m
      BY <1>17, <2>2, <3>1 DEF Asked
    <3>2. CASE DOMAIN stack' = 1 .. n + 1 /\ stack'[n + 1].msg = m /\ stack'[n + 1].left = Owners
      <4>1. n + 1 \in DOMAIN stack'
        BY <1>16, <3>2
      <4>2. QED BY <2>2, <3>2, <4>1 DEF Asked
    <3>3. QED BY <1>17, <3>1, <3>2
  <2>3. CASE k # m
    <3>1. k \in ToSet(results) /\ k \notin evicted /\ k \in Messages
      BY <1>6, <1>7, <2>3
    <3>2. msg'[k] = msg[k]
      BY <1>13, <2>3, <3>1
    <3>3. Asked(p, k) \/ Told(p, k)
      BY <1>0, <2>1, <3>1, <3>2 DEF PendingInv
    <3>4. Asked(p, k) => Asked(p, k)'
      BY <1>17 DEF Asked
    <3>5. QED BY <1>24, <3>3, <3>4
  <2>4. QED BY <2>2, <2>3
<1>27. EatenInv'
  <2>1. SUFFICES ASSUME NEW p \in Owners, NEW k \in Messages,
                        Waits(msg'[k], p), msg'[k].version = msg'[k].current
        PROVE  p \in msg'[k].eaten
    BY DEF EatenInv
  <2>2. CASE k = m
    <3>1. base.current \in Int
      BY <1>10 DEF OneTimeMessage
    <3>2. QED BY <1>8, <1>10, <1>12, <2>1, <2>2, <3>1 DEF q
  <2>3. CASE k # m
    <3>1. Waits(msg[k], p) /\ msg[k].version = msg[k].current
      BY <1>13, <2>1, <2>3 DEF Waits
    <3>2. QED BY <1>0, <1>13, <2>3, <3>1 DEF EatenInv
  <2>4. QED BY <2>2, <2>3
<1>28. QED BY <1>18, <1>19, <1>20, <1>21, <1>22, <1>23, <1>25, <1>26, <1>27 DEF SafetyInv, OnceInv

-----------------------------------------------------------------------------
(* The theorems.                                                           *)

LEMMA NextSafe == SafetyInv /\ [Next]_vars => SafetyInv'
<1> SUFFICES ASSUME SafetyInv, [Next]_vars PROVE SafetyInv'
  OBVIOUS
<1>1. CASE UNCHANGED vars
  BY <1>1 DEF vars, SafetyInv, OnceInv, Shapes, ListInv, OwnersInv, VersionInv, StackInv, LogInv,
       ActiveInv, PendingInv, EatenInv, Told, Asked, Waits
<1>2. CASE ConsiderNotify \/ Return \/ TurnOrEnd \/ Wake \/ Awake
  BY <1>2, ConsiderNotifySafe, ReturnSafe, TurnOrEndSafe, WakeSafe, AwakeSafe
<1>3. CASE \E m \in Messages : SendResult(m)
  BY <1>3, SendResultSafe
<1>4. CASE \E o \in Owners : Output(o) \/ Destroy(o) \/ Start(o) \/ Stop(o)
  BY <1>4, OutputSafe, DestroySafe, StartSafe, StopSafe
<1>5. QED BY <1>1, <1>2, <1>3, <1>4 DEF Next

(* Type correctness: the list holds a message once and is never longer     *)
(* than initQueueMaxLength(), a message holds an observer once.            *)
THEOREM TypeCorrect == Spec => []TypeOK
<1>1. SafetyInv => TypeOK
  <2> SUFFICES ASSUME SafetyInv PROVE TypeOK
    OBVIOUS
  <2>1. Shapes /\ ListInv /\ VersionInv
    BY SafetyParts
  <2>2. ToSet(waking) \subseteq Messages
    BY <2>1, ToSetFacts DEF Shapes
  <2>3. \A m \in Messages : msg[m].version \in 0 .. MaxSends
    <3>1. SUFFICES ASSUME NEW m \in Messages PROVE msg[m].version \in 0 .. MaxSends
      OBVIOUS
    <3>2. msg[m].version \in Int /\ 0 <= msg[m].version /\ msg[m].version <= sends
      BY <2>1, MessageFacts DEF VersionInv
    <3>3. sends \in 0 .. MaxSends /\ MaxSends \in Nat
      BY <2>1, MessagesAssumption DEF Shapes
    <3>4. QED BY <3>2, <3>3
  <2>4. QED BY <2>1, <2>2, <2>3 DEF TypeOK, Shapes, ListInv
<1>2. QED BY <1>1, InitSafe, NextSafe, PTL DEF Spec

(* One time: however sends are nested, no observer is called twice with a  *)
(* version of a message, nor with an older one after a newer one, nor with *)
(* one that was set before it came.                                        *)
THEOREM DeliveredOnce == Spec => []OneTime
<1>1. SafetyInv => OneTime
  <2> SUFFICES ASSUME SafetyInv PROVE OneTime
    OBVIOUS
  <2>1. LogInv
    BY SafetyParts
  <2>2. QED BY <2>1 DEF LogInv, OneTime
<1>2. QED BY <1>1, InitSafe, NextSafe, PTL DEF Spec

(* Each time: an observer whose owner is started has the latest version of *)
(* every message that was set while it observed, as soon as nothing is     *)
(* being dispatched; but for one it was stopped for while another came.    *)
THEOREM DeliveredLatest == Spec => []LatestIsDelivered
<1>1. SafetyInv => LatestIsDelivered
  <2> SUFFICES ASSUME SafetyInv, stack = << >>, waker = Nobody,
                      NEW o \in Owners, life[o] = "started",
                      NEW m \in ToSet(results), Waits(msg[m], o)
               PROVE  o \in msg[m].eaten
    BY DEF LatestIsDelivered, Idle
  <2>1. PendingInv /\ OwnersInv
    BY SafetyParts
  <2>2. ~ Asked(o, m)
    BY DEF Asked
  <2>3. ~ Told(o, m)
    BY MessagesAssumption DEF Told
  <2>4. QED BY <2>1, <2>2, <2>3 DEF PendingInv
<1>2. QED BY <1>1, InitSafe, NextSafe, PTL DEF Spec
=============================================================================
