-------------------------- MODULE AppClientsProofs --------------------------
(***************************************************************************)
(* What TLAPS proves of the clients of the proxy, for any servers, any     *)
(* bound and any clients, both together included: the callback is          *)
(* registered once, the activity shows the state of the proxy, its button  *)
(* returns, the proxy runs the configuration of the file, and a            *)
(* reconnection is carried out.                                            *)
(***************************************************************************)
EXTENDS AppClients, FiniteSetTheorems, WellFoundedInduction, TLAPS

Message == ProxyState \cup {"state", "connected", "died"}
Step    == ProxyState \cup {"tell", "stopSelf", "return", "kill"}
Final(s) == s[Len(s)]

(* A message about the binding is there once, "died" before "connected".   *)
Ordered(s) ==
  \A i, j \in DOMAIN s :
    /\ s[i] = s[j] /\ s[i] \in {"connected", "died"} => i = j
    /\ s[i] = "connected" /\ s[j] = "died" => j < i

(* What is left of a script: a state that is assigned is told next, one    *)
(* that does not last is followed by another, and a start ends with its    *)
(* return.                                                                 *)
Script(d) ==
  /\ \A i \in DOMAIN d : d[i] \in ProxyState => i < Len(d) /\ d[i + 1] = "tell"
  /\ \A i \in DOMAIN d : d[i] \in {"STARTING", "STOPPING"} =>
       \E j \in DOMAIN d : i < j /\ d[j] \in {"STARTED", "STOPPED"}
  /\ \A i \in DOMAIN d : d[i] = "return" => i = Len(d)
  /\ "STARTED" \in ToSet(d) => "return" \in ToSet(d)

(* A request is taken from the inbox at its end, where it is the first.    *)
ScriptInv ==
  /\ Script(doing)
  /\ "return" \in ToSet(doing) => inbox # << >> /\ Head(inbox) = "start"
  /\ state \in {"STARTING", "STOPPING"} =>
       "STARTED" \in ToSet(doing) \/ "STOPPED" \in ToSet(doing)

(* A client has a binder of the process that lives exactly when its        *)
(* connection is active; one of a process that died is forgotten when      *)
(* "died" is handled, and that comes before the next "connected".          *)
LinkOK(c) ==
  /\ connected[c] <=> conn[c] # "unbound"
  /\ conn[c] \in {"published", "active"} => proc
  /\ registered[c] => service[c] # "null" /\ conn[c] # "unbound"
  /\ service[c] = "live" <=> conn[c] = "active"
  /\ service[c] = "dead" => conn[c] # "unbound" /\ "died" \in ToSet(looper[c])

LooperOK(c) ==
  /\ "connected" \in ToSet(looper[c]) => conn[c] = "published"
  /\ conn[c] = "active" => "died" \notin ToSet(looper[c])
  /\ Ordered(looper[c])

LinkInv   == \A c \in Clients : LinkOK(c)
LooperInv == \A c \in Clients : LooperOK(c)

(* The activity does not disconnect: while it is connected, its callback   *)
(* is in the list or on its way there, and before it is nothing comes.     *)
CallInv ==
  /\ calls["activity"] \in {<< >>, <<"register">>}
  /\ conn["activity"] # "active" =>
       "activity" \notin callbacks /\ calls["activity"] = << >>
  /\ conn["activity"] = "active" =>
       ("activity" \in callbacks <=> calls["activity"] = << >>)
  /\ conn["activity"] = "active" /\ "activity" \notin callbacks =>
       looper["activity"] = << >>
  /\ conn["activity"] = "published" =>
       looper["activity"] # << >> /\ Final(looper["activity"]) = "connected"

(* Unless it is about to be told, the last state that waits for the        *)
(* activity is the one of the proxy.                                       *)
Telling == doing # << >> /\ Head(doing) = "tell"

ViewInv ==
  conn["activity"] = "active" /\ ~ missed /\ ~ Telling =>
    IF looper["activity"] = << >> THEN asking["activity"] \/ proxyState = state
    ELSE Final(looper["activity"]) = state

(* While the button is disabled a state waits for the activity, or one     *)
(* will be told by the request under way or by one behind it.              *)
Disabled ==
  /\ conn["activity"] = "active" /\ ~ asking["activity"]
  /\ ~ (enabled \/ dialog \/ refused \/ missed)

ButtonInv ==
  Disabled =>
    \/ "tell" \in ToSet(doing) \/ looper["activity"] # << >>
    \/ Len(inbox) > IF "return" \in ToSet(doing) THEN 1 ELSE 0

(* Until STOPPED is heard, a reconnection has its stop in the inbox, or in *)
(* the script that ends the process.                                       *)
ReconnectionInv ==
  isReconnection /\ ~ lost =>
    \/ "STOPPED" \in ToSet(looper["activity"])
    \/ proc /\ ("stop" \in ToSet(inbox) \/ "kill" \in ToSet(doing))

(* A start that has not said STARTED yet.                                  *)
Pending ==
  \/ "STARTED" \in ToSet(doing)
  \/ \E i \in DOMAIN inbox : inbox[i] = "start" /\ (i = 1 => "return" \notin ToSet(doing))

(* Nothing starts without a configuration and the consent of the user, and *)
(* where the file is not what trojan has read, a start is coming.          *)
Begins ==
  requested \/ "start" \in ToSet(inbox) \/ "STARTED" \in ToSet(doing) \/ serving # None

FileInv ==
  /\ Begins => file # None /\ consented
  /\ dialog => file # None
  /\ state = "STARTED" => serving # None
  /\ serving \notin {None, file} /\ ~ unread => Pending

SafetyInv ==
  /\ Types /\ ScriptInv /\ LinkInv /\ LooperInv /\ CallInv
  /\ ViewInv /\ ButtonInv /\ ReconnectionInv /\ FileInv

-----------------------------------------------------------------------------
(* Sequences: what appending to one, the rest of one and leaving out a     *)
(* message do.                                                             *)

LEMMA AppendFacts ==
  ASSUME NEW S, NEW s \in Seq(S), NEW x \in S
  PROVE  /\ Append(s, x) \in Seq(S) /\ Append(s, x) # << >>
         /\ Len(Append(s, x)) = Len(s) + 1 /\ Final(Append(s, x)) = x
         /\ \A i \in DOMAIN s : Append(s, x)[i] = s[i]
         /\ ToSet(Append(s, x)) = ToSet(s) \cup {x}
         /\ DOMAIN Append(s, x) = DOMAIN s \cup {Len(s) + 1}
         /\ s # << >> => Head(Append(s, x)) = Head(s)
<1>1. /\ Append(s, x) \in Seq(S) /\ Append(s, x) # << >>
      /\ Len(Append(s, x)) = Len(s) + 1
      /\ \A i \in DOMAIN s : Append(s, x)[i] = s[i]
      /\ Append(s, x)[Len(s) + 1] = x
      /\ DOMAIN Append(s, x) = DOMAIN s \cup {Len(s) + 1}
  OBVIOUS
<1>2. ToSet(Append(s, x)) = ToSet(s) \cup {x}
  BY <1>1 DEF ToSet
<1>3. s # << >> => Head(Append(s, x)) = Head(s)
  OBVIOUS
<1> QED
  BY <1>1, <1>2, <1>3 DEF Final

LEMMA TailFacts ==
  ASSUME NEW S, NEW s \in Seq(S), s # << >>
  PROVE  /\ Tail(s) \in Seq(S) /\ Len(Tail(s)) = Len(s) - 1 /\ Head(s) \in S
         /\ \A i \in DOMAIN Tail(s) : i + 1 \in DOMAIN s /\ Tail(s)[i] = s[i + 1]
         /\ ToSet(s) = ToSet(Tail(s)) \cup {Head(s)}
         /\ Tail(s) # << >> => Final(Tail(s)) = Final(s)
         /\ Tail(s) = << >> => Final(s) = Head(s)
         /\ Len(s) >= 1
<1>1. /\ Tail(s) \in Seq(S) /\ Len(Tail(s)) = Len(s) - 1 /\ Head(s) \in S
      /\ \A i \in DOMAIN Tail(s) : i + 1 \in DOMAIN s /\ Tail(s)[i] = s[i + 1]
      /\ Len(s) >= 1 /\ Head(s) = s[1] /\ DOMAIN s = 1 .. Len(s)
      /\ DOMAIN Tail(s) = 1 .. Len(s) - 1
  OBVIOUS
<1>2. \A i \in DOMAIN s : i = 1 \/ (i - 1 \in DOMAIN Tail(s) /\ Tail(s)[i - 1] = s[i])
  BY <1>1
<1>3. ToSet(s) = ToSet(Tail(s)) \cup {Head(s)}
  <2>1. \A y \in ToSet(s) : y \in ToSet(Tail(s)) \/ y = Head(s)
    <3> SUFFICES ASSUME NEW i \in DOMAIN s PROVE s[i] \in ToSet(Tail(s)) \/ s[i] = Head(s)
      BY DEF ToSet
    <3>1. i - 1 \in DOMAIN Tail(s) => Tail(s)[i - 1] \in ToSet(Tail(s))
      BY DEF ToSet
    <3> QED
      BY <1>1, <1>2, <3>1
  <2>2. \A y \in ToSet(Tail(s)) : y \in ToSet(s)
    BY <1>1 DEF ToSet
  <2>3. Head(s) \in ToSet(s)
    BY <1>1 DEF ToSet
  <2> QED
    BY <2>1, <2>2, <2>3
<1>4. Tail(s) # << >> => Final(Tail(s)) = Final(s)
  <2> SUFFICES ASSUME Tail(s) # << >> PROVE Final(Tail(s)) = Final(s)
    OBVIOUS
  <2>1. Len(Tail(s)) \in DOMAIN Tail(s)
    BY <1>1
  <2> QED
    BY <2>1, <1>1 DEF Final
<1>5. Tail(s) = << >> => Final(s) = Head(s)
  <2>1. Tail(s) = << >> => Len(s) = 1
    BY <1>1
  <2> QED
    BY <2>1, <1>1 DEF Final
<1> QED
  BY <1>1, <1>3, <1>4, <1>5

(* What is left of a sequence without the first x in it: the other         *)
(* elements, in their order.                                               *)
LEMMA RemoveFacts ==
  ASSUME NEW S, NEW s \in Seq(S), NEW x
  PROVE  LET t == RemoveFirst(s, x) IN
         /\ t \in Seq(S)
         /\ x \notin ToSet(s) => t = s
         /\ x \in ToSet(s) => \E k \in DOMAIN s :
              /\ s[k] = x /\ Len(t) = Len(s) - 1
              /\ \A i \in DOMAIN t : i \in DOMAIN s /\ i + 1 \in DOMAIN s
                                     /\ t[i] = IF i < k THEN s[i] ELSE s[i + 1]
<1> DEFINE at == {i \in 1 .. Len(s) : s[i] = x}  k == Min(at)
           t == RemoveFirst(s, x)
<1>1. CASE x \notin ToSet(s)
  <2>1. ~ \E i \in 1 .. Len(s) : s[i] = x
    BY <1>1 DEF ToSet
  <2> QED
    BY <2>1, <1>1 DEF RemoveFirst
<1>2. CASE x \in ToSet(s)
  <2>1. at # {} /\ at \subseteq Nat
    BY <1>2 DEF ToSet
  <2>2. PICK j \in at : \A i \in at : <<i, j>> \notin OpToRel(<, Nat)
    BY <2>1, NatLessThanWellFounded, WFMin
  <2>3. k \in at
    <3>1. \A i \in at : ~ (i < j)
      BY <2>1, <2>2 DEF OpToRel
    <3>2. \A i \in at : j <= i
      BY <3>1, <2>1
    <3> QED
      BY <3>2 DEF Min
  <2>4. t = SubSeq(s, 1, k - 1) \o SubSeq(s, k + 1, Len(s))
    BY <2>1 DEF RemoveFirst, RemoveAt, SelectInSeq
  <2>5. k \in 1 .. Len(s) /\ s[k] = x
    BY <2>3
  <2> HIDE DEF k, t, at
  <2>6. /\ t \in Seq(S) /\ Len(t) = Len(s) - 1
        /\ \A i \in 1 .. Len(t) : t[i] = IF i < k THEN s[i] ELSE s[i + 1]
    <3> DEFINE u == SubSeq(s, 1, k - 1)  v == SubSeq(s, k + 1, Len(s))
    <3>1. /\ u \in Seq(S) /\ Len(u) = k - 1 /\ \A i \in 1 .. k - 1 : u[i] = s[i]
      BY <2>5
    <3>2. /\ v \in Seq(S) /\ Len(v) = Len(s) - k
          /\ \A i \in 1 .. Len(s) - k : v[i] = s[k + i]
      BY <2>5
    <3>3. t = u \o v
      BY <2>4
    <3> HIDE DEF u, v
    <3>4. /\ t \in Seq(S) /\ Len(t) = Len(s) - 1
      <4>0. u \in Seq(S) /\ v \in Seq(S)
        BY <3>1, <3>2
      <4>1. u \o v \in Seq(S) /\ Len(u \o v) = Len(u) + Len(v)
        BY <4>0
      <4>2. k \in Int /\ Len(s) \in Int
        BY <2>5
      <4> QED
        BY <4>1, <4>2, <3>1, <3>2, <3>3
    <3>5. \A i \in 1 .. Len(t) : t[i] = IF i < k THEN s[i] ELSE s[i + 1]
      <4> SUFFICES ASSUME NEW i \in 1 .. Len(t) PROVE t[i] = IF i < k THEN s[i] ELSE s[i + 1]
        OBVIOUS
      <4>1. t[i] = IF i <= Len(u) THEN u[i] ELSE v[i - Len(u)]
        BY <3>1, <3>2, <3>3, <3>4
      <4> QED
        BY <4>1, <3>1, <3>2, <3>4, <2>5
    <3> QED
      BY <3>4, <3>5
  <2>7. \A i \in DOMAIN t : i \in DOMAIN s /\ i + 1 \in DOMAIN s
                            /\ t[i] = IF i < k THEN s[i] ELSE s[i + 1]
    BY <2>6
  <2>8. k \in DOMAIN s
    BY <2>5
  <2> QED
    BY <2>5, <2>6, <2>7, <2>8, <1>2 DEF t
<1> QED
  BY <1>1, <1>2

(* The elements that are left; none is the one left out when that was      *)
(* there once.                                                             *)
LEMMA RemoveKeeps ==
  ASSUME NEW S, NEW s \in Seq(S), NEW x
  PROVE  /\ ToSet(RemoveFirst(s, x)) \subseteq ToSet(s)
         /\ \A y \in ToSet(s) : y # x => y \in ToSet(RemoveFirst(s, x))
         /\ (\A i, j \in DOMAIN s : s[i] = x /\ s[j] = x => i = j)
              => x \notin ToSet(RemoveFirst(s, x))
<1> DEFINE t == RemoveFirst(s, x)
<1>1. CASE x \notin ToSet(s)
  BY <1>1, RemoveFacts
<1>2. CASE x \in ToSet(s)
  <2>1. PICK k \in DOMAIN s :
          /\ s[k] = x /\ Len(t) = Len(s) - 1 /\ t \in Seq(S)
          /\ \A i \in DOMAIN t : i \in DOMAIN s /\ i + 1 \in DOMAIN s
                                 /\ t[i] = IF i < k THEN s[i] ELSE s[i + 1]
    BY <1>2, RemoveFacts
  <2> HIDE DEF t
  <2>2. DOMAIN t = 1 .. Len(s) - 1 /\ DOMAIN s = 1 .. Len(s)
    BY <2>1
  <2>3. ToSet(t) \subseteq ToSet(s)
    BY <2>1 DEF ToSet
  <2>4. ASSUME NEW i \in DOMAIN s, s[i] # x PROVE s[i] \in ToSet(t)
    <3>1. CASE i < k
      <4>1. i \in DOMAIN t /\ t[i] = s[i]
        BY <3>1, <2>1, <2>2
      <4> QED
        BY <4>1 DEF ToSet
    <3>2. CASE ~ (i < k)
      <4>1. i - 1 \in DOMAIN t /\ t[i - 1] = s[i]
        BY <3>2, <2>1, <2>2, <2>4
      <4> QED
        BY <4>1 DEF ToSet
    <3> QED
      BY <3>1, <3>2
  <2>5. ASSUME \A i, j \in DOMAIN s : s[i] = x /\ s[j] = x => i = j
        PROVE  x \notin ToSet(t)
    <3> SUFFICES ASSUME NEW i \in DOMAIN t, t[i] = x PROVE FALSE
      BY DEF ToSet
    <3> QED
      BY <2>1, <2>2, <2>5
  <2> QED
    BY <2>3, <2>4, <2>5 DEF t, ToSet
<1> QED
  BY <1>1, <1>2

(* Leaving out a message, posting one and handling the first keep the      *)
(* order of the messages about the binding.                                *)
LEMMA RemoveOrdered ==
  ASSUME NEW S, NEW s \in Seq(S), NEW x, Ordered(s)
  PROVE  Ordered(RemoveFirst(s, x))
<1> DEFINE t == RemoveFirst(s, x)
<1>1. CASE x \notin ToSet(s)
  BY <1>1, RemoveFacts
<1>2. CASE x \in ToSet(s)
  <2>1. PICK k \in DOMAIN s :
          /\ s[k] = x /\ Len(t) = Len(s) - 1 /\ t \in Seq(S)
          /\ \A i \in DOMAIN t : i \in DOMAIN s /\ i + 1 \in DOMAIN s
                                 /\ t[i] = IF i < k THEN s[i] ELSE s[i + 1]
    BY <1>2, RemoveFacts
  <2> HIDE DEF t
  <2> DEFINE at(i) == IF i < k THEN i ELSE i + 1
  <2>2. DOMAIN t \subseteq Int /\ k \in Int
    BY <2>1
  <2>3. \A i \in DOMAIN t : at(i) \in DOMAIN s /\ t[i] = s[at(i)]
    BY <2>1
  <2>4. \A i, j \in DOMAIN t : (at(i) = at(j) => i = j) /\ (at(j) < at(i) => j < i)
    BY <2>2
  <2> HIDE DEF at
  <2>5. Ordered(t)
    <3> SUFFICES ASSUME NEW i \in DOMAIN t, NEW j \in DOMAIN t
                 PROVE  /\ t[i] = t[j] /\ t[i] \in {"connected", "died"} => i = j
                        /\ t[i] = "connected" /\ t[j] = "died" => j < i
      BY DEF Ordered
    <3> QED
      BY <2>3, <2>4 DEF Ordered
  <2> QED
    BY <2>5 DEF t
<1> QED
  BY <1>1, <1>2

LEMMA AppendOrdered ==
  ASSUME NEW S, NEW s \in Seq(S), NEW x \in S, Ordered(s),
         x \in {"connected", "died"} => x \notin ToSet(s),
         x = "died" => "connected" \notin ToSet(s)
  PROVE  Ordered(Append(s, x))
<1> DEFINE t == Append(s, x)
<1>1. /\ \A i \in DOMAIN s : t[i] = s[i] /\ i < Len(s) + 1
      /\ t[Len(s) + 1] = x
      /\ DOMAIN t = DOMAIN s \cup {Len(s) + 1}
      /\ Len(s) \in Nat
  OBVIOUS
<1>2. \A i \in DOMAIN s : s[i] \in ToSet(s)
  BY DEF ToSet
<1> HIDE DEF t
<1>3. Ordered(t)
  <2> SUFFICES ASSUME NEW i \in DOMAIN t, NEW j \in DOMAIN t
               PROVE  /\ t[i] = t[j] /\ t[i] \in {"connected", "died"} => i = j
                      /\ t[i] = "connected" /\ t[j] = "died" => j < i
    BY DEF Ordered
  <2>1. CASE i \in DOMAIN s /\ j \in DOMAIN s
    BY <2>1, <1>1 DEF Ordered
  <2>2. CASE i \in DOMAIN s /\ j = Len(s) + 1
    BY <2>2, <1>1, <1>2
  <2>3. CASE i = Len(s) + 1 /\ j \in DOMAIN s
    BY <2>3, <1>1, <1>2
  <2>4. CASE i = Len(s) + 1 /\ j = Len(s) + 1
    BY <2>4, <1>1
  <2> QED
    BY <2>1, <2>2, <2>3, <2>4, <1>1
<1> QED
  BY <1>3 DEF t

LEMMA TailOrdered ==
  ASSUME NEW S, NEW s \in Seq(S), s # << >>, Ordered(s)
  PROVE  /\ Ordered(Tail(s))
         /\ Head(s) \in {"connected", "died"} => Head(s) \notin ToSet(Tail(s))
         /\ Head(s) = "connected" => "died" \notin ToSet(s)
<1> DEFINE t == Tail(s)
<1>1. /\ \A i \in DOMAIN t : i + 1 \in DOMAIN s /\ t[i] = s[i + 1] /\ i \in Int /\ i >= 1
      /\ 1 \in DOMAIN s /\ Head(s) = s[1]
      /\ \A i \in DOMAIN s : i \in Int /\ i >= 1
  OBVIOUS
<1> HIDE DEF t
<1>2. Ordered(t)
  <2> SUFFICES ASSUME NEW i \in DOMAIN t, NEW j \in DOMAIN t
               PROVE  /\ t[i] = t[j] /\ t[i] \in {"connected", "died"} => i = j
                      /\ t[i] = "connected" /\ t[j] = "died" => j < i
    BY DEF Ordered
  <2>1. /\ i + 1 \in DOMAIN s /\ t[i] = s[i + 1] /\ j + 1 \in DOMAIN s /\ t[j] = s[j + 1]
        /\ i \in Int /\ j \in Int
    BY <1>1
  <2> QED
    BY <2>1 DEF Ordered
<1>3. ASSUME Head(s) \in {"connected", "died"}, Head(s) \in ToSet(t) PROVE FALSE
  <2>1. PICK i \in DOMAIN t : t[i] = Head(s)
    BY <1>3 DEF ToSet
  <2> QED
    BY <2>1, <1>1, <1>3 DEF Ordered
<1>4. ASSUME Head(s) = "connected", "died" \in ToSet(s) PROVE FALSE
  <2>1. PICK i \in DOMAIN s : s[i] = "died"
    BY <1>4 DEF ToSet
  <2>2. i < 1
    BY <2>1, <1>1, <1>4 DEF Ordered
  <2> QED
    BY <2>2, <1>1
<1> QED
  BY <1>2, <1>3, <1>4 DEF t

-----------------------------------------------------------------------------
(* The proxy.                                                              *)

OnDestroy == <<"STOPPED", "tell">> \o Stop
NotThere  == <<"STOPPED", "tell">> \o Begun

LEMMA ScriptOfThree ==
  ASSUME NEW s \in Seq(Step), NEW a \in Step, NEW b \in Step, NEW c \in Step,
         s = <<a, b, c>>
  PROVE  /\ Len(s) = 3 /\ DOMAIN s = 1 .. 3 /\ s[1] = a /\ s[2] = b /\ s[3] = c
         /\ ToSet(s) = {a, b, c}
<1>1. Len(s) = 3 /\ DOMAIN s = 1 .. 3 /\ s[1] = a /\ s[2] = b /\ s[3] = c
  OBVIOUS
<1>2. ToSet(s) = {s[i] : i \in 1 .. 3}
  BY <1>1 DEF ToSet
<1>3. ToSet(s) = {s[1], s[2], s[3]}
  <2>1. ASSUME NEW f PROVE {f[i] : i \in 1 .. 3} = {f[1], f[2], f[3]}
    OBVIOUS
  <2> QED
    BY <1>2, <2>1
<1> QED
  BY <1>1, <1>3

LEMMA ConcatAt ==
  ASSUME NEW S, NEW u \in Seq(S), NEW v \in Seq(S), NEW i \in 1 .. Len(u) + Len(v)
  PROVE  (u \o v)[i] = IF i <= Len(u) THEN u[i] ELSE v[i - Len(u)]
OBVIOUS

(* The scripts of ProxyStates.                                             *)
LEMMA BegunFacts ==
  /\ Begun \in Seq(Step) /\ Script(Begun) /\ Begun # << >> /\ Head(Begun) = "STARTED"
  /\ ToSet(Begun) = {"STARTED", "tell", "return"}
<1>1. Begun \in Seq(Step) /\ Begun = <<"STARTED", "tell", "return">>
  BY DEF Begun, Step, ProxyState
<1>2. /\ Len(Begun) = 3 /\ DOMAIN Begun = 1 .. 3 /\ ToSet(Begun) = {"STARTED", "tell", "return"}
      /\ Begun[1] = "STARTED" /\ Begun[2] = "tell" /\ Begun[3] = "return"
  <2>1. "STARTED" \in Step /\ "tell" \in Step /\ "return" \in Step
    BY DEF Step, ProxyState
  <2> QED
    BY <1>1, <2>1, ScriptOfThree
<1>3. Script(Begun)
  BY <1>2 DEF Script, ProxyState
<1> QED
  BY <1>1, <1>2, <1>3

LEMMA StopFacts ==
  /\ Stop \in Seq(Step) /\ Script(Stop) /\ Stop # << >>
  /\ ToSet(Stop) = {"STOPPING", "tell", "stopSelf", "STOPPED", "kill"}
<1> DEFINE s == <<"STOPPING", "tell", "stopSelf">>
<1>1. s \in Seq(Step) /\ Ended \in Seq(Step) /\ Ended = <<"STOPPED", "tell", "kill">>
  BY DEF Ended, Step, ProxyState
<1>2. /\ Len(s) = 3 /\ DOMAIN s = 1 .. 3
      /\ s[1] = "STOPPING" /\ s[2] = "tell" /\ s[3] = "stopSelf"
  BY <1>1, ScriptOfThree DEF Step, ProxyState
<1>3. /\ Len(Ended) = 3 /\ DOMAIN Ended = 1 .. 3
      /\ Ended[1] = "STOPPED" /\ Ended[2] = "tell" /\ Ended[3] = "kill"
  BY <1>1, ScriptOfThree DEF Step, ProxyState
<1>4. Stop = s \o Ended
  BY DEF Stop
<1> HIDE DEF s
<1>5. Stop \in Seq(Step) /\ Len(Stop) = Len(s) + Len(Ended)
  BY <1>1, <1>4
<1>6. \A i \in 1 .. 6 : Stop[i] = IF i <= 3 THEN s[i] ELSE Ended[i - 3]
  <2>1. s \in Seq(Step) /\ Ended \in Seq(Step) /\ Len(s) = 3 /\ Len(Ended) = 3
    BY <1>1, <1>2, <1>3
  <2>2. \A i \in 1 .. Len(s) + Len(Ended) :
          (s \o Ended)[i] = IF i <= Len(s) THEN s[i] ELSE Ended[i - Len(s)]
    BY <2>1, ConcatAt
  <2>3. \A i \in 1 .. 6 : (s \o Ended)[i] = IF i <= 3 THEN s[i] ELSE Ended[i - 3]
    <3> SUFFICES ASSUME NEW i \in 1 .. 6
                 PROVE  (s \o Ended)[i] = IF i <= 3 THEN s[i] ELSE Ended[i - 3]
      OBVIOUS
    <3>1. i \in 1 .. Len(s) + Len(Ended)
      BY <2>1
    <3> QED
      BY <3>1, <2>1, <2>2
  <2> QED
    BY <2>3, <1>4
<1>7. /\ Len(Stop) = 6 /\ DOMAIN Stop = 1 .. 6 /\ Stop[1] = "STOPPING" /\ Stop[2] = "tell"
      /\ Stop[3] = "stopSelf" /\ Stop[4] = "STOPPED" /\ Stop[5] = "tell" /\ Stop[6] = "kill"
  BY <1>2, <1>3, <1>5, <1>6
<1>8. ToSet(Stop) = {"STOPPING", "tell", "stopSelf", "STOPPED", "kill"}
  <2>1. ToSet(Stop) = {Stop[i] : i \in 1 .. 6}
    BY <1>7 DEF ToSet
  <2> QED
    BY <2>1, <1>7
<1>9. Script(Stop)
  BY <1>7, <1>8 DEF Script, ProxyState
<1> QED
  BY <1>5, <1>7, <1>8, <1>9

(* A script after a state that is told is a script.                        *)
LEMMA ScriptPrefix ==
  ASSUME NEW s \in Seq(Step), Script(s), NEW p \in ProxyState, p # "STARTED",
         p \in {"STARTING", "STOPPING"} =>
           "STARTED" \in ToSet(s) \/ "STOPPED" \in ToSet(s)
  PROVE  LET w == <<p, "tell">> \o s IN
         /\ w \in Seq(Step) /\ Script(w) /\ w # << >>
         /\ ToSet(w) = {p, "tell"} \cup ToSet(s)
<1> DEFINE u == <<p, "tell">>  w == u \o s
<1>1. p \in Step /\ p # "return" /\ "tell" \in Step
  BY DEF Step, ProxyState
<1>2. u \in Seq(Step) /\ Len(u) = 2 /\ u[1] = p /\ u[2] = "tell"
  BY <1>1
<1> HIDE DEF u
<1>3. w \in Seq(Step) /\ Len(w) = Len(s) + 2 /\ Len(s) \in Nat
  <2>1. u \in Seq(Step)
    BY <1>2
  <2>2. w \in Seq(Step) /\ Len(w) = Len(u) + Len(s)
    BY <2>1
  <2> QED
    BY <2>2, <1>2
<1>4. \A i \in 1 .. Len(w) : w[i] = IF i <= 2 THEN u[i] ELSE s[i - 2]
  BY <1>2, <1>3
<1> HIDE DEF w
<1>5. /\ DOMAIN w = 1 .. Len(s) + 2 /\ DOMAIN s = 1 .. Len(s)
      /\ w[1] = p /\ w[2] = "tell" /\ \A i \in DOMAIN w : i > 2 => w[i] = s[i - 2]
  BY <1>2, <1>3, <1>4
<1>6. \A i \in DOMAIN s : i + 2 \in DOMAIN w /\ w[i + 2] = s[i]
  BY <1>5, <1>3
<1>7. \A i \in DOMAIN w : i = 1 \/ i = 2 \/ (i > 2 /\ i - 2 \in DOMAIN s)
  BY <1>5, <1>3
<1>8. 1 \in DOMAIN w /\ 2 \in DOMAIN w
  BY <1>5, <1>3
<1>9. ToSet(w) = {p, "tell"} \cup ToSet(s)
  <2>1. \A y \in ToSet(w) : y \in {p, "tell"} \cup ToSet(s)
    BY <1>5, <1>7 DEF ToSet
  <2>2. \A y \in {p, "tell"} \cup ToSet(s) : y \in ToSet(w)
    BY <1>5, <1>6, <1>8 DEF ToSet
  <2> QED
    BY <2>1, <2>2
<1>10. Script(w)
  <2>1. ASSUME NEW i \in DOMAIN w, w[i] \in ProxyState PROVE i < Len(w) /\ w[i + 1] = "tell"
    <3>1. CASE i = 1
      BY <3>1, <1>3, <1>5
    <3>2. CASE i = 2
      BY <3>2, <2>1, <1>5 DEF ProxyState
    <3>3. CASE i > 2 /\ i - 2 \in DOMAIN s
      <4>1. i - 2 < Len(s) /\ s[i - 2 + 1] = "tell"
        BY <3>3, <2>1, <1>5 DEF Script
      <4>2. i \in Int /\ i + 1 \in DOMAIN w /\ i + 1 > 2 /\ (i + 1) - 2 = i - 2 + 1
        BY <3>3, <4>1, <1>3, <1>5
      <4> QED
        BY <4>1, <4>2, <1>5, <1>3
    <3> QED
      BY <3>1, <3>2, <3>3, <1>7
  <2>2. ASSUME NEW i \in DOMAIN w, w[i] = "return" PROVE i = Len(w)
    <3>1. i > 2 /\ i - 2 \in DOMAIN s
      BY <2>2, <1>1, <1>5, <1>7
    <3>2. i - 2 = Len(s)
      BY <3>1, <2>2, <1>5 DEF Script
    <3> QED
      BY <3>1, <3>2, <1>3, <1>5
  <2>3. "STARTED" \in ToSet(w) => "return" \in ToSet(w)
    BY <1>9 DEF Script
  <2>4. ASSUME NEW i \in DOMAIN w, w[i] \in {"STARTING", "STOPPING"}
        PROVE  \E j \in DOMAIN w : i < j /\ w[j] \in {"STARTED", "STOPPED"}
    <3>1. CASE i = 1
      <4>1. PICK j \in DOMAIN s : s[j] \in {"STARTED", "STOPPED"}
        BY <3>1, <2>4, <1>5 DEF ToSet
      <4> QED
        BY <4>1, <3>1, <1>3, <1>5, <1>6
    <3>2. CASE i = 2
      BY <3>2, <2>4, <1>5
    <3>3. CASE i > 2 /\ i - 2 \in DOMAIN s
      <4>1. PICK j \in DOMAIN s : i - 2 < j /\ s[j] \in {"STARTED", "STOPPED"}
        BY <3>3, <2>4, <1>5 DEF Script
      <4> QED
        BY <4>1, <3>3, <1>3, <1>5, <1>6
    <3> QED
      BY <3>1, <3>2, <3>3, <1>7
  <2> QED
    BY <2>1, <2>2, <2>3, <2>4 DEF Script
<1> QED
  BY <1>3, <1>9, <1>10, <1>8 DEF w, u

LEMMA ScriptFacts ==
  /\ \A d \in {Start, Stop, OnDestroy, NotThere} :
       d \in Seq(Step) /\ d # << >> /\ Script(d) /\ "tell" \in ToSet(d)
  /\ \A d \in {Start, NotThere} :
       "return" \in ToSet(d) /\ "STARTED" \in ToSet(d)
  /\ \A d \in {Stop, OnDestroy} :
       "kill" \in ToSet(d) /\ "return" \notin ToSet(d) /\ "STARTED" \notin ToSet(d)
<1>1. /\ Start \in Seq(Step) /\ Start # << >> /\ Script(Start)
      /\ ToSet(Start) = {"STARTING", "tell"} \cup ToSet(Begun)
  BY ScriptPrefix, BegunFacts DEF Start, ProxyState
<1>2. /\ NotThere \in Seq(Step) /\ NotThere # << >> /\ Script(NotThere)
      /\ ToSet(NotThere) = {"STOPPED", "tell"} \cup ToSet(Begun)
  BY ScriptPrefix, BegunFacts DEF NotThere, ProxyState
<1>3. /\ OnDestroy \in Seq(Step) /\ OnDestroy # << >> /\ Script(OnDestroy)
      /\ ToSet(OnDestroy) = {"STOPPED", "tell"} \cup ToSet(Stop)
  BY ScriptPrefix, StopFacts DEF OnDestroy, ProxyState
<1> QED
  BY <1>1, <1>2, <1>3, BegunFacts, StopFacts

(* The rest of a script is one, and after a state "tell" is next.          *)
LEMMA ScriptTail ==
  ASSUME NEW d \in Seq(Step), d # << >>, Script(d)
  PROVE  /\ Script(Tail(d)) /\ Tail(d) \in Seq(Step)
         /\ ToSet(d) = ToSet(Tail(d)) \cup {Head(d)}
         /\ Head(d) \in ProxyState =>
              Tail(d) # << >> /\ Head(Tail(d)) = "tell" /\ "tell" \in ToSet(Tail(d))
         /\ Head(d) \in {"STARTING", "STOPPING"} =>
              "STARTED" \in ToSet(Tail(d)) \/ "STOPPED" \in ToSet(Tail(d))
         /\ Head(d) = "return" => Tail(d) = << >> /\ ToSet(Tail(d)) = {}
<1> DEFINE t == Tail(d)
<1>1. /\ t \in Seq(Step) /\ Len(t) = Len(d) - 1 /\ Head(d) = d[1]
      /\ \A i \in DOMAIN t : i + 1 \in DOMAIN d /\ t[i] = d[i + 1]
      /\ ToSet(d) = ToSet(t) \cup {Head(d)} /\ Len(d) >= 1 /\ Len(d) \in Nat
  BY TailFacts
<1>2. DOMAIN t = 1 .. Len(d) - 1 /\ DOMAIN d = 1 .. Len(d)
  BY <1>1
<1> HIDE DEF t
<1>3. ASSUME Head(d) \in ProxyState
      PROVE  t # << >> /\ Head(t) = "tell" /\ "tell" \in ToSet(t)
  <2>1. 1 < Len(d) /\ d[2] = "tell"
    BY <1>1, <1>2, <1>3 DEF Script
  <2>2. 1 \in DOMAIN t /\ t[1] = "tell"
    BY <2>1, <1>1, <1>2
  <2> QED
    BY <2>2, <1>1 DEF ToSet
<1>4. ASSUME Head(d) = "return" PROVE t = << >> /\ ToSet(t) = {}
  <2>1. Len(d) = 1
    BY <1>1, <1>2, <1>4 DEF Script
  <2>2. t = << >>
    BY <2>1, <1>1
  <2>3. DOMAIN t = {}
    BY <2>1, <1>2
  <2> QED
    BY <2>2, <2>3 DEF ToSet
<1>5. Script(t)
  <2>1. ASSUME NEW i \in DOMAIN t, t[i] \in ProxyState PROVE i < Len(t) /\ t[i + 1] = "tell"
    <3>1. i + 1 < Len(d) /\ d[i + 2] = "tell"
      BY <2>1, <1>1, <1>2 DEF Script
    <3>2. i + 1 \in DOMAIN t
      BY <3>1, <1>2
    <3> QED
      BY <3>1, <3>2, <1>1, <1>2
  <2>2. ASSUME NEW i \in DOMAIN t, t[i] = "return" PROVE i = Len(t)
    BY <2>2, <1>1, <1>2 DEF Script
  <2>3. "STARTED" \in ToSet(t) => "return" \in ToSet(t)
    <3>1. "STARTED" \in ToSet(t) => Head(d) # "return"
      BY <1>4
    <3> QED
      BY <3>1, <1>1 DEF Script
  <2>4. ASSUME NEW i \in DOMAIN t, t[i] \in {"STARTING", "STOPPING"}
        PROVE  \E j \in DOMAIN t : i < j /\ t[j] \in {"STARTED", "STOPPED"}
    <3>1. PICK j \in DOMAIN d : i + 1 < j /\ d[j] \in {"STARTED", "STOPPED"}
      BY <2>4, <1>1 DEF Script
    <3>2. j - 1 \in DOMAIN t /\ i < j - 1 /\ t[j - 1] = d[j]
      BY <3>1, <1>1, <1>2
    <3> QED
      BY <3>1, <3>2
  <2> QED
    BY <2>1, <2>2, <2>3, <2>4 DEF Script
<1>6. ASSUME Head(d) \in {"STARTING", "STOPPING"}
      PROVE  "STARTED" \in ToSet(t) \/ "STOPPED" \in ToSet(t)
  <2>1. PICK j \in DOMAIN d : 1 < j /\ d[j] \in {"STARTED", "STOPPED"}
    BY <1>6, <1>1, <1>2 DEF Script
  <2>2. j - 1 \in DOMAIN t /\ t[j - 1] = d[j]
    BY <2>1, <1>1, <1>2
  <2> QED
    BY <2>1, <2>2 DEF ToSet
<1> QED
  BY <1>1, <1>3, <1>4, <1>5, <1>6 DEF t

ProxyType ==
  /\ proc \in BOOLEAN /\ bound \in BOOLEAN /\ requested \in BOOLEAN
  /\ inbox \in Seq({"start", "stop"}) /\ state \in ProxyState /\ doing \in Seq(Step)

LEMMA EmptySet == ToSet(<< >>) = {}
BY DEF ToSet

(* A script that assigns a state tells one.                                *)
LEMMA ToldNext ==
  ASSUME NEW d \in Seq(Step), Script(d), NEW p \in ProxyState, p \in ToSet(d)
  PROVE  "tell" \in ToSet(d)
<1>1. PICK i \in DOMAIN d : d[i] = p
  BY DEF ToSet
<1>2. i < Len(d) /\ d[i + 1] = "tell"
  BY <1>1 DEF Script
<1>3. i + 1 \in DOMAIN d
  BY <1>2
<1> QED
  BY <1>2, <1>3 DEF ToSet

(* What is left of the inbox when the process is gone.                     *)
LEMMA StartsLeft ==
  ASSUME ProxyType, Gone
  PROVE  inbox' \in Seq({"start", "stop"}) /\ "stop" \notin ToSet(inbox')
         /\ ("start" \in ToSet(inbox') => "start" \in ToSet(inbox))
<1> DEFINE starts == {i \in DOMAIN inbox : inbox[i] = "start"}
<1>1. PICK n \in 0 .. Cardinality(starts) : inbox' = [i \in 1 .. n |-> "start"]
  BY DEF Gone
<1>2. Cardinality(starts) \in Nat
  <2>1. IsFiniteSet(1 .. Len(inbox)) /\ starts \subseteq 1 .. Len(inbox)
    BY FS_Interval DEF ProxyType
  <2> QED
    BY <2>1, FS_Subset, FS_CardinalityType
<1>3. n \in Nat
  BY <1>1, <1>2
<1>4. inbox' \in Seq({"start", "stop"}) /\ "stop" \notin ToSet(inbox')
  BY <1>1, <1>3 DEF ToSet
<1>5. ASSUME "start" \in ToSet(inbox') PROVE "start" \in ToSet(inbox)
  <2>1. starts # {}
    <3> SUFFICES ASSUME starts = {} PROVE FALSE
      OBVIOUS
    <3>1. Cardinality(starts) = 0
      BY FS_EmptySet
    <3>2. n = 0
      BY <3>1, <1>1
    <3> QED
      BY <3>2, <1>1, <1>5 DEF ToSet
  <2> QED
    BY <2>1 DEF ToSet
<1> QED
  BY <1>4, <1>5

(* Every step of the proxy keeps its types and the shape of what it is     *)
(* doing.                                                                  *)
LEMMA ProxyStep ==
  ASSUME ProxyType, ScriptInv, ProxyNext \/ UNCHANGED proxy
  PROVE  ProxyType' /\ ScriptInv'
<1> USE DEF ProxyType
<1>1. CASE StartRequest
  BY <1>1, AppendFacts DEF StartRequest, ScriptInv
<1>2. CASE StopRequest
  BY <1>2, AppendFacts DEF StopRequest, ScriptInv
<1>3. CASE Handle
  <2>1. /\ UNCHANGED <<proc, bound, requested, inbox, state>> /\ doing = << >>
        /\ doing' \in {Start, Stop, OnDestroy}
        /\ doing' = Start => inbox # << >> /\ Head(inbox) = "start"
    <3>1. Start # Stop /\ Start # OnDestroy
      BY ScriptFacts
    <3> QED
      BY <1>3, <3>1 DEF Handle, OnDestroy
  <2>2. state \notin {"STARTING", "STOPPING"}
    BY <2>1, EmptySet DEF ScriptInv
  <2> QED
    BY <2>1, <2>2, ScriptFacts DEF ScriptInv, Step
<1>4. CASE Assign
  BY <1>4, ScriptTail DEF Assign, Next1, ScriptInv
<1>5. CASE Tell
  BY <1>5, ScriptTail DEF Tell, Next1, ScriptInv
<1>6. CASE StopSelf
  <2>1. /\ Script(doing') /\ doing' \in Seq(Step)
        /\ ToSet(doing) = ToSet(doing') \cup {"stopSelf"}
    BY <1>6, ScriptTail DEF StopSelf, Next1, ScriptInv
  <2> QED
    BY <1>6, <2>1 DEF StopSelf, ScriptInv
<1>7. CASE Return
  <2>1. "return" \in ToSet(doing)
    BY <1>7, ScriptTail DEF Return, Next1, ScriptInv
  <2>2. Tail(inbox) \in Seq({"start", "stop"})
    BY <2>1, TailFacts DEF ScriptInv
  <2> QED
    BY <1>7, <2>2, ScriptTail DEF Return, Next1, ScriptInv
<1>8. CASE Detour
  <2>1. "return" \in ToSet(doing) /\ doing' \in {NotThere, Stop}
        /\ UNCHANGED <<proc, bound, requested, inbox, state>>
    BY <1>8, BegunFacts DEF Detour, NotThere
  <2> QED
    BY <2>1, ScriptFacts, StopFacts DEF ScriptInv
<1>9. CASE Gone
  <2>1. doing' = << >> /\ ToSet(doing') = {} /\ Script(doing') /\ doing' \in Seq(Step)
    BY <1>9, EmptySet DEF Gone, Script
  <2> QED
    BY <1>9, <2>1, StartsLeft DEF Gone, ScriptInv, ProxyState
<1>10. CASE Create
  <2>1. <<"start">> \in Seq({"start", "stop"})
    OBVIOUS
  <2>2. inbox' = inbox \/ (inbox = << >> /\ inbox' = <<"start">>)
    BY <1>10 DEF Create
  <2>3. "return" \in ToSet(doing) => inbox' = inbox
    BY <2>2 DEF ScriptInv
  <2> QED
    BY <1>10, <2>1, <2>2, <2>3 DEF Create, ScriptInv
<1>11. CASE \E b \in BOOLEAN : Bind(b)
  BY <1>11 DEF Bind, ScriptInv
<1>12. CASE UNCHANGED proxy
  BY <1>12 DEF proxy, ScriptInv
<1> QED
  BY <1>1, <1>2, <1>3, <1>4, <1>5, <1>6, <1>7, <1>8, <1>9, <1>10, <1>11, <1>12
     DEF ProxyNext, Kill, Crash

-----------------------------------------------------------------------------
(* The steps, by what they do.                                             *)

LinkType ==
  /\ connected \in [Clients -> BOOLEAN] /\ registered \in [Clients -> BOOLEAN]
  /\ conn \in [Clients -> {"unbound", "bound", "published", "active"}]
  /\ service \in [Clients -> {"null", "live", "dead"}] /\ asking \in [Clients -> BOOLEAN]
  /\ looper \in [Clients -> Seq(Message)]
  /\ calls \in [Clients -> Seq({"register", "unregister"})] /\ callbacks \subseteq Clients
  /\ missed \in BOOLEAN /\ twice \in BOOLEAN

ActivityType ==
  /\ proxyState \in ProxyState /\ {instance, file, serving} \subseteq Servers \cup {None}
  /\ {isReconnection, enabled, dialog, refused, tap_pending, consented, unread, lost} \subseteq BOOLEAN

LEMMA TypeParts == Types <=> ProxyType /\ LinkType /\ ActivityType
BY DEF Types, ProxyType, LinkType, ActivityType, Message, Step

LEMMA SetConnectionProxy ==
  ASSUME NEW s, SetConnection(s)
  PROVE  StartRequest \/ StopRequest \/ UNCHANGED proxy
BY DEF SetConnection

LEMMA ToggleProxy ==
  ASSUME Toggle
  PROVE  StartRequest \/ StopRequest \/ UNCHANGED proxy
BY DEF Toggle

(* What a step does to the proxy.                                          *)
LEMMA NextIsProxy ==
  ASSUME Next
  PROVE  ProxyNext \/ UNCHANGED proxy
<1> USE DEF ProxyNext
<1>1. CASE TellClients \/ Announce \/ ProxyWorks
  BY <1>1 DEF TellClients, Announce, ProxyWorks
<1>2. ASSUME NEW c \in Clients, Publish(c) \/ RunCall(c) \/ Looper(c) PROVE UNCHANGED proxy
  BY <1>2 DEF Publish, RunCall, Looper, Connected, Disconnected
<1>3. ASSUME NEW c, Fresh(c) \/ Connect(c) \/ Disconnect(c) PROVE \E b \in BOOLEAN : Bind(b)
  BY <1>3 DEF Fresh, Connect, Disconnect
<1>4. CASE AskState \/ TileState \/ Exit
  BY <1>4, <1>3 DEF AskState, TileState, Exit, GoneActivity
<1>5. CASE StateChanged \/ TileAsks
  BY <1>5, SetConnectionProxy, ToggleProxy DEF StateChanged, TileAsks
<1>6. CASE ProxyDies
  BY <1>6 DEF ProxyDies, Crash
<1>7. CASE Launch \/ StartListening \/ StopListening
  BY <1>7, <1>3 DEF Launch, StartListening, StopListening
<1>8. CASE TapConnect \/ Click \/ ClickElsewhere
  BY <1>8, SetConnectionProxy, ToggleProxy DEF TapConnect, Click, ClickElsewhere
<1>9. CASE Answer \/ Select \/ Import
  BY <1>9 DEF Answer, Select, Import
<1> QED
  BY <1>1, <1>2, <1>4, <1>5, <1>6, <1>7, <1>8, <1>9 DEF Next, Works, User

(* What a step does to the connections: getState is answered, and a state  *)
(* is heard, besides the actions of TrojanConnection.                      *)
Asks(c) ==
  /\ asking[c] /\ asking' = [asking EXCEPT ![c] = FALSE]
  /\ UNCHANGED <<connected, conn, service, registered, looper, calls, callbacks, missed, twice>>

Heard(c) ==
  /\ ~ asking[c] /\ looper[c] # << >> /\ Head(looper[c]) \notin {"connected", "died"} /\ Pop(c)
  /\ UNCHANGED <<connected, conn, service, registered, asking, calls, callbacks, missed, twice>>

LinkStep(c) ==
  \/ Connect(c) \/ Fresh(c) \/ Asks(c) \/ Heard(c)
  \/ Publish(c) \/ RunCall(c) \/ Connected(c) \/ Disconnected(c)

LEMMA NextIsLink ==
  ASSUME Next
  PROVE  \/ UNCHANGED links /\ (proc => proc')
         \/ (\E c \in Clients : LinkStep(c)) /\ proc' = proc
         \/ Disconnect("tile") /\ proc' = proc
         \/ TellClients /\ proc' = proc
         \/ ProxyDies
<1> USE DEF LinkStep
<1>1. CASE TellClients
  BY <1>1 DEF TellClients, Tell
<1>2. CASE Announce \/ ProxyWorks
  BY <1>2 DEF Announce, ProxyWorks, Assign, Handle, StopSelf, Return, Detour, Create
<1>3. ASSUME NEW c \in Clients, Publish(c) \/ RunCall(c) \/ Looper(c)
      PROVE LinkStep(c) /\ proc' = proc
  BY <1>3 DEF Publish, RunCall, Looper, Connected, Disconnected, proxy
<1>4. ASSUME NEW c, Fresh(c) \/ Connect(c) \/ Disconnect(c) PROVE proc' = proc
  BY <1>4 DEF Fresh, Connect, Disconnect, Bind
<1>5. \A s : SetConnection(s) => proc' = proc
  BY SetConnectionProxy DEF StartRequest, StopRequest, proxy
<1>6. Toggle => proc' = proc
  BY ToggleProxy DEF StartRequest, StopRequest, proxy
<1>7. "activity" \in Clients /\ "tile" \in Clients
  BY DEF Clients
<1>8. CASE AskState
  BY <1>8, <1>4, <1>7 DEF AskState, GoneActivity, Asks, proxy
<1>9. CASE TileState
  BY <1>9, <1>4, <1>7 DEF TileState, Heard, First, proxy
<1>10. CASE Exit
  BY <1>10, <1>4, <1>7 DEF Exit, GoneActivity
<1>11. CASE StateChanged
  BY <1>11, <1>5, <1>7 DEF StateChanged, Heard, First, ProxyState, proxy
<1>12. CASE TileAsks
  BY <1>12, <1>6, <1>7 DEF TileAsks, Asks, proxy
<1>13. CASE ProxyDies
  BY <1>13
<1>14. CASE Launch \/ StartListening \/ StopListening
  BY <1>14, <1>4, <1>7 DEF Launch, StartListening, StopListening
<1>15. CASE TapConnect \/ Click \/ ClickElsewhere
  BY <1>15, <1>5, <1>6 DEF TapConnect, Click, ClickElsewhere, proxy
<1>16. CASE Answer \/ Select \/ Import
  BY <1>16 DEF Answer, Select, Import, StartRequest, StopRequest, proxy
<1> QED
  BY <1>1, <1>2, <1>3, <1>8, <1>9, <1>10, <1>11, <1>12, <1>13, <1>14, <1>15, <1>16
     DEF Next, Works, User

-----------------------------------------------------------------------------
(* The connections.                                                        *)

LEMMA LinkTypeStep ==
  ASSUME ProxyType, LinkType, Next \/ UNCHANGED vars
  PROVE  LinkType'
<1> USE DEF LinkType
<1>1. CASE UNCHANGED links
  BY <1>1 DEF links
<1>2. ASSUME NEW c \in Clients, LinkStep(c) PROVE LinkType'
  <2> DEFINE Others == UNCHANGED <<looper, calls>>
  <2>1. looper[c] \in Seq(Message) /\ calls[c] \in Seq({"register", "unregister"})
    OBVIOUS
  <2>2. CASE Connect(c)
    BY <2>2 DEF Connect
  <2>3. CASE Fresh(c)
    BY <2>3 DEF Fresh
  <2>4. CASE Asks(c)
    BY <2>4 DEF Asks
  <2>5. CASE Heard(c)
    <3>1. Tail(looper[c]) \in Seq(Message)
      BY <2>1, <2>5, TailFacts DEF Heard
    <3> QED
      BY <2>5, <3>1 DEF Heard, Pop
  <2>6. CASE Publish(c)
    <3>1. Append(looper[c], "connected") \in Seq(Message)
      BY <2>1, AppendFacts DEF Message
    <3> QED
      BY <2>6, <3>1 DEF Publish, Post
  <2>7. CASE RunCall(c)
    <3>1. Tail(calls[c]) \in Seq({"register", "unregister"})
      BY <2>1, <2>7, TailFacts DEF RunCall
    <3> QED
      BY <2>7, <3>1 DEF RunCall
  <2>8. CASE Connected(c)
    <3>1. Tail(looper[c]) \in Seq(Message)
      BY <2>1, <2>8, TailFacts DEF Connected, First
    <3>2. Append(calls[c], "register") \in Seq({"register", "unregister"})
      BY <2>1, AppendFacts
    <3> QED
      BY <2>8, <3>1, <3>2 DEF Connected, Pop
  <2>9. CASE Disconnected(c)
    <3>1. Tail(looper[c]) \in Seq(Message)
      BY <2>1, <2>9, TailFacts DEF Disconnected, First
    <3> QED
      BY <2>9, <3>1 DEF Disconnected, Pop, UnregisterCallback
  <2> QED
    BY <1>2, <2>2, <2>3, <2>4, <2>5, <2>6, <2>7, <2>8, <2>9 DEF LinkStep
<1>3. CASE Disconnect("tile")
  <2>1. "tile" \in Clients
    BY DEF Clients
  <2>2. RemoveFirst(RemoveFirst(looper["tile"], "connected"), "died") \in Seq(Message)
    BY <2>1, RemoveFacts
  <2>3. Append(calls["tile"], "unregister") \in Seq({"register", "unregister"})
    BY <2>1, AppendFacts
  <2>4. calls' \in [Clients -> Seq({"register", "unregister"})]
    BY <1>3, <2>1, <2>3 DEF Disconnect, ServiceReleased, Called
  <2> QED
    BY <1>3, <2>1, <2>2, <2>4 DEF Disconnect, ServiceReleased, UnregisterCallback
<1>4. CASE TellClients
  <2>1. \A c \in Clients : Append(looper[c], Told(c)) \in Seq(Message)
    BY AppendFacts DEF Told, Message, ProxyType
  <2> QED
    BY <1>4, <2>1 DEF TellClients
<1>5. CASE ProxyDies
  <2>1. \A c \in Clients : Append(looper[c], "died") \in Seq(Message)
    BY AppendFacts DEF Message
  <2>2. \A c \in Clients : RemoveFirst(looper[c], "connected") \in Seq(Message)
    BY RemoveFacts
  <2>3. conn' \in [Clients -> {"unbound", "bound", "published", "active"}]
        /\ service' \in [Clients -> {"null", "live", "dead"}]
        /\ calls' \in [Clients -> Seq({"register", "unregister"})] /\ callbacks' \subseteq Clients
    BY <1>5 DEF ProxyDies
  <2>4. looper' \in [Clients -> Seq(Message)]
    BY <1>5, <2>1, <2>2 DEF ProxyDies
  <2> QED
    BY <1>5, <2>3, <2>4 DEF ProxyDies
<1> QED
  BY <1>1, <1>2, <1>3, <1>4, <1>5, NextIsLink DEF vars

(* The main thread of a client takes its first message.                    *)
LEMMA AtFirst ==
  ASSUME LinkType, NEW c \in Clients, looper[c] # << >>, LooperOK(c), Pop(c)
  PROVE  /\ looper'[c] = Tail(looper[c]) /\ Ordered(looper'[c])
         /\ ToSet(looper[c]) = ToSet(looper'[c]) \cup {Head(looper[c])}
         /\ Head(looper[c]) \in {"connected", "died"} => Head(looper[c]) \notin ToSet(looper'[c])
         /\ Head(looper[c]) = "connected" => "died" \notin ToSet(looper[c])
         /\ \A d \in Clients \ {c} : looper'[d] = looper[d]
<1>1. looper[c] \in Seq(Message) /\ looper'[c] = Tail(looper[c])
      /\ \A d \in Clients \ {c} : looper'[d] = looper[d]
  BY DEF LinkType, Pop
<1> QED
  BY <1>1, TailFacts, TailOrdered DEF LooperOK

(* The callback is not registered when a new binder comes.                 *)
LEMMA NewBinder ==
  ASSUME LinkType, NEW c \in Clients, LinkOK(c), LooperOK(c), First(c, "connected")
  PROVE  /\ ~ registered[c] /\ conn[c] = "published" /\ service[c] = "null"
         /\ "died" \notin ToSet(looper[c]) /\ proc
<1>1. looper[c] \in Seq(Message) /\ looper[c] # << >> /\ Head(looper[c]) = "connected"
  BY DEF LinkType, First
<1>2. "connected" \in ToSet(looper[c]) /\ "died" \notin ToSet(looper[c])
  BY <1>1, TailFacts, TailOrdered DEF LooperOK
<1>3. service[c] \in {"null", "live", "dead"}
  BY DEF LinkType
<1> QED
  BY <1>2, <1>3 DEF LinkOK, LooperOK

(* The steps of a connection, of the proxy that tells and of one that dies *)
(* keep what is required of every connection.                              *)
LEMMA LinkStepKeeps ==
  ASSUME LinkType, NEW c \in Clients, \A d \in Clients : LinkOK(d) /\ LooperOK(d),
         LinkStep(c), proc' = proc, NEW d \in Clients
  PROVE  LinkOK(d)' /\ LooperOK(d)'
<1> USE DEF LinkType, LinkOK, LooperOK
<1>1. CASE Connect(c)
  BY <1>1 DEF Connect
<1>2. CASE Fresh(c)
  <2>1. ToSet(<< >>) = {} /\ Ordered(<< >>)
    BY EmptySet DEF Ordered
  <2> QED
    BY <1>2, <2>1 DEF Fresh
<1>3. CASE Asks(c)
  BY <1>3 DEF Asks
<1>4. CASE Heard(c)
  <2>1. /\ ToSet(looper[c]) = ToSet(looper'[c]) \cup {Head(looper[c])} /\ Ordered(looper'[c])
        /\ \A e \in Clients \ {c} : looper'[e] = looper[e]
    BY <1>4, AtFirst DEF Heard
  <2>2. UNCHANGED <<connected, conn, service, registered>> /\ Head(looper[c]) # "died"
    BY <1>4 DEF Heard
  <2> QED
    BY <2>1, <2>2
<1>5. CASE Publish(c)
  <2>1. looper[c] \in Seq(Message) /\ "connected" \in Message
    BY DEF Message
  <2>2. Ordered(Append(looper[c], "connected"))
        /\ ToSet(Append(looper[c], "connected")) = ToSet(looper[c]) \cup {"connected"}
    <3>1. "connected" \notin ToSet(looper[c])
      BY <1>5 DEF Publish
    <3> QED
      BY <2>1, <3>1, AppendOrdered, AppendFacts
  <2> QED
    BY <1>5, <2>2 DEF Publish, Post
<1>6. CASE RunCall(c)
  BY <1>6 DEF RunCall
<1>7. CASE Connected(c)
  <2>1. looper[c] # << >> /\ Pop(c) /\ Head(looper[c]) = "connected"
    BY <1>7 DEF Connected, First
  <2>2. ~ registered[c] /\ conn[c] = "published" /\ "died" \notin ToSet(looper[c]) /\ proc
    BY <1>7, NewBinder DEF Connected
  <2>3. /\ conn' = [conn EXCEPT ![c] = "active"] /\ service' = [service EXCEPT ![c] = "live"]
        /\ registered' = [registered EXCEPT ![c] = TRUE] /\ connected' = connected
    BY <1>7 DEF Connected
  <2> QED
    BY <2>1, <2>2, <2>3, AtFirst
<1>8. CASE Disconnected(c)
  <2>1. looper[c] # << >> /\ Pop(c) /\ Head(looper[c]) = "died"
    BY <1>8 DEF Disconnected, First
  <2>2. /\ registered' = [registered EXCEPT ![c] = FALSE]
        /\ service' = [service EXCEPT ![c] = "null"] /\ UNCHANGED <<conn, connected>>
    BY <1>8 DEF Disconnected, UnregisterCallback
  <2> QED
    BY <2>1, <2>2, AtFirst
<1> QED
  BY <1>1, <1>2, <1>3, <1>4, <1>5, <1>6, <1>7, <1>8 DEF LinkStep

LEMMA DisconnectKeeps ==
  ASSUME LinkType, \A d \in Clients : LinkOK(d) /\ LooperOK(d),
         Disconnect("tile"), proc' = proc, NEW d \in Clients
  PROVE  LinkOK(d)' /\ LooperOK(d)'
<1> DEFINE s == RemoveFirst(looper["tile"], "connected")  t == RemoveFirst(s, "died")
<1>1. "tile" \in Clients /\ looper["tile"] \in Seq(Message)
  BY DEF Clients, LinkType
<1>2. s \in Seq(Message) /\ Ordered(s) /\ t \in Seq(Message) /\ Ordered(t)
  BY <1>1, RemoveFacts, RemoveOrdered DEF LooperOK
<1>3. "connected" \notin ToSet(s)
  BY <1>1, RemoveKeeps DEF LooperOK, Ordered
<1>4. "connected" \notin ToSet(t) /\ "died" \notin ToSet(t)
  BY <1>2, <1>3, RemoveKeeps DEF Ordered
<1>5. looper' = [looper EXCEPT !["tile"] = t]
  BY DEF Disconnect
<1> HIDE DEF s, t
<1>6. /\ connected' = [connected EXCEPT !["tile"] = FALSE]
      /\ conn' = [conn EXCEPT !["tile"] = "unbound"]
      /\ service' = [service EXCEPT !["tile"] = "null"]
      /\ registered' = [registered EXCEPT !["tile"] = FALSE]
  BY DEF Disconnect, ServiceReleased, UnregisterCallback
<1> QED
  BY <1>1, <1>2, <1>4, <1>5, <1>6 DEF LinkType, LinkOK, LooperOK

LEMMA TellKeeps ==
  ASSUME ProxyType, LinkType, \A d \in Clients : LinkOK(d) /\ LooperOK(d),
         TellClients, proc' = proc, NEW d \in Clients
  PROVE  LinkOK(d)' /\ LooperOK(d)'
<1>1. looper[d] \in Seq(Message) /\ Told(d) \in Message \ {"connected", "died"}
  BY DEF LinkType, Told, ProxyType, Message, ProxyState
<1>2. /\ Ordered(Append(looper[d], Told(d)))
      /\ ToSet(Append(looper[d], Told(d))) = ToSet(looper[d]) \cup {Told(d)}
  BY <1>1, AppendOrdered, AppendFacts DEF LooperOK
<1>3. looper'[d] = looper[d] \/ looper'[d] = Append(looper[d], Told(d))
  BY DEF TellClients
<1>4. UNCHANGED <<connected, conn, service, registered>>
  BY DEF TellClients
<1> QED
  BY <1>1, <1>2, <1>3, <1>4 DEF LinkOK, LooperOK

LEMMA DiesKeeps ==
  ASSUME LinkType, NEW d \in Clients, LinkOK(d), LooperOK(d), ProxyDies
  PROVE  LinkOK(d)' /\ LooperOK(d)'
<1>1. looper[d] \in Seq(Message) /\ "died" \in Message
      /\ conn[d] \in {"unbound", "bound", "published", "active"}
      /\ service[d] \in {"null", "live", "dead"}
  BY DEF LinkType, Message
<1>2. /\ connected' = connected /\ registered' = registered
      /\ conn'[d] = IF conn[d] = "unbound" THEN "unbound" ELSE "bound"
      /\ service'[d] = IF service[d] = "live" THEN "dead" ELSE service[d]
      /\ looper'[d] = IF conn[d] = "active" THEN Append(looper[d], "died")
                      ELSE RemoveFirst(looper[d], "connected")
  BY DEF ProxyDies
<1>3. CASE conn[d] = "active"
  <2>1. /\ Ordered(Append(looper[d], "died"))
        /\ ToSet(Append(looper[d], "died")) = ToSet(looper[d]) \cup {"died"}
    BY <1>1, <1>3, AppendOrdered, AppendFacts DEF LooperOK
  <2> QED
    BY <1>1, <1>2, <1>3, <2>1 DEF LinkOK, LooperOK
<1>4. CASE conn[d] # "active"
  <2> DEFINE t == RemoveFirst(looper[d], "connected")
  <2>1. Ordered(t)
    BY <1>1, RemoveOrdered DEF LooperOK
  <2>2. "connected" \notin ToSet(t)
    BY <1>1, RemoveKeeps DEF LooperOK, Ordered
  <2>3. "died" \in ToSet(looper[d]) => "died" \in ToSet(t)
    BY <1>1, RemoveKeeps
  <2> HIDE DEF t
  <2>4. looper'[d] = t
    BY <1>2, <1>4 DEF t
  <2> QED
    BY <1>1, <1>2, <1>4, <2>1, <2>2, <2>3, <2>4 DEF LinkOK, LooperOK
<1> QED
  BY <1>3, <1>4

LEMMA LinkInvStep ==
  ASSUME ProxyType, LinkType, LinkInv, LooperInv, Next \/ UNCHANGED vars
  PROVE  LinkInv' /\ LooperInv'
<1>1. \A d \in Clients : LinkOK(d) /\ LooperOK(d)
  BY DEF LinkInv, LooperInv, LinkOK, LooperOK
<1>2. ASSUME NEW d \in Clients PROVE LinkOK(d)' /\ LooperOK(d)'
  <2>1. CASE UNCHANGED links /\ (proc => proc')
    BY <1>1, <2>1 DEF links, LinkOK, LooperOK
  <2> QED
    BY <1>1, <2>1, NextIsLink, LinkStepKeeps, DisconnectKeeps, TellKeeps, DiesKeeps
       DEF vars, links, proxy
<1> QED
  BY <1>2 DEF LinkInv, LooperInv, LinkOK, LooperOK

(* twice stays FALSE.                                                      *)
LEMMA NeverTwice ==
  ASSUME LinkType, LinkInv, LooperInv, ~ twice, Next \/ UNCHANGED vars
  PROVE  ~ twice'
<1>1. ASSUME NEW c \in Clients, Connected(c) PROVE ~ twice'
  <2>1. LinkOK(c) /\ LooperOK(c)
    BY DEF LinkInv, LooperInv, LinkOK, LooperOK
  <2>2. ~ registered[c]
    BY <2>1, <1>1, NewBinder DEF Connected
  <2> QED
    BY <2>2, <1>1 DEF Connected
<1>2. ASSUME NEW c \in Clients, LinkStep(c) PROVE ~ twice'
  BY <1>1, <1>2 DEF LinkStep, Connect, Fresh, Asks, Heard, Publish, RunCall, Disconnected
<1>3. CASE Disconnect("tile") \/ TellClients \/ ProxyDies \/ UNCHANGED links
  BY <1>3 DEF Disconnect, ServiceReleased, TellClients, ProxyDies, links
<1> QED
  BY <1>2, <1>3, NextIsLink DEF vars, links

-----------------------------------------------------------------------------
(* The activity, the files and the flags.                                  *)

LEMMA ActivityParts ==
  ActivityType <=>
    /\ proxyState \in ProxyState /\ instance \in Servers \cup {None}
    /\ file \in Servers \cup {None} /\ serving \in Servers \cup {None}
    /\ isReconnection \in BOOLEAN /\ enabled \in BOOLEAN /\ dialog \in BOOLEAN
    /\ refused \in BOOLEAN /\ tap_pending \in BOOLEAN /\ consented \in BOOLEAN
    /\ unread \in BOOLEAN /\ lost \in BOOLEAN
BY DEF ActivityType

LEMMA SetConnectionType ==
  ASSUME ActivityType, NEW s, SetConnection(s)
  PROVE  file' \in Servers \cup {None} /\ dialog' \in BOOLEAN /\ refused' \in BOOLEAN
BY ActivityParts DEF SetConnection, Saved

LEMMA ActivityTypeStep ==
  ASSUME ProxyType, ActivityType, Next \/ UNCHANGED vars
  PROVE  ActivityType'
<1> SUFFICES (/\ proxyState \in ProxyState /\ instance \in Servers \cup {None}
              /\ file \in Servers \cup {None} /\ serving \in Servers \cup {None}
              /\ isReconnection \in BOOLEAN /\ enabled \in BOOLEAN /\ dialog \in BOOLEAN
              /\ refused \in BOOLEAN /\ tap_pending \in BOOLEAN /\ consented \in BOOLEAN
              /\ unread \in BOOLEAN /\ lost \in BOOLEAN)'
  BY DEF ActivityType
<1> USE ActivityParts
<1>1. CASE UNCHANGED <<activity, tap_pending, configs, lost>>
  BY <1>1 DEF activity, configs
<1>2. CASE Announce
  BY <1>2 DEF Announce, activity
<1>3. CASE ProxyDies
  BY <1>3 DEF ProxyDies, activity
<1>4. CASE Launch
  BY <1>4 DEF Launch, configs
<1>5. CASE GoneActivity /\ UNCHANGED <<tap_pending, configs>>
  BY <1>5 DEF GoneActivity, configs, ProxyState
<1>6. CASE AskState
  BY <1>6, <1>5 DEF AskState, configs, ProxyType
<1>7. CASE TapConnect
  BY <1>7, SetConnectionType DEF TapConnect
<1>8. CASE Answer
  BY <1>8 DEF Answer
<1>9. CASE Select
  BY <1>9 DEF Select, configs
<1>10. CASE Import
  BY <1>10 DEF Import
<1>11. CASE StateChanged
  <2>1. PICK s \in ProxyState :
          /\ proxyState' = s /\ enabled' = TRUE
          /\ IF s = "STOPPED" /\ isReconnection
             THEN isReconnection' = Reconnected /\ lost' = FALSE /\ SetConnection(s)
             ELSE UNCHANGED <<proxy, isReconnection, lost, file, dialog, refused>>
          /\ UNCHANGED <<instance, tap_pending, serving, unread, consented>>
    BY <1>11 DEF StateChanged
  <2>2. CASE s = "STOPPED" /\ isReconnection
    <3>1. file' \in Servers \cup {None} /\ dialog' \in BOOLEAN /\ refused' \in BOOLEAN
      BY <2>1, <2>2, SetConnectionType
    <3> QED
      BY <2>1, <2>2, <3>1 DEF Reconnected
  <2>3. CASE ~ (s = "STOPPED" /\ isReconnection)
    BY <2>1, <2>3
  <2> QED
    BY <2>2, <2>3
<1>12. CASE Click
  BY <1>12 DEF Click, activity, configs
<1>13. CASE TileAsks
  BY <1>13 DEF TileAsks, activity, configs
<1>14. CASE TileState
  BY <1>14 DEF TileState, activity, configs
<1>15. CASE TellClients \/ ProxyWorks
  BY <1>15, <1>1 DEF TellClients, ProxyWorks
<1>16. ASSUME NEW c \in Clients, Publish(c) \/ RunCall(c) \/ Looper(c)
       PROVE UNCHANGED <<activity, tap_pending, configs, lost>>
  BY <1>16 DEF Publish, RunCall, Looper, Connected, Disconnected
<1>17. CASE StartListening \/ StopListening \/ ClickElsewhere
  BY <1>17, <1>1 DEF StartListening, StopListening, ClickElsewhere
<1>18. CASE Exit
  BY <1>18, <1>5 DEF Exit
<1> QED
  BY <1>1, <1>2, <1>3, <1>4, <1>6, <1>7, <1>8, <1>9, <1>10, <1>11, <1>12, <1>13,
     <1>14, <1>15, <1>16, <1>17, <1>18 DEF Next, Works, User, vars

(* Every step keeps the types.                                             *)
LEMMA TypeStep ==
  ASSUME Types, ScriptInv, Next \/ UNCHANGED vars
  PROVE  Types' /\ ScriptInv'
<1>1. ProxyType /\ LinkType /\ ActivityType
  BY TypeParts
<1>2. ProxyNext \/ UNCHANGED proxy
  BY NextIsProxy DEF vars
<1>3. ProxyType' /\ ScriptInv'
  BY <1>1, <1>2, ProxyStep
<1>4. LinkType' /\ ActivityType'
  BY <1>1, LinkTypeStep, ActivityTypeStep
<1>5. (ProxyType /\ LinkType /\ ActivityType)' => Types'
  BY DEF Types, ProxyType, LinkType, ActivityType, Message, Step
<1> QED
  BY <1>3, <1>4, <1>5

-----------------------------------------------------------------------------
(* The calls of the activity.                                              *)

LEMMA CallLinkStep ==
  ASSUME LinkType, LinkInv, LooperInv, CallInv, NEW c \in Clients, LinkStep(c)
  PROVE  CallInv'
<1> DEFINE A == "activity"
<1>1. /\ A \in Clients /\ looper[A] \in Seq(Message) /\ LinkOK(A) /\ LooperOK(A)
      /\ "tile" \in Clients /\ calls[A] \in Seq({"register", "unregister"})
  BY DEF Clients, LinkType, LinkInv, LooperInv, LinkOK, LooperOK
<1>2. CASE c # A
  <2>1. c = "tile"
    BY <1>2 DEF Clients
  <2>2. /\ conn'[A] = conn[A] /\ looper'[A] = looper[A] /\ calls'[A] = calls[A]
        /\ A \in callbacks' <=> A \in callbacks
    <3>1. \/ looper' = looper
          \/ \E s : looper' = [looper EXCEPT ![c] = s]
      BY DEF LinkStep, Connect, Fresh, Asks, Heard, Publish, RunCall, Connected,
             Disconnected, Pop, Post
    <3>2. /\ (conn' = conn \/ \E s : conn' = [conn EXCEPT ![c] = s])
          /\ (calls' = calls \/ \E s : calls' = [calls EXCEPT ![c] = s])
          /\ callbacks' \in {callbacks, callbacks \cup {c}, callbacks \ {c}}
      BY DEF LinkStep, Connect, Fresh, Asks, Heard, Publish, RunCall, Connected, Disconnected
    <3> QED
      BY <3>1, <3>2, <1>1, <1>2 DEF LinkType
  <2> QED
    BY <2>2 DEF CallInv
<1>3. CASE c = A
  <2>1. CASE Connect(c)
    BY <2>1, <1>1, <1>3 DEF Connect, CallInv, LinkOK, LinkType
  <2>2. CASE Fresh(c)
    BY <2>2, <1>1, <1>3 DEF Fresh, CallInv, LinkType
  <2>3. CASE Asks(c)
    BY <2>3 DEF Asks, CallInv
  <2>4. CASE Heard(c) \/ Disconnected(c)
    <3>1. /\ looper[A] # << >> /\ looper'[A] = Tail(looper[A]) /\ Head(looper[A]) # "connected"
          /\ UNCHANGED <<conn, calls, callbacks>>
      BY <2>4, <1>1, <1>3 DEF Heard, Disconnected, First, Pop, LinkType
    <3>2. looper'[A] # << >> => Final(looper'[A]) = Final(looper[A])
      BY <3>1, <1>1, TailFacts
    <3>3. looper'[A] = << >> => Final(looper[A]) = Head(looper[A])
      BY <3>1, <1>1, TailFacts
    <3> QED
      BY <3>1, <3>2, <3>3 DEF CallInv
  <2>5. CASE Publish(c)
    <3>1. looper'[A] = Append(looper[A], "connected") /\ conn'[A] = "published"
          /\ conn[A] = "bound" /\ UNCHANGED <<calls, callbacks>>
      BY <2>5, <1>1, <1>3 DEF Publish, Post, LinkType
    <3>2. looper'[A] # << >> /\ Final(looper'[A]) = "connected"
      BY <3>1, <1>1, AppendFacts DEF Message
    <3> QED
      BY <3>1, <3>2 DEF CallInv
  <2>6. CASE RunCall(c)
    <3>1. calls[A] = <<"register">>
      BY <2>6, <1>3 DEF RunCall, CallInv
    <3>2. Tail(calls[A]) = << >> /\ Head(calls[A]) = "register" /\ calls[A] # << >>
      BY <3>1
    <3>3. calls'[A] = << >> /\ A \in callbacks' /\ UNCHANGED <<conn, looper>>
      BY <2>6, <1>1, <1>3, <3>2 DEF RunCall, LinkType
    <3>4. conn[A] = "active"
      BY <3>2 DEF CallInv
    <3> QED
      BY <3>3, <3>4 DEF CallInv
  <2>7. CASE Connected(c)
    <3>1. /\ looper[A] # << >> /\ Head(looper[A]) = "connected" /\ conn[A] = "published"
          /\ Pop(A) /\ "died" \notin ToSet(looper[A])
      BY <2>7, <1>1, <1>3, NewBinder DEF Connected, First
    <3>2. looper'[A] = Tail(looper[A]) /\ "connected" \notin ToSet(looper'[A])
      BY <3>1, <1>1, AtFirst
    <3>3. looper'[A] # << >> => Final(looper'[A]) = "connected"
      BY <3>1, <3>2, <1>1, TailFacts DEF CallInv
    <3>4. looper'[A] # << >> => Final(looper'[A]) \in ToSet(looper'[A])
      <4>1. looper'[A] \in Seq(Message)
        BY <3>1, <3>2, <1>1, TailFacts
      <4>2. looper'[A] # << >> => Len(looper'[A]) \in DOMAIN looper'[A]
        BY <4>1
      <4> QED
        BY <4>2 DEF Final, ToSet
    <3>5. looper'[A] = << >>
      BY <3>2, <3>3, <3>4
    <3>6. calls[A] = << >> /\ A \notin callbacks
      BY <3>1 DEF CallInv
    <3>7. calls'[A] = <<"register">> /\ calls'[A] # << >> /\ callbacks' = callbacks
          /\ conn'[A] = "active"
      <4>1. calls'[A] = Append(<< >>, "register")
        BY <2>7, <1>1, <1>3, <3>6 DEF Connected, LinkType
      <4>2. Append(<< >>, "register") = <<"register">> /\ <<"register">> # << >>
        OBVIOUS
      <4> QED
        BY <4>1, <4>2, <2>7, <1>1, <1>3 DEF Connected, LinkType
    <3> QED
      BY <3>5, <3>6, <3>7 DEF CallInv
  <2> QED
    BY <2>1, <2>2, <2>3, <2>4, <2>5, <2>6, <2>7 DEF LinkStep
<1> QED
  BY <1>2, <1>3

(* Every step keeps the registration of the activity one call long.        *)
LEMMA CallStep ==
  ASSUME Types, LinkInv, LooperInv, CallInv, Next \/ UNCHANGED vars
  PROVE  CallInv'
<1> DEFINE A == "activity"
<1>1. LinkType /\ ProxyType /\ A \in Clients /\ A # "tile"
  BY TypeParts DEF Clients
<1>2. CASE UNCHANGED links
  BY <1>2 DEF links, CallInv
<1>3. CASE Disconnect("tile")
  <2>1. /\ conn'[A] = conn[A] /\ looper'[A] = looper[A] /\ calls'[A] = calls[A]
        /\ callbacks' = callbacks
    BY <1>1, <1>3 DEF LinkType, Disconnect, Called
  <2> QED
    BY <2>1 DEF CallInv
<1>4. CASE TellClients
  <2>1. UNCHANGED <<conn, calls, callbacks>>
        /\ (A \notin callbacks => looper'[A] = looper[A])
    BY <1>1, <1>4 DEF TellClients
  <2> QED
    BY <2>1 DEF CallInv
<1>5. CASE ProxyDies
  <2>1. conn'[A] \in {"unbound", "bound"} /\ calls'[A] = << >> /\ callbacks' = {}
    BY <1>1, <1>5 DEF ProxyDies
  <2> QED
    BY <2>1 DEF CallInv
<1> QED
  BY <1>1, <1>2, <1>3, <1>4, <1>5, CallLinkStep, NextIsLink DEF vars, links

-----------------------------------------------------------------------------
(* What the activity sees.                                                 *)

LEMMA ViewFrame ==
  ASSUME ViewInv, proxyState' = proxyState, state' = state, missed' = missed,
         conn'["activity"] = conn["activity"], looper'["activity"] = looper["activity"],
         asking'["activity"] = asking["activity"], Telling => Telling'
  PROVE  ViewInv'
BY DEF ViewInv

LEMMA NotActive ==
  ASSUME conn'["activity"] # "active"
  PROVE  ViewInv' /\ ButtonInv'
BY DEF ViewInv, ButtonInv, Disabled

(* The steps of a connection change nothing the activity sees unless they  *)
(* are its own.                                                            *)
LEMMA TileLinks ==
  ASSUME LinkType, Connect("tile") \/ Disconnect("tile") \/ Fresh("tile")
                   \/ Asks("tile") \/ Heard("tile") \/ Publish("tile") \/ RunCall("tile")
                   \/ Connected("tile") \/ Disconnected("tile")
  PROVE  /\ conn'["activity"] = conn["activity"] /\ looper'["activity"] = looper["activity"]
         /\ asking'["activity"] = asking["activity"] /\ missed' = missed
         /\ connected'["activity"] = connected["activity"]
<1>1. /\ looper' = looper \/ \E s : looper' = [looper EXCEPT !["tile"] = s]
      /\ asking' = asking \/ \E s : asking' = [asking EXCEPT !["tile"] = s]
  BY DEF Connect, Disconnect, Fresh, Asks, Heard, Publish, RunCall, Connected, Disconnected,
         Pop, Post
<1>2. /\ conn' = conn \/ \E s : conn' = [conn EXCEPT !["tile"] = s]
      /\ connected' = connected \/ \E s : connected' = [connected EXCEPT !["tile"] = s]
  BY DEF Connect, Disconnect, Fresh, Asks, Heard, Publish, RunCall, Connected, Disconnected
<1>3. missed' = missed
  BY DEF Connect, Disconnect, Fresh, Asks, Heard, Publish, RunCall, Connected, Disconnected,
         LinkType
<1> QED
  BY <1>1, <1>2, <1>3 DEF LinkType, Clients

LEMMA DoingKept ==
  ASSUME StartRequest \/ StopRequest \/ UNCHANGED proxy \/ \E b \in BOOLEAN : Bind(b)
  PROVE  doing' = doing /\ state' = state /\ proc' = proc /\ (Telling <=> Telling')
BY DEF StartRequest, StopRequest, proxy, Bind, Telling

LEMMA BindsOnly ==
  ASSUME NEW c, Connect(c) \/ Disconnect(c) \/ Fresh(c)
  PROVE  \E b \in BOOLEAN : Bind(b)
BY DEF Connect, Disconnect, Fresh

(* Every step keeps the view of the activity.                              *)
LEMMA ViewStep ==
  ASSUME Types, ScriptInv, LinkInv, LooperInv, CallInv, ViewInv, Next \/ UNCHANGED vars
  PROVE  ViewInv'
<1> DEFINE A == "activity"
<1>1. /\ LinkType /\ ProxyType /\ A \in Clients /\ looper[A] \in Seq(Message)
      /\ LinkOK(A) /\ LooperOK(A) /\ "tile" \in Clients /\ A # "tile"
  BY TypeParts DEF Clients, LinkType, LinkInv, LooperInv, LinkOK, LooperOK
<1>2. CASE UNCHANGED <<links, proxyState, doing, state>>
  BY <1>2, ViewFrame DEF links, Telling
<1>3. CASE TellClients
  <2>1. /\ UNCHANGED <<conn, asking, proxyState>> /\ state' = state
        /\ looper'[A] = IF A \in callbacks /\ connected[A] THEN Append(looper[A], state)
                        ELSE looper[A]
        /\ missed' = (missed \/ (conn[A] = "active" /\ ~ asking[A] /\ A \notin callbacks))
    BY <1>3, <1>1 DEF TellClients, Tell, Told, activity
  <2>2. CASE conn[A] = "active" /\ A \in callbacks
    <3>1. looper'[A] = Append(looper[A], state) /\ state \in Message
      BY <2>1, <2>2, <1>1 DEF LinkOK, ProxyType, Message
    <3>2. looper'[A] # << >> /\ Final(looper'[A]) = state
      BY <3>1, <1>1, AppendFacts
    <3> QED
      BY <3>2, <2>1 DEF ViewInv
  <2>3. CASE conn[A] = "active" /\ A \notin callbacks
    <3>1. looper'[A] = << >>
      BY <2>1, <2>3 DEF CallInv
    <3> QED
      BY <3>1, <2>1, <2>3 DEF ViewInv
  <2>4. CASE conn[A] # "active"
    BY <2>1, <2>4, NotActive
  <2> QED
    BY <2>2, <2>3, <2>4
<1>4. CASE Announce
  <2>1. doing # << >> /\ doing' = Tail(doing) /\ Head(doing) \in ProxyState
    BY <1>4 DEF Announce, Assign, Next1
  <2>2. Telling'
    BY <2>1, <1>1, ScriptTail DEF Telling, ScriptInv, ProxyType
  <2> QED
    BY <2>2 DEF ViewInv
<1>5. CASE ProxyWorks
  <2>1. UNCHANGED <<links, proxyState>> /\ state' = state
    BY <1>5 DEF ProxyWorks, Handle, StopSelf, Return, Detour, Create, activity
  <2>2. CASE Create
    BY <2>1, <2>2, <1>2 DEF Create
  <2>3. CASE Handle \/ StopSelf \/ Return \/ Detour
    <3>1. ~ Telling
      BY <2>3, BegunFacts DEF Handle, StopSelf, Return, Detour, Next1, Telling
    <3> QED
      BY <2>1, <3>1, ViewFrame DEF links
  <2> QED
    BY <1>5, <2>2, <2>3 DEF ProxyWorks
<1>6. CASE ProxyDies
  <2>1. conn'[A] # "active"
    BY <1>6, <1>1 DEF ProxyDies
  <2> QED
    BY <2>1, NotActive
<1>7. CASE GoneActivity \/ Launch
  <2>1. conn'[A] # "active"
    BY <1>7, <1>1 DEF GoneActivity, Launch, Fresh, Connect, LinkType
  <2> QED
    BY <2>1, NotActive
<1>8. CASE AskState
  <2>1. CASE GoneActivity
    BY <2>1, <1>7
  <2>2. CASE /\ asking' = [asking EXCEPT ![A] = FALSE] /\ proxyState' = state
             /\ UNCHANGED <<proxy, conn, looper, missed>>
    BY <2>2, <1>1 DEF ViewInv, proxy, Telling
  <2> QED
    BY <1>8, <2>1, <2>2 DEF AskState
<1>9. CASE StateChanged
  <2>1. PICK s \in ProxyState :
          /\ looper[A] # << >> /\ Head(looper[A]) = s /\ Pop(A) /\ proxyState' = s
          /\ SetConnection(s) \/ UNCHANGED proxy
    BY <1>9 DEF StateChanged, First
  <2>2. UNCHANGED <<conn, missed, asking>>
    BY <1>9 DEF StateChanged
  <2>3. state' = state /\ (Telling <=> Telling')
    BY <2>1, SetConnectionProxy, DoingKept
  <2>4. looper'[A] = Tail(looper[A])
    BY <2>1, <1>1, AtFirst
  <2>5. /\ looper'[A] # << >> => Final(looper'[A]) = Final(looper[A])
        /\ looper'[A] = << >> => Final(looper[A]) = s
    BY <2>1, <2>4, <1>1, TailFacts
  <2> QED
    BY <2>1, <2>2, <2>3, <2>5 DEF ViewInv
<1>10. CASE TapConnect \/ Answer \/ Select \/ Import \/ ClickElsewhere \/ Click
  <2>1. StartRequest \/ StopRequest \/ UNCHANGED proxy
    BY <1>10, SetConnectionProxy, ToggleProxy
       DEF TapConnect, Answer, Select, Import, ClickElsewhere, Click
  <2>2. UNCHANGED <<links, proxyState>>
    BY <1>10 DEF TapConnect, Answer, Select, Import, ClickElsewhere, Click, activity
  <2> QED
    BY <2>1, <2>2, <1>2, DoingKept
<1>11. ASSUME Publish(A) \/ RunCall(A) \/ Looper(A) PROVE ViewInv'
  <2>1. CASE RunCall(A)
    BY <2>1, ViewFrame DEF RunCall, proxy, activity, Telling
  <2>2. CASE Publish(A)
    <3>1. conn'[A] # "active"
      BY <2>2, <1>1 DEF Publish, LinkType
    <3> QED
      BY <3>1, NotActive
  <2>3. CASE Connected(A)
    <3>1. CallInv'
      BY <2>3, <1>1, CallLinkStep DEF LinkStep
    <3>2. A \notin callbacks' /\ conn'[A] = "active" /\ asking'[A]
      <4>1. conn[A] = "published"
        BY <2>3, <1>1, NewBinder DEF Connected
      <4> QED
        BY <2>3, <4>1, <1>1 DEF Connected, CallInv, LinkType
    <3>3. looper'[A] = << >>
      BY <3>1, <3>2 DEF CallInv
    <3> QED
      BY <3>2, <3>3 DEF ViewInv
  <2>4. CASE Disconnected(A)
    <3>1. "died" \in ToSet(looper[A])
      BY <2>4, <1>1, TailFacts DEF Disconnected, First
    <3>2. conn'[A] # "active"
      BY <2>4, <3>1, <1>1 DEF Disconnected, LooperOK
    <3> QED
      BY <3>2, NotActive
  <2> QED
    BY <1>11, <2>1, <2>2, <2>3, <2>4 DEF Looper
<1>12. CASE StartListening \/ StopListening \/ TileState \/ TileAsks
            \/ Publish("tile") \/ RunCall("tile") \/ Looper("tile")
  <2>1. Connect("tile") \/ Disconnect("tile") \/ Fresh("tile")
           \/ Asks("tile") \/ Heard("tile") \/ Publish("tile") \/ RunCall("tile")
           \/ Connected("tile") \/ Disconnected("tile")
    BY <1>12 DEF StartListening, StopListening, TileState, TileAsks, Looper, Asks, Heard, First
  <2>2. proxyState' = proxyState
    BY <1>12 DEF StartListening, StopListening, TileState, TileAsks, Looper, Publish,
                 RunCall, Connected, Disconnected, activity
  <2>3. StartRequest \/ StopRequest \/ UNCHANGED proxy \/ \E b \in BOOLEAN : Bind(b)
    BY <1>12, BindsOnly, ToggleProxy
       DEF StartListening, StopListening, TileState, TileAsks, Looper, Publish,
           RunCall, Connected, Disconnected
  <2> QED
    BY <1>1, <2>1, <2>2, <2>3, TileLinks, DoingKept, ViewFrame
<1>13. CASE Exit
  BY <1>13, <1>7 DEF Exit
<1>14. Clients = {A, "tile"}
  BY DEF Clients
<1>15. CASE UNCHANGED vars
  BY <1>15, <1>2 DEF vars, proxy, activity
<1> QED
  BY <1>3, <1>4, <1>5, <1>6, <1>7, <1>8, <1>9, <1>10, <1>11, <1>12, <1>13, <1>14, <1>15
     DEF Next, Works, User

-----------------------------------------------------------------------------
(* The button.                                                             *)

(* Requests come behind the one under way.                                 *)
LEMMA InboxGrows ==
  ASSUME ProxyType, ScriptInv, ScriptInv',
         StartRequest \/ StopRequest \/ UNCHANGED proxy \/ \E b \in BOOLEAN : Bind(b)
  PROVE  /\ doing' = doing /\ proc' = proc /\ ToSet(inbox) \subseteq ToSet(inbox')
         /\ Len(inbox') >= Len(inbox)
         /\ StartRequest \/ (StopRequest /\ proc) =>
              Len(inbox') > IF "return" \in ToSet(doing) THEN 1 ELSE 0
<1>1. /\ inbox \in Seq({"start", "stop"}) /\ Len(inbox) \in Nat
      /\ "return" \in ToSet(doing) => Len(inbox) >= 1
  BY TailFacts DEF ProxyType, ScriptInv
<1>2. /\ Len(Append(inbox, "start")) = Len(inbox) + 1
      /\ ToSet(inbox) \subseteq ToSet(Append(inbox, "start"))
      /\ Len(Append(inbox, "stop")) = Len(inbox) + 1
      /\ ToSet(inbox) \subseteq ToSet(Append(inbox, "stop"))
  BY <1>1, AppendFacts
<1>3. CASE StartRequest
  BY <1>1, <1>2, <1>3 DEF StartRequest
<1>4. CASE StopRequest /\ ~ StartRequest
  <2>1. CASE proc
    BY <1>1, <1>2, <1>4, <2>1 DEF StopRequest
  <2>2. CASE ~ proc
    BY <1>1, <1>4, <2>2 DEF StopRequest
  <2> QED
    BY <2>1, <2>2
<1>5. CASE UNCHANGED proxy /\ ~ StartRequest /\ ~ StopRequest
  BY <1>1, <1>5 DEF proxy
<1>6. CASE (\E b \in BOOLEAN : Bind(b)) /\ ~ StartRequest /\ ~ StopRequest
  BY <1>1, <1>6 DEF Bind
<1> QED
  BY <1>3, <1>4, <1>5, <1>6

LEMMA ButtonFrame ==
  ASSUME ButtonInv, Disabled' => Disabled, doing' = doing, Len(inbox') >= Len(inbox),
         Len(inbox) \in Nat, Len(inbox') \in Nat,
         looper'["activity"] = looper["activity"]
  PROVE  ButtonInv'
BY DEF ButtonInv

(* A tap sends a request, opens the dialog, is refused, or waits for a     *)
(* state that is still to be told.                                         *)
LEMMA TapSettles ==
  ASSUME Types, ScriptInv, ScriptInv', LinkInv, ViewInv, ButtonInv, TapConnect, Disabled'
  PROVE  \/ "tell" \in ToSet(doing') \/ looper'["activity"] # << >>
         \/ Len(inbox') > IF "return" \in ToSet(doing') THEN 1 ELSE 0
<1> DEFINE A == "activity"
<1>1. /\ ProxyType /\ ActivityType /\ A \in Clients /\ LinkOK(A)
      /\ UNCHANGED <<conn, asking, missed, looper>> /\ SetConnection(proxyState)
  BY TypeParts DEF Clients, LinkInv, LinkOK, TapConnect, links
<1>2. conn[A] = "active" /\ ~ asking[A] /\ ~ missed /\ proc /\ instance # None /\ ~ dialog'
  BY <1>1 DEF Disabled, LinkOK, SetConnection
<1>3. CASE StartRequest \/ (StopRequest /\ proc)
  BY <1>1, <1>3, InboxGrows
<1>4. CASE proxyState \in {"STARTING", "STOPPING"} /\ UNCHANGED proxy
  <2>1. doing \in Seq(Step) /\ Script(doing) /\ UNCHANGED doing
    BY <1>1, <1>4 DEF ProxyType, ScriptInv, proxy
  <2>2. CASE Telling
    BY <2>1, <2>2, TailFacts DEF Telling
  <2>3. CASE ~ Telling /\ looper[A] = << >>
    <3>1. state \in {"STARTING", "STOPPING"}
      BY <1>2, <1>4, <2>3 DEF ViewInv
    <3>2. "STARTED" \in ToSet(doing) \/ "STOPPED" \in ToSet(doing)
      BY <3>1 DEF ScriptInv
    <3> QED
      BY <2>1, <3>2, ToldNext DEF ProxyState
  <2> QED
    BY <1>1, <2>2, <2>3
<1>5. proxyState \in {"NONE", "STARTING", "STARTED", "STOPPING", "STOPPED"}
  BY <1>1, ActivityParts DEF ProxyState
<1>6. CASE proxyState \in AtRest
  BY <1>1, <1>2, <1>3, <1>6 DEF SetConnection, AtRest
<1>7. CASE proxyState = "STARTED"
  BY <1>1, <1>2, <1>3, <1>7 DEF SetConnection, AtRest
<1>8. CASE proxyState \in {"STARTING", "STOPPING"}
  BY <1>1, <1>2, <1>4, <1>8 DEF SetConnection, AtRest
<1> QED
  BY <1>5, <1>6, <1>7, <1>8 DEF AtRest

LEMMA ButtonStep ==
  ASSUME Types, ScriptInv, LinkInv, LooperInv, CallInv, ViewInv, ButtonInv,
         Next \/ UNCHANGED vars, Types', ScriptInv'
  PROVE  ButtonInv'
<1> DEFINE A == "activity"
<1>1. /\ LinkType /\ ProxyType /\ ActivityType /\ A \in Clients /\ looper[A] \in Seq(Message)
      /\ LinkOK(A) /\ LooperOK(A) /\ "tile" \in Clients /\ A # "tile"
      /\ Len(inbox) \in Nat /\ Len(inbox') \in Nat
  <2>1. ProxyType /\ ProxyType'
    BY TypeParts DEF Types, ProxyType, Step
  <2> QED
    BY <2>1, TypeParts
       DEF Clients, LinkType, LinkInv, LooperInv, LinkOK, LooperOK, ProxyType
<1> DEFINE Requests == StartRequest \/ StopRequest \/ UNCHANGED proxy \/ \E b \in BOOLEAN : Bind(b)
<1>2. ASSUME Disabled' => Disabled, Requests, looper'[A] = looper[A] PROVE ButtonInv'
  BY <1>1, <1>2, InboxGrows, ButtonFrame
<1> HIDE DEF Requests
<1>3. CASE TellClients
  <2>1. CASE conn[A] = "active" /\ A \in callbacks
    <3>1. looper'[A] = Append(looper[A], state) /\ state \in Message
      BY <1>3, <2>1, <1>1 DEF LinkOK, ProxyType, Message, TellClients, Told
    <3>2. looper'[A] # << >>
      BY <3>1, <1>1, AppendFacts
    <3> QED
      BY <3>2 DEF ButtonInv
  <2>2. CASE conn[A] = "active" /\ A \notin callbacks
    <3>1. asking'[A] \/ missed'
      BY <1>3, <2>2, <1>1 DEF TellClients, LinkType
    <3> QED
      BY <3>1 DEF ButtonInv, Disabled
  <2>3. CASE conn[A] # "active"
    BY <1>3, <2>3, NotActive DEF TellClients
  <2> QED
    BY <2>1, <2>2, <2>3
<1>4. CASE Announce
  <2>1. doing # << >> /\ doing' = Tail(doing) /\ Head(doing) \in ProxyState
    BY <1>4 DEF Announce, Assign, Next1
  <2>2. "tell" \in ToSet(doing')
    BY <2>1, <1>1, ScriptTail DEF ScriptInv, ProxyType
  <2> QED
    BY <2>2 DEF ButtonInv
<1>5. CASE ProxyWorks
  <2>1. UNCHANGED <<links, activity>>
    BY <1>5 DEF ProxyWorks
  <2>2. looper' = looper /\ (Disabled' <=> Disabled) /\ conn' = conn
    BY <2>1 DEF links, activity, Disabled
  <2>3. CASE Create
    <3>1. conn[A] # "active"
      BY <2>3, <1>1 DEF Create, LinkOK
    <3> QED
      BY <3>1, <2>2, NotActive
  <2>4. CASE Handle
    <3>1. doing' \in {Start, Stop, OnDestroy}
      BY <2>4 DEF Handle, OnDestroy
    <3> QED
      BY <3>1, ScriptFacts DEF ButtonInv
  <2>5. CASE Detour
    <3>1. doing' \in {NotThere, Stop}
      BY <2>5 DEF Detour, NotThere
    <3> QED
      BY <3>1, ScriptFacts DEF ButtonInv
  <2>6. CASE StopSelf
    <3>1. ToSet(doing) = ToSet(doing') \cup {"stopSelf"} /\ inbox' = inbox
      BY <2>6, <1>1, ScriptTail DEF StopSelf, Next1, ScriptInv, ProxyType
    <3> QED
      BY <3>1, <2>2 DEF ButtonInv
  <2>7. CASE Return
    <3>1. /\ ToSet(doing) = {"return"} /\ ToSet(doing') = {}
          /\ inbox' = Tail(inbox) /\ inbox \in Seq({"start", "stop"})
      BY <2>7, <1>1, ScriptTail DEF Return, Next1, ScriptInv, ProxyType
    <3>2. inbox # << >>
      BY <3>1 DEF ScriptInv
    <3>3. Len(inbox') = Len(inbox) - 1
      BY <3>1, <3>2, TailFacts
    <3> QED
      BY <3>1, <3>3, <2>2, <1>1 DEF ButtonInv
  <2> QED
    BY <1>5, <2>3, <2>4, <2>5, <2>6, <2>7 DEF ProxyWorks
<1>6. CASE ProxyDies
  <2>1. conn'[A] # "active"
    BY <1>6, <1>1 DEF ProxyDies
  <2> QED
    BY <2>1, NotActive
<1>7. CASE GoneActivity \/ Launch
  <2>1. conn'[A] # "active"
    BY <1>7, <1>1 DEF GoneActivity, Launch, Fresh, Connect, LinkType
  <2> QED
    BY <2>1, NotActive
<1>8. CASE AskState \/ StateChanged
  <2>1. CASE GoneActivity
    BY <2>1, <1>7
  <2>2. CASE enabled' = TRUE
    BY <2>2 DEF ButtonInv, Disabled
  <2> QED
    BY <1>8, <2>1, <2>2 DEF AskState, StateChanged
<1>9. CASE TapConnect
  BY <1>9, TapSettles DEF ButtonInv
<1>10. CASE Answer
  <2>1. CASE StartRequest
    <3>1. Len(inbox') > IF "return" \in ToSet(doing) THEN 1 ELSE 0
      BY <2>1, <1>1, InboxGrows
    <3>2. doing' = doing
      BY <2>1 DEF StartRequest
    <3> QED
      BY <3>1, <3>2 DEF ButtonInv
  <2>2. CASE refused' = TRUE
    BY <2>2 DEF ButtonInv, Disabled
  <2> QED
    BY <1>10, <2>1, <2>2 DEF Answer
<1>11. CASE Select \/ Import \/ ClickElsewhere \/ Click
  <2>1. Requests
    BY <1>11, ToggleProxy DEF Requests, Select, Import, ClickElsewhere, Click
  <2>2. UNCHANGED <<links, enabled, dialog, refused>>
    BY <1>11 DEF Select, Import, ClickElsewhere, Click, activity
  <2> QED
    BY <2>1, <2>2, <1>2 DEF links, Disabled
<1>12. ASSUME Publish(A) \/ RunCall(A) \/ Looper(A) PROVE ButtonInv'
  <2>1. CASE RunCall(A)
    <3>1. Requests /\ (Disabled' => Disabled) /\ looper' = looper
      BY <2>1 DEF RunCall, Requests, activity, Disabled
    <3> QED
      BY <3>1, <1>2
  <2>2. CASE Publish(A)
    <3>1. conn'[A] # "active"
      BY <2>2, <1>1 DEF Publish, LinkType
    <3> QED
      BY <3>1, NotActive
  <2>3. CASE Connected(A)
    <3>1. asking'[A]
      BY <2>3, <1>1 DEF Connected, LinkType
    <3> QED
      BY <3>1 DEF ButtonInv, Disabled
  <2>4. CASE Disconnected(A)
    <3>1. "died" \in ToSet(looper[A])
      BY <2>4, <1>1, TailFacts DEF Disconnected, First
    <3>2. conn'[A] # "active"
      BY <2>4, <3>1, <1>1 DEF Disconnected, LooperOK
    <3> QED
      BY <3>2, NotActive
  <2> QED
    BY <1>12, <2>1, <2>2, <2>3, <2>4 DEF Looper
<1>13. CASE StartListening \/ StopListening \/ TileState \/ TileAsks
            \/ Publish("tile") \/ RunCall("tile") \/ Looper("tile")
  <2>1. Connect("tile") \/ Disconnect("tile") \/ Fresh("tile")
           \/ Asks("tile") \/ Heard("tile") \/ Publish("tile") \/ RunCall("tile")
           \/ Connected("tile") \/ Disconnected("tile")
    BY <1>13 DEF StartListening, StopListening, TileState, TileAsks, Looper, Asks, Heard, First
  <2>2. UNCHANGED <<enabled, dialog, refused>>
    BY <1>13 DEF StartListening, StopListening, TileState, TileAsks, Looper, Publish,
                 RunCall, Connected, Disconnected, activity
  <2>3. Requests
    BY <1>13, BindsOnly, ToggleProxy
       DEF StartListening, StopListening, TileState, TileAsks, Looper, Publish,
           RunCall, Connected, Disconnected, Requests
  <2>4. (Disabled' => Disabled) /\ looper'[A] = looper[A]
    BY <1>1, <2>1, <2>2, TileLinks DEF Disabled
  <2> QED
    BY <2>3, <2>4, <1>2
<1>14. CASE Exit
  BY <1>14, <1>7 DEF Exit
<1>15. Clients = {A, "tile"}
  BY DEF Clients
<1>16. CASE UNCHANGED vars
  <2>1. Requests /\ (Disabled' => Disabled) /\ looper' = looper
    BY <1>16 DEF vars, Requests, links, activity, Disabled
  <2> QED
    BY <2>1, <1>2
<1> QED
  BY <1>3, <1>4, <1>5, <1>6, <1>7, <1>8, <1>9, <1>10, <1>11, <1>12, <1>13, <1>14, <1>15,
     <1>16 DEF Next, Works, User

-----------------------------------------------------------------------------
(* The reconnection.                                                       *)

LEMMA ReconnectionFrame ==
  ASSUME ProxyType, ScriptInv, ScriptInv', ReconnectionInv,
         isReconnection' /\ ~ lost' => isReconnection /\ ~ lost,
         "STOPPED" \in ToSet(looper["activity"]) => "STOPPED" \in ToSet(looper'["activity"]),
         StartRequest \/ StopRequest \/ UNCHANGED proxy \/ \E b \in BOOLEAN : Bind(b)
  PROVE  ReconnectionInv'
BY InboxGrows DEF ReconnectionInv

LEMMA ReconnectionStep ==
  ASSUME Types, ScriptInv, LinkInv, LooperInv, ReconnectionInv,
         Next \/ UNCHANGED vars, ScriptInv'
  PROVE  ReconnectionInv'
<1> DEFINE A == "activity"
<1>1. /\ LinkType /\ ProxyType /\ A \in Clients /\ looper[A] \in Seq(Message)
      /\ LooperOK(A) /\ "tile" \in Clients /\ A # "tile"
  BY TypeParts DEF Clients, LinkType, LooperInv, LooperOK
<1> DEFINE Requests == StartRequest \/ StopRequest \/ UNCHANGED proxy \/ \E b \in BOOLEAN : Bind(b)
<1>2. ASSUME isReconnection' /\ ~ lost' => isReconnection /\ ~ lost, Requests,
             "STOPPED" \in ToSet(looper[A]) => "STOPPED" \in ToSet(looper'[A])
      PROVE  ReconnectionInv'
  BY <1>1, <1>2, ReconnectionFrame
<1> HIDE DEF Requests
<1>3. ASSUME doing # << >>, doing' = Tail(doing), Head(doing) # "kill", inbox' = inbox,
             proc' = proc, UNCHANGED <<isReconnection, lost>>,
             "STOPPED" \in ToSet(looper[A]) => "STOPPED" \in ToSet(looper'[A])
      PROVE  ReconnectionInv'
  <2>1. ToSet(doing) = ToSet(doing') \cup {Head(doing)}
    BY <1>1, <1>3, ScriptTail DEF ScriptInv, ProxyType
  <2> QED
    BY <1>3, <2>1 DEF ReconnectionInv
<1>4. CASE TellClients
  <2>1. \A m \in Message : ToSet(looper[A]) \subseteq ToSet(Append(looper[A], m))
    BY <1>1, AppendFacts
  <2>2. Told(A) \in Message
    BY <1>1 DEF Told, ProxyType, Message
  <2>3. ToSet(looper[A]) \subseteq ToSet(looper'[A])
    BY <1>1, <1>4, <2>1, <2>2 DEF TellClients
  <2> QED
    BY <1>3, <1>4, <2>3 DEF TellClients, Tell, Next1, activity
<1>5. CASE Announce
  BY <1>3, <1>5 DEF Announce, Assign, Next1, ProxyState, links, activity
<1>6. CASE ProxyWorks
  <2>1. UNCHANGED <<looper, isReconnection, lost>>
    BY <1>6 DEF ProxyWorks, links, activity
  <2>2. CASE Handle
    <3>1. doing = << >> /\ inbox' = inbox /\ proc' = proc
      BY <2>2 DEF Handle
    <3>2. "kill" \notin ToSet(doing)
      BY <3>1, EmptySet
    <3> QED
      BY <2>1, <3>1, <3>2 DEF ReconnectionInv
  <2>3. CASE StopSelf
    BY <1>3, <2>1, <2>3 DEF StopSelf, Next1
  <2>4. CASE Return
    <3>1. /\ ToSet(doing) = {"return"} /\ inbox' = Tail(inbox) /\ proc' = proc
          /\ inbox \in Seq({"start", "stop"})
      BY <2>4, <1>1, ScriptTail DEF Return, Next1, ScriptInv, ProxyType
    <3>2. inbox # << >> /\ Head(inbox) = "start"
      BY <3>1 DEF ScriptInv
    <3>3. "stop" \in ToSet(inbox) => "stop" \in ToSet(inbox')
      BY <3>1, <3>2, TailFacts
    <3> QED
      BY <2>1, <3>1, <3>3 DEF ReconnectionInv
  <2>5. CASE Detour
    <3>1. doing = Begun /\ inbox' = inbox /\ proc' = proc
      BY <2>5 DEF Detour
    <3>2. "kill" \notin ToSet(doing)
      BY <3>1, BegunFacts
    <3> QED
      BY <2>1, <3>1, <3>2 DEF ReconnectionInv
  <2>6. CASE Create
    BY <2>1, <2>6 DEF Create, ReconnectionInv
  <2> QED
    BY <1>6, <2>2, <2>3, <2>4, <2>5, <2>6 DEF ProxyWorks
<1>7. CASE ProxyDies
  <2>1. isReconnection' /\ ~ lost' => "STOPPED" \in ToSet(looper[A])
    BY <1>7 DEF ProxyDies, activity, ToSet
  <2>2. "STOPPED" \in ToSet(looper[A]) => "STOPPED" \in ToSet(looper'[A])
    <3>1. looper'[A] = Append(looper[A], "died") \/ looper'[A] = RemoveFirst(looper[A], "connected")
      BY <1>7, <1>1 DEF ProxyDies
    <3>2. "STOPPED" \in ToSet(looper[A]) => "STOPPED" \in ToSet(Append(looper[A], "died"))
      BY <1>1, AppendFacts DEF Message
    <3>3. "STOPPED" \in ToSet(looper[A]) =>
            "STOPPED" \in ToSet(RemoveFirst(looper[A], "connected"))
      BY <1>1, RemoveKeeps
    <3> QED
      BY <3>1, <3>2, <3>3
  <2> QED
    BY <2>1, <2>2 DEF ReconnectionInv
<1>8. CASE GoneActivity
  BY <1>8 DEF GoneActivity, ReconnectionInv
<1>9. CASE Launch \/ AskState
  <2>1. CASE GoneActivity
    BY <2>1, <1>8
  <2>2. CASE UNCHANGED <<looper, isReconnection, lost>> /\ Requests
    BY <2>2, <1>2
  <2> QED
    BY <1>9, <2>1, <2>2, BindsOnly DEF Launch, AskState, Connect, Requests
<1>10. CASE StateChanged
  <2>1. PICK s \in ProxyState :
          /\ looper[A] # << >> /\ Head(looper[A]) = s /\ Pop(A)
          /\ IF s = "STOPPED" /\ isReconnection
             THEN isReconnection' = Reconnected /\ lost' = FALSE /\ SetConnection(s)
             ELSE UNCHANGED <<proxy, isReconnection, lost, file, dialog, refused>>
    BY <1>10 DEF StateChanged, First
  <2>2. CASE s = "STOPPED" /\ isReconnection
    BY <2>1, <2>2 DEF Reconnected, ReconnectionInv
  <2>3. CASE ~ (s = "STOPPED" /\ isReconnection)
    <3>1. ToSet(looper[A]) = ToSet(looper'[A]) \cup {s}
      BY <2>1, <1>1, AtFirst
    <3>2. UNCHANGED <<proxy, isReconnection, lost>>
      BY <2>1, <2>3
    <3> QED
      BY <3>1, <3>2, <2>3 DEF ReconnectionInv, proxy
  <2> QED
    BY <2>2, <2>3
<1>11. CASE Select
  <2>1. CASE UNCHANGED <<proxy, isReconnection>>
    <3>1. UNCHANGED links /\ (~ lost' => ~ lost)
      BY <1>11 DEF Select
    <3> QED
      BY <1>2, <2>1, <3>1 DEF Requests, links
  <2>2. CASE isReconnection' = TRUE /\ StopRequest
    <3>1. lost' = (lost \/ ~ proc)
      BY <1>11, <2>2 DEF Select
    <3>2. inbox \in Seq({"start", "stop"})
      BY <1>1 DEF ProxyType
    <3>3. "stop" \in ToSet(Append(inbox, "stop"))
      BY <3>2, AppendFacts
    <3>4. ~ lost' => proc' /\ "stop" \in ToSet(inbox')
      BY <2>2, <3>1, <3>3 DEF StopRequest
    <3> QED
      BY <3>4 DEF ReconnectionInv
  <2> QED
    BY <1>11, <2>1, <2>2 DEF Select
<1>12. CASE TapConnect \/ Answer \/ Import \/ ClickElsewhere \/ Click
  <2>1. Requests
    BY <1>12, SetConnectionProxy, ToggleProxy
       DEF Requests, TapConnect, Answer, Import, ClickElsewhere, Click
  <2>2. UNCHANGED <<links, isReconnection, lost>>
    BY <1>12 DEF TapConnect, Answer, Import, ClickElsewhere, Click, activity
  <2> QED
    BY <2>1, <2>2, <1>2 DEF links
<1>13. ASSUME Publish(A) \/ RunCall(A) \/ Looper(A) PROVE ReconnectionInv'
  <2>1. Requests /\ UNCHANGED <<isReconnection, lost>>
    BY <1>13 DEF Publish, RunCall, Looper, Connected, Disconnected, Requests, activity
  <2>2. CASE RunCall(A)
    BY <2>1, <2>2, <1>2 DEF RunCall
  <2>3. CASE Publish(A)
    <3>1. looper'[A] = Append(looper[A], "connected")
      BY <2>3, <1>1 DEF Publish, Post, LinkType
    <3> QED
      BY <2>1, <3>1, <1>1, <1>2, AppendFacts DEF Message
  <2>4. CASE Looper(A)
    <3>1. looper[A] # << >> /\ Head(looper[A]) \in {"connected", "died"} /\ Pop(A)
      BY <2>4 DEF Looper, Connected, Disconnected, First
    <3>2. ToSet(looper[A]) = ToSet(looper'[A]) \cup {Head(looper[A])}
      BY <3>1, <1>1, AtFirst
    <3> QED
      BY <2>1, <3>1, <3>2, <1>2
  <2> QED
    BY <1>13, <2>2, <2>3, <2>4
<1>14. CASE StartListening \/ StopListening \/ TileState \/ TileAsks
            \/ Publish("tile") \/ RunCall("tile") \/ Looper("tile")
  <2>1. Connect("tile") \/ Disconnect("tile") \/ Fresh("tile")
           \/ Asks("tile") \/ Heard("tile") \/ Publish("tile") \/ RunCall("tile")
           \/ Connected("tile") \/ Disconnected("tile")
    BY <1>14 DEF StartListening, StopListening, TileState, TileAsks, Looper, Asks, Heard, First
  <2>2. UNCHANGED <<isReconnection, lost>>
    BY <1>14 DEF StartListening, StopListening, TileState, TileAsks, Looper, Publish,
                 RunCall, Connected, Disconnected, activity
  <2>3. Requests
    BY <1>14, BindsOnly, ToggleProxy
       DEF StartListening, StopListening, TileState, TileAsks, Looper, Publish,
           RunCall, Connected, Disconnected, Requests
  <2>4. looper'[A] = looper[A]
    BY <1>1, <2>1, TileLinks
  <2> QED
    BY <2>2, <2>3, <2>4, <1>2
<1>15. CASE Exit
  BY <1>15, <1>8 DEF Exit
<1>16. Clients = {A, "tile"}
  BY DEF Clients
<1>17. CASE UNCHANGED vars
  BY <1>17, <1>2 DEF vars, Requests, links, activity
<1> QED
  BY <1>4, <1>5, <1>6, <1>7, <1>8, <1>9, <1>10, <1>11, <1>12, <1>13, <1>14, <1>15,
     <1>16, <1>17 DEF Next, Works, User

-----------------------------------------------------------------------------
(* The configuration that runs.                                            *)

(* A start that comes last is one that has not said STARTED.               *)
LEMMA InboxAppended ==
  ASSUME ProxyType, NEW x \in {"start", "stop"}, inbox' = Append(inbox, x), doing' = doing
  PROVE  /\ Pending => Pending'
         /\ x = "start" /\ ScriptInv => Pending'
         /\ ToSet(inbox') = ToSet(inbox) \cup {x}
<1>1. inbox \in Seq({"start", "stop"}) /\ Len(inbox) \in Nat /\ DOMAIN inbox = 1 .. Len(inbox)
  BY DEF ProxyType
<1>2. /\ ToSet(inbox') = ToSet(inbox) \cup {x} /\ DOMAIN inbox' = DOMAIN inbox \cup {Len(inbox) + 1}
      /\ inbox'[Len(inbox) + 1] = x /\ \A i \in DOMAIN inbox : inbox'[i] = inbox[i]
  BY <1>1, AppendFacts DEF Final
<1>3. Pending => Pending'
  BY <1>2 DEF Pending
<1>4. ASSUME x = "start", ScriptInv PROVE Pending'
  <2>1. Len(inbox) + 1 = 1 => inbox = << >>
    BY <1>1
  <2>2. Len(inbox) + 1 = 1 => "return" \notin ToSet(doing)
    BY <2>1, <1>4 DEF ScriptInv
  <2> QED
    BY <1>2, <1>4, <2>2 DEF Pending
<1> QED
  BY <1>2, <1>3, <1>4

(* A request to the proxy, a start only with a configuration and consent.  *)
LEMMA FileRequest ==
  ASSUME ProxyType, FileInv, UNCHANGED <<file, serving, unread>>,
         consented => consented', dialog' => dialog,
         \/ StartRequest /\ file # None /\ consented'
         \/ StopRequest \/ UNCHANGED proxy \/ \E b \in BOOLEAN : Bind(b)
  PROVE  FileInv'
<1>1. /\ state' = state /\ doing' = doing
      /\ inbox' \in {inbox, Append(inbox, "start"), Append(inbox, "stop")}
      /\ \/ file # None /\ consented'
         \/ inbox' \in {inbox, Append(inbox, "stop")} /\ requested' = requested
  BY DEF StartRequest, StopRequest, proxy, Bind
<1>2. Pending => Pending'
  BY <1>1, InboxAppended DEF Pending
<1>3. Begins' => file # None /\ consented'
  <2>1. CASE file # None /\ consented'
    BY <2>1
  <2>2. CASE inbox' \in {inbox, Append(inbox, "stop")} /\ requested' = requested
    <3>1. "start" \in ToSet(inbox') => "start" \in ToSet(inbox)
      BY <1>1, <2>2, InboxAppended
    <3> QED
      BY <1>1, <2>2, <3>1 DEF FileInv, Begins
  <2> QED
    BY <1>1, <2>1, <2>2
<1> QED
  BY <1>1, <1>2, <1>3 DEF FileInv

LEMMA FileSetConnection ==
  ASSUME ProxyType, ActivityType, ScriptInv, FileInv, NEW s, SetConnection(s),
         UNCHANGED <<serving, unread, consented>>
  PROVE  FileInv'
<1>1. CASE instance = None
  BY <1>1, FileRequest DEF SetConnection
<1>2. CASE instance # None /\ s \notin AtRest
  <2>1. UNCHANGED file /\ dialog' = dialog /\ (StopRequest \/ UNCHANGED proxy)
    BY <1>2, ActivityParts DEF SetConnection, Saved
  <2> QED
    BY <2>1, FileRequest
<1>3. CASE instance # None /\ s \in AtRest /\ consented
  <2>1. file' = instance /\ StartRequest
    <3>1. s # "STARTED"
      BY <1>3 DEF AtRest
    <3> QED
      BY <1>3, <3>1 DEF SetConnection, Saved
  <2>2. Pending' /\ doing' = doing /\ state' = state
    BY <2>1, InboxAppended DEF StartRequest
  <2> QED
    BY <1>3, <2>1, <2>2 DEF FileInv, Begins
<1>4. CASE instance # None /\ s \in AtRest /\ ~ consented
  <2>1. file' = instance /\ UNCHANGED proxy
    <3>1. s # "STARTED"
      BY <1>4 DEF AtRest
    <3> QED
      BY <1>4, <3>1 DEF SetConnection, Saved
  <2>2. ~ Begins /\ serving = None
    BY <1>4 DEF FileInv, Begins
  <2>3. ~ Begins'
    BY <2>1, <2>2 DEF Begins, proxy
  <2>4. state' = state
    BY <2>1 DEF proxy
  <2> QED
    BY <1>4, <2>1, <2>2, <2>3, <2>4 DEF FileInv
<1> QED
  BY <1>1, <1>2, <1>3, <1>4

(* The steps of a script leave a start that is coming.                     *)
LEMMA FileScript ==
  ASSUME ProxyType, ScriptInv, FileInv, UNCHANGED <<file, serving, unread, consented, dialog>>,
         Handle \/ StopSelf \/ Return \/ Detour \/ Create \/ Tell
  PROVE  FileInv'
<1> SUFFICES /\ Begins' => Begins
             /\ state' = "STARTED" => state = "STARTED"
             /\ Pending => Pending'
  BY DEF FileInv
<1>1. /\ doing \in Seq(Step) /\ Script(doing) /\ inbox \in Seq({"start", "stop"})
      /\ DOMAIN inbox = 1 .. Len(inbox) /\ Len(inbox) \in Nat
  BY DEF ProxyType, ScriptInv
<1>2. CASE Handle
  <2>1. /\ UNCHANGED <<requested, inbox, state>> /\ doing = << >>
        /\ \/ doing' = Start /\ inbox # << >> /\ Head(inbox) = "start"
           \/ doing' \in {Stop, OnDestroy}
    BY <1>2 DEF Handle, OnDestroy
  <2>2. "STARTED" \notin ToSet(doing) /\ "return" \notin ToSet(doing)
    BY <2>1, EmptySet
  <2>3. doing' = Start => "start" \in ToSet(inbox)
    <3>1. CASE doing' = Start /\ inbox # << >> /\ Head(inbox) = "start"
      BY <3>1, <1>1, TailFacts
    <3>2. CASE doing' \in {Stop, OnDestroy}
      BY <3>2, ScriptFacts
    <3> QED
      BY <2>1, <3>1, <3>2
  <2>4. Pending => Pending'
    BY <2>1, <2>2, ScriptFacts DEF Pending
  <2> QED
    BY <2>1, <2>3, <2>4, ScriptFacts DEF Begins
<1>3. CASE StopSelf \/ Tell
  <2>1. /\ \E x \in {"stopSelf", "tell"} : ToSet(doing) = ToSet(doing') \cup {x}
        /\ UNCHANGED <<inbox, state>> /\ (requested' => requested)
    <3>1. /\ doing # << >> /\ doing' = Tail(doing) /\ Head(doing) \in {"stopSelf", "tell"}
          /\ UNCHANGED <<inbox, state>> /\ (requested' => requested)
      BY <1>3 DEF StopSelf, Tell, Next1
    <3> QED
      BY <3>1, <1>1, ScriptTail
  <2> QED
    BY <2>1 DEF Begins, Pending
<1>4. CASE Return
  <2>1. /\ ToSet(doing) = {"return"} /\ ToSet(doing') = {}
        /\ inbox' = Tail(inbox) /\ UNCHANGED <<requested, state>>
    BY <1>4, <1>1, ScriptTail DEF Return, Next1
  <2>2. inbox # << >>
    BY <2>1 DEF ScriptInv
  <2>3. ToSet(inbox') \subseteq ToSet(inbox)
    BY <2>1, <2>2, <1>1, TailFacts
  <2>4. ASSUME Pending PROVE Pending'
    <3>1. PICK i \in DOMAIN inbox : inbox[i] = "start" /\ i # 1
      BY <2>1, <2>4 DEF Pending
    <3>2. i - 1 \in DOMAIN inbox' /\ inbox'[i - 1] = "start"
      BY <3>1, <2>1, <2>2, <1>1
    <3> QED
      BY <3>2, <2>1 DEF Pending
  <2> QED
    BY <2>1, <2>3, <2>4 DEF Begins
<1>5. CASE Detour
  <2>1. /\ doing = Begun /\ doing' \in {NotThere, Stop} /\ UNCHANGED <<requested, inbox, state>>
    BY <1>5 DEF Detour, NotThere
  <2>2. inbox # << >> /\ Head(inbox) = "start"
    BY <2>1, BegunFacts DEF ScriptInv
  <2>3. 1 \in DOMAIN inbox /\ inbox[1] = "start"
    BY <2>2, <1>1
  <2>4. doing' = NotThere \/ "return" \notin ToSet(doing')
    BY <2>1, ScriptFacts
  <2> QED
    BY <2>1, <2>3, <2>4, BegunFacts, ScriptFacts DEF Begins, Pending
<1>6. CASE Create
  <2>1. /\ UNCHANGED <<requested, doing, state>>
        /\ inbox' = inbox \/ (requested /\ inbox = << >>)
    BY <1>6 DEF Create
  <2>2. inbox = << >> => DOMAIN inbox = {}
    BY <1>1
  <2> QED
    BY <2>1, <2>2 DEF Begins, Pending
<1> QED
  BY <1>2, <1>3, <1>4, <1>5, <1>6

LEMMA FileAnnounce ==
  ASSUME ProxyType, ScriptInv, FileInv, Announce
  PROVE  FileInv'
<1>1. PICK s \in ProxyState : Next1(s) /\ state' = s /\ UNCHANGED <<proc, bound, requested, inbox>>
  BY DEF Announce, Assign
<1>2. ToSet(doing) = ToSet(doing') \cup {s} /\ s # "return"
  BY <1>1, ScriptTail DEF Next1, ProxyType, ScriptInv, ProxyState
<1>3. UNCHANGED <<file, consented, dialog>>
  BY DEF Announce, activity
<1>4. CASE s # "STARTED"
  <2>1. UNCHANGED <<serving, unread>>
    BY <1>1, <1>4 DEF Announce
  <2> QED
    BY <1>1, <1>2, <1>3, <1>4, <2>1 DEF FileInv, Begins, Pending
<1>5. CASE s = "STARTED"
  <2>1. Begins /\ file # None /\ consented
    BY <1>2, <1>5 DEF FileInv, Begins
  <2>2. \/ serving' = file
        \/ serving # None /\ serving' = serving /\ unread' = TRUE
    BY <1>1, <1>5 DEF Announce
  <2> QED
    BY <1>1, <1>3, <2>1, <2>2 DEF FileInv
<1> QED
  BY <1>4, <1>5

(* Every step keeps what is required of the file.                          *)
LEMMA FileStep ==
  ASSUME Types, ScriptInv, FileInv, Next \/ UNCHANGED vars
  PROVE  FileInv'
<1>1. ProxyType /\ ActivityType
  BY TypeParts
<1> DEFINE Quiet == StopRequest \/ UNCHANGED proxy \/ \E b \in BOOLEAN : Bind(b)
<1>2. ASSUME Quiet, UNCHANGED <<configs, dialog>> PROVE FileInv'
  BY <1>1, <1>2, FileRequest DEF configs
<1>3. ASSUME Toggle, UNCHANGED <<configs, dialog>> PROVE FileInv'
  <2>1. (StartRequest /\ file # None /\ consented) \/ StopRequest \/ UNCHANGED proxy
    BY <1>3 DEF Toggle
  <2> QED
    BY <1>1, <1>3, <2>1, FileRequest DEF configs
<1> HIDE DEF Quiet
<1>4. CASE TellClients \/ ProxyWorks
  BY <1>1, <1>4, FileScript DEF TellClients, ProxyWorks, configs, activity
<1>5. CASE Announce
  BY <1>1, <1>5, FileAnnounce
<1>6. CASE ProxyDies
  <2>1. /\ serving' = None /\ state' = "NONE" /\ doing' = << >> /\ requested' = requested
        /\ UNCHANGED <<file, consented, dialog>>
    BY <1>6 DEF ProxyDies, Gone, activity
  <2>2. "start" \in ToSet(inbox') => "start" \in ToSet(inbox)
    BY <1>1, <1>6, StartsLeft DEF ProxyDies
  <2>3. "STARTED" \notin ToSet(doing')
    BY <2>1, EmptySet
  <2> QED
    BY <2>1, <2>2, <2>3 DEF FileInv, Begins
<1>7. CASE GoneActivity /\ UNCHANGED configs
  <2>1. dialog' = FALSE /\ \E b \in BOOLEAN : Bind(b)
    BY <1>7, BindsOnly DEF GoneActivity
  <2> QED
    BY <1>1, <1>7, <2>1, FileRequest DEF configs
<1>8. CASE Exit \/ AskState
  <2>1. CASE UNCHANGED <<proxy, dialog, configs>>
    BY <2>1, <1>2 DEF Quiet
  <2> QED
    BY <1>7, <1>8, <2>1 DEF Exit, AskState
<1>9. CASE Launch \/ StartListening \/ StopListening
  BY <1>2, <1>9, BindsOnly DEF Launch, StartListening, StopListening, Quiet, activity
<1>10. CASE TapConnect
  BY <1>1, <1>10, FileSetConnection DEF TapConnect
<1>11. CASE StateChanged
  <2>1. CASE UNCHANGED <<proxy, file, dialog>> /\ UNCHANGED <<serving, unread, consented>>
    BY <2>1, <1>2 DEF Quiet, configs
  <2>2. CASE \E s : SetConnection(s) /\ UNCHANGED <<serving, unread, consented>>
    BY <1>1, <2>2, FileSetConnection
  <2> QED
    BY <1>11, <2>1, <2>2 DEF StateChanged
<1>12. CASE Answer
  <2>1. dialog /\ file # None /\ dialog' = FALSE /\ UNCHANGED <<file, serving, unread>>
    BY <1>12 DEF Answer, FileInv
  <2>2. CASE StartRequest /\ consented' = TRUE
    BY <1>1, <2>1, <2>2, FileRequest
  <2>3. CASE UNCHANGED <<proxy, consented>>
    BY <1>1, <2>1, <2>3, FileRequest
  <2> QED
    BY <1>12, <2>2, <2>3 DEF Answer
<1>13. CASE Select
  BY <1>2, <1>13 DEF Select, Quiet
<1>14. CASE Import
  <2>1. /\ UNCHANGED <<proxy, serving, consented, dialog>> /\ file' \in Servers
        /\ unread' = (unread \/ serving # None)
    BY <1>14 DEF Import
  <2>2. file' # None
    BY <2>1, ClientsAssumption
  <2>3. Begins' <=> Begins
    BY <2>1 DEF Begins, proxy
  <2> QED
    BY <2>1, <2>2, <2>3 DEF FileInv, proxy
<1>15. CASE Click \/ ClickElsewhere \/ TileAsks
  <2>1. UNCHANGED <<configs, dialog>> /\ (Toggle \/ UNCHANGED proxy)
    BY <1>15 DEF Click, ClickElsewhere, TileAsks, activity
  <2> QED
    BY <2>1, <1>2, <1>3 DEF Quiet
<1>16. CASE TileState
  <2>1. UNCHANGED <<configs, dialog>> /\ (Fresh("tile") \/ UNCHANGED proxy)
    BY <1>16 DEF TileState, activity
  <2> QED
    BY <2>1, <1>2, BindsOnly DEF Quiet
<1>17. ASSUME NEW c \in Clients, Publish(c) \/ RunCall(c) \/ Looper(c) PROVE FileInv'
  <2>1. UNCHANGED <<proxy, configs, dialog>>
    BY <1>17 DEF Publish, RunCall, Looper, Connected, Disconnected, activity
  <2> QED
    BY <2>1, <1>2 DEF Quiet
<1>18. CASE UNCHANGED vars
  BY <1>18, <1>2 DEF Quiet, vars, activity
<1> QED
  BY <1>4, <1>5, <1>6, <1>8, <1>9, <1>10, <1>11, <1>12, <1>13, <1>14, <1>15, <1>16, <1>17,
     <1>18 DEF Next, Works, User

-----------------------------------------------------------------------------
(* The theorems.                                                           *)

LEMMA SafetyInit == Init => SafetyInv /\ ~ twice
<1> SUFFICES ASSUME Init PROVE SafetyInv /\ ~ twice
  OBVIOUS
<1> USE DEF Init, ProxyInit
<1>1. Types
  <2>1. << >> \in Seq(Message) /\ << >> \in Seq({"register", "unregister"})
        /\ << >> \in Seq({"start", "stop"}) /\ << >> \in Seq(Step)
    OBVIOUS
  <2>2. ProxyType
    BY <2>1 DEF ProxyType, ProxyState
  <2>3. LinkType
    BY <2>1 DEF LinkType
  <2>4. ActivityType
    BY ActivityParts DEF ProxyState
  <2> QED
    BY <2>2, <2>3, <2>4, TypeParts
<1>2. ScriptInv
  BY EmptySet DEF ScriptInv, Script
<1>3. LinkInv /\ LooperInv
  BY EmptySet DEF LinkInv, LooperInv, LinkOK, LooperOK, Ordered
<1>4. CallInv /\ ViewInv /\ ButtonInv
  BY DEF CallInv, ViewInv, ButtonInv, Disabled, Clients
<1>5. ReconnectionInv /\ FileInv
  BY EmptySet DEF ReconnectionInv, FileInv, Begins
<1> QED
  BY <1>1, <1>2, <1>3, <1>4, <1>5 DEF SafetyInv

LEMMA SafetyStep == SafetyInv /\ ~ twice /\ [Next]_vars => SafetyInv' /\ ~ twice'
<1> SUFFICES ASSUME SafetyInv, ~ twice, Next \/ UNCHANGED vars PROVE SafetyInv' /\ ~ twice'
  OBVIOUS
<1>1. /\ Types /\ ScriptInv /\ LinkInv /\ LooperInv /\ CallInv
      /\ ViewInv /\ ButtonInv /\ ReconnectionInv /\ FileInv /\ LinkType /\ ProxyType
  BY TypeParts DEF SafetyInv
<1>2. Types' /\ ScriptInv'
  BY <1>1, TypeStep
<1>3. LinkInv' /\ LooperInv' /\ ~ twice'
  BY <1>1, LinkInvStep, NeverTwice
<1>4. CallInv' /\ ViewInv' /\ ButtonInv'
  BY <1>1, <1>2, CallStep, ViewStep, ButtonStep
<1>5. ReconnectionInv' /\ FileInv'
  BY <1>1, <1>2, ReconnectionStep, FileStep
<1> QED
  BY <1>2, <1>3, <1>4, <1>5 DEF SafetyInv

(* The inductive invariant.                                                *)
LEMMA Safety == Spec => [](SafetyInv /\ ~ twice)
BY SafetyInit, SafetyStep, PTL DEF Spec

(* The variables have their types, and a client that has disconnected      *)
(* holds no ITrojanService; for any servers, bound and clients.            *)
THEOREM TypeCorrect == Spec => []TypeOK
<1>1. SafetyInv /\ ~ twice => TypeOK
  <2> SUFFICES ASSUME SafetyInv, NEW c \in Clients, service[c] # "null" PROVE connected[c]
    BY DEF SafetyInv, TypeOK
  <2>1. LinkOK(c) /\ service[c] \in {"null", "live", "dead"}
    BY TypeParts DEF SafetyInv, LinkInv, LinkType
  <2> QED
    BY <2>1 DEF LinkOK
<1> QED
  BY <1>1, Safety, PTL

(* onServiceConnected never finds its callback registered, and a callback  *)
(* is registered only with a binder of a connection.                       *)
THEOREM NeverRegisteredTwice == Spec => []RegisteredOnce
<1>1. SafetyInv /\ ~ twice => RegisteredOnce
  BY DEF SafetyInv, LinkInv, LinkOK, RegisteredOnce
<1> QED
  BY <1>1, Safety, PTL

(* When nothing is under way the activity shows the state of the proxy,    *)
(* unless a state was told between its getState and the registration.      *)
THEOREM ViewFollows == Spec => []ViewIsCurrent
<1>1. SafetyInv /\ ~ twice => ViewIsCurrent
  <2> SUFFICES ASSUME SafetyInv, Settled, ~ missed PROVE proxyState = state
    BY DEF ViewIsCurrent
  <2>1. ~ Telling
    BY DEF Settled, Telling
  <2> QED
    BY <2>1 DEF SafetyInv, ViewInv, Settled, Free
<1> QED
  BY <1>1, Safety, PTL

(* A button that was tapped is enabled again when nothing is under way.    *)
THEOREM ButtonComesBack == Spec => []ButtonReturns
<1>1. SafetyInv /\ ~ twice => ButtonReturns
  <2> SUFFICES ASSUME SafetyInv, Settled, doing = << >>, inbox = << >>, ~ dialog,
                      ~ enabled, ~ refused, ~ missed
               PROVE  FALSE
    BY DEF ButtonReturns
  <2>1. Disabled /\ looper["activity"] = << >>
    BY DEF Settled, Free, Disabled
  <2>2. ToSet(doing) = {} /\ Len(inbox) = 0
    BY EmptySet
  <2> QED
    BY <2>1, <2>2 DEF SafetyInv, ButtonInv
<1> QED
  BY <1>1, Safety, PTL

(* A proxy that is STARTED runs with the configuration of the file.        *)
THEOREM FileRuns == Spec => []RunsTheFile
<1>1. SafetyInv /\ ~ twice => RunsTheFile
  <2> SUFFICES ASSUME SafetyInv, state = "STARTED", inbox = << >>, serving # file, ~ unread
               PROVE  FALSE
    BY DEF RunsTheFile
  <2>1. Pending
    BY DEF SafetyInv, FileInv
  <2>2. "STARTED" \notin ToSet(doing)
    BY DEF SafetyInv, ScriptInv, Script
  <2>3. DOMAIN inbox = {}
    OBVIOUS
  <2> QED
    BY <2>1, <2>2, <2>3 DEF Pending
<1> QED
  BY <1>1, Safety, PTL

(* A reconnection is not forgotten.                                        *)
THEOREM ReconnectionIsMade == Spec => []ReconnectionHappens
<1>1. SafetyInv /\ ~ twice => ReconnectionHappens
  BY EmptySet DEF SafetyInv, ReconnectionInv, ReconnectionHappens
<1> QED
  BY <1>1, Safety, PTL

=============================================================================
