---------------------- MODULE ProxyServiceProofs ----------------------
(* Theorems about ProxyService, for all values of its constants: types; a  *)
(* stop that ended keeps the proxy off; whoever waits for the trojan       *)
(* thread has stopped it; the causes of a crash; a bound client hears      *)
(* STOPPED before the process kills itself; the ports agree and differ.    *)
(* What a thread has still to do is a list: the first part shows which     *)
(* lists there can be, whatever the steps of stop() and of a start put in  *)
(* front of them, the second relates them to the trojan thread, the        *)
(* requests, the states told and the ports. The third shows what a client  *)
(* sees of these lists: the service implements ProxyStates.                *)
EXTENDS ProxyService, FiniteSetTheorems, SequenceTheorems, TLAPS

(* The steps that are left of JNIHelper.stop before the Service is freed,  *)
(* those of a start, and those of a stop.                                  *)
Native  == {"nativeStop", "serviceStop", "join"}
Opening == {"STARTING", "STARTED", "rules", "establish", "ports", "trojan", "front"}
Closing == {"STOPPING", "close", "nativeStop", "serviceStop", "join", "wait",
            "delete", "stopSelf"}

In(s, x)    == \E i \in DOMAIN s : s[i] = x
First(s, x) == s # << >> /\ s[1] = x
Final(s, x) == s # << >> /\ s[Len(s)] = x
Clear(s)    == \A i \in DOMAIN s : s[i] \notin Native

(* What cannot follow what: the last step is last, a list has one          *)
(* JNIHelper.stop, and a start chooses ports, makes trojan and goes on in  *)
(* this order.                                                             *)
Ordered(s) ==
  \A i, j \in DOMAIN s : i < j =>
    /\ s[i] \notin {"return", "kill"}
    /\ s[j] \notin {"serviceStop", "wait"}
    /\ s[i] \in {"nativeStop", "join", "wait", "delete"} => s[j] \notin Native
    /\ s[i] = "trojan" => s[j] \notin {"ports", "trojan"}
    /\ s[i] = "STARTED" => s[j] \notin {"ports", "trojan", "front"}

(* Steps that come together: those of JNIHelper.stop, and STOPPED told in  *)
(* front of the kill.                                                      *)
Neighbours(s) ==
  \A i \in DOMAIN s : i + 1 \in DOMAIN s =>
    /\ s[i + 1] = "join" => s[i] = "serviceStop"
    /\ s[i + 1] = "delete" => s[i] \in {"join", "wait"}
    /\ s[i + 1] = "kill" => s[i] = "finish"
    /\ i + 2 \in DOMAIN s /\ s[i + 2] = "kill" => s[i] = "begin"
    /\ i + 3 \in DOMAIN s /\ s[i + 3] = "kill" => s[i] = "STOPPED"

(* A start that has not chosen its ports has trojan and its front ahead.   *)
Ahead(s) ==
  \A i \in DOMAIN s : s[i] \in {"rules", "establish", "ports"} =>
    \E j, k \in DOMAIN s : i < j /\ s[j] = "trojan" /\ i < k /\ s[k] = "front"

(* The steps of a start end with return, those of a stop with kill.        *)
Sided(s) ==
  \A i \in DOMAIN s :
    /\ s[i] \in Opening => s[Len(s)] = "return"
    /\ s[i] \in Closing => s[Len(s)] = "kill"
    /\ s[Len(s)] \in {"return", "kill"}

Program(s) == Ordered(s) /\ Neighbours(s) /\ Ahead(s) /\ Sided(s)

main   == todo["main"]
binder == todo["binder"]

(* Every thread has a program; only onRevoke gives one to a binder thread, *)
(* and only a test has a result to tell.                                   *)
ListInv ==
  /\ Program(main) /\ Program(binder) /\ ~ In(main, "refusal")
  /\ \A x : In(todo["test"], x) => x \in {"result", "refusal", "finish"}
  /\ binder # << >> => revoked /\ Final(binder, "kill")

TodoType == todo \in [Threads -> Seq(StepNames)]

(* A stop is past the join: that of the main thread, or that of onRevoke.  *)
Through == (Final(main, "kill") /\ Clear(main)) \/ (revoked /\ Clear(binder))

(* The trojan thread and the globals of the JNI glue agree, and only a     *)
(* stop that is past its join has joined the thread or freed the Service.  *)
ThreadInv ==
  /\ trojan \in {"loading", "binding"} => trojanThread /\ trojanService # "live"
  /\ trojan \in {"made", "running"} => trojanThread /\ trojanService = "live"
  /\ trojan = "exited" => trojanService # "null" /\ io_stopped
  /\ trojan = "none" => trojanService = "null" /\ ~ trojanThread
  /\ trojanService = "live" => trojanThread
  /\ trojan # "none" => trojanThread \/ joined
  /\ joined \/ trojanService = "freed" => Through

(* A thread in the middle of JNIHelper.stop finds what it needs, and the   *)
(* two stops do not both wait or delete.                                   *)
StopInv ==
  /\ \A t \in Threads :
       /\ \A x \in {"serviceStop", "join", "wait", "delete"} :
            First(todo[t], x) => trojan # "none"
       /\ \A x \in {"join", "wait", "delete"} : First(todo[t], x) => trojanService # "null"
       /\ \A x \in {"wait", "delete"} : First(todo[t], x) => trojanThread /\ joined
       /\ First(todo[t], "delete") => trojan = "exited"
  /\ \A x, y \in {"wait", "delete"} : ~ (First(main, x) /\ First(binder, y))

(* Who joins has stopped the io_context. A Service freed under a thread    *)
(* that is being made takes onRevoke, whose stop is over, and a second     *)
(* start.                                                                  *)
WaitInv ==
  /\ trojanService = "freed" /\ trojan \in {"loading", "binding"} =>
       /\ revoked /\ starts > 1
       /\ Clear(binder) /\ ~ In(binder, "wait") /\ ~ In(binder, "delete")
  /\ \A t \in Threads : \A x \in {"join", "wait"} :
       First(todo[t], x) => io_stopped \/ (t = "main" /\ revoked /\ starts > 1)

(* A start that is handled is the first message; what had to be requested, *)
(* and what had to be requested twice.                                     *)
StartInv ==
  /\ Final(main, "return") => inbox # << >> /\ inbox[1] = "start"
  /\ \A i, j \in Waiting : i # j => starts > 1
  /\ Waiting # {} \/ requested \/ trojan # "none" => starts > 0
  /\ trojan # "none" /\ Waiting # {} /\ (~ Final(main, "return") \/ In(main, "trojan"))
       => starts > 1

(* Once stopSelf is behind and no start waits, the service is not          *)
(* requested; a stop that ended leaves no start to any thread.             *)
OffInv ==
  /\ main # << >> /\ ~ In(main, "stopSelf") /\ Waiting = {} => ~ requested
  /\ stop_ended = "finished" =>
       /\ ~ requested /\ Waiting = {} /\ state \notin {"STARTING", "STARTED"}
       /\ \A t \in Threads : ~ In(todo[t], "STARTING") /\ ~ In(todo[t], "STARTED")

(* On the last steps before the kill, STOPPED is the state, is being told, *)
(* and has been heard.                                                     *)
KillInv ==
  ~ revoked =>
    /\ 1 \in DOMAIN main /\ main[1] = "kill" /\ bound => heard = "STOPPED"
    /\ 2 \in DOMAIN main /\ main[2] = "kill" => telling["main"] = "STOPPED"
    /\ 3 \in DOMAIN main /\ main[3] = "kill" => state = "STOPPED"

(* How far a start has come says which ports agree. STARTED is not the     *)
(* state while a start has still to choose or to use its ports.            *)
PortInv ==
  /\ Final(main, "return") /\ ~ In(main, "ports") => config_port = trojan_port
  /\ Final(main, "return") /\ ~ In(main, "trojan") => trojan # "none"
  /\ Final(main, "return") /\ ~ In(main, "front") => upstream = trojan_port
  /\ Final(main, "return") /\ In(main, "front") /\ ~ First(main, "STARTING")
       => state # "STARTED"
  /\ trojan # "none" => config_port = trojan_port
  /\ state = "STARTED" => trojan # "none" /\ upstream = trojan_port
  /\ trojan \in {"binding", "made", "running", "exited"} /\ ~ kept =>
       /\ Final(main, "return") /\ ~ In(main, "trojan") => listen_port = trojan_port
       /\ state = "STARTED" => listen_port = trojan_port

-----------------------------------------------------------------------------
(* What the sequence library says of the rest of a list.                   *)
LEMMA TailFacts ==
  ASSUME NEW s \in Seq(StepNames), s # << >>
  PROVE  /\ Tail(s) \in Seq(StepNames) /\ Len(s) \in Nat /\ Len(s) >= 1
         /\ Len(Tail(s)) = Len(s) - 1
         /\ DOMAIN s = 1 .. Len(s) /\ DOMAIN Tail(s) = 1 .. Len(s) - 1
         /\ \A i \in DOMAIN Tail(s) : Tail(s)[i] = s[i + 1]
         /\ Head(s) = s[1] /\ 1 \in DOMAIN s
OBVIOUS

(* What is left of a program is one.                                       *)
LEMMA TailProgram ==
  ASSUME NEW s \in Seq(StepNames), s # << >>, Program(s)
  PROVE  Program(Tail(s))
<1>1. PICK q : q = Tail(s)
  OBVIOUS
<1>2. /\ q \in Seq(StepNames) /\ Len(s) \in Nat /\ Len(s) >= 1 /\ Len(q) = Len(s) - 1
      /\ DOMAIN s = 1 .. Len(s) /\ DOMAIN q = 1 .. Len(s) - 1
      /\ \A i \in DOMAIN q : q[i] = s[i + 1]
  BY <1>1, TailFacts
<1>3. Ordered(q)
  <2>1. SUFFICES ASSUME NEW i \in DOMAIN q, NEW j \in DOMAIN q, i < j
        PROVE  /\ q[i] \notin {"return", "kill"}
               /\ q[j] \notin {"serviceStop", "wait"}
               /\ q[i] \in {"nativeStop", "join", "wait", "delete"} => q[j] \notin Native
               /\ q[i] = "trojan" => q[j] \notin {"ports", "trojan"}
               /\ q[i] = "STARTED" => q[j] \notin {"ports", "trojan", "front"}
    BY DEF Ordered
  <2>2. /\ i + 1 \in DOMAIN s /\ j + 1 \in DOMAIN s /\ i + 1 < j + 1
        /\ q[i] = s[i + 1] /\ q[j] = s[j + 1]
    BY <1>2, <2>1
  <2> QED
    BY <2>2 DEF Program, Ordered
<1>4. Neighbours(q)
  <2>1. SUFFICES ASSUME NEW i \in DOMAIN q, i + 1 \in DOMAIN q
        PROVE  /\ q[i + 1] = "join" => q[i] = "serviceStop"
               /\ q[i + 1] = "delete" => q[i] \in {"join", "wait"}
               /\ q[i + 1] = "kill" => q[i] = "finish"
               /\ i + 2 \in DOMAIN q /\ q[i + 2] = "kill" => q[i] = "begin"
               /\ i + 3 \in DOMAIN q /\ q[i + 3] = "kill" => q[i] = "STOPPED"
    BY DEF Neighbours
  <2>k. PICK k : k = i + 1
    OBVIOUS
  <2>2. /\ k \in DOMAIN s /\ k + 1 \in DOMAIN s
        /\ q[i] = s[k] /\ q[i + 1] = s[k + 1]
        /\ i + 2 \in DOMAIN q => k + 2 \in DOMAIN s /\ q[i + 2] = s[k + 2]
        /\ i + 3 \in DOMAIN q => k + 3 \in DOMAIN s /\ q[i + 3] = s[k + 3]
    <3>1. (i + 1) + 1 = k + 1 /\ (i + 2) + 1 = k + 2 /\ (i + 3) + 1 = k + 3
      BY <1>2, <2>1, <2>k
    <3>2. \A n \in DOMAIN q : n + 1 \in DOMAIN s
      BY <1>2
    <3> QED
      BY <1>2, <2>1, <2>k, <3>1, <3>2
  <2> QED
    BY <2>2 DEF Program, Neighbours
<1>5. Ahead(q)
  <2>1. SUFFICES ASSUME NEW i \in DOMAIN q, q[i] \in {"rules", "establish", "ports"}
        PROVE  \E j, k \in DOMAIN q : i < j /\ q[j] = "trojan" /\ i < k /\ q[k] = "front"
    BY DEF Ahead
  <2>2. i + 1 \in DOMAIN s /\ s[i + 1] \in {"rules", "establish", "ports"}
    BY <1>2, <2>1
  <2>3. PICK j, k \in DOMAIN s : i + 1 < j /\ s[j] = "trojan" /\ i + 1 < k /\ s[k] = "front"
    BY <2>2 DEF Program, Ahead
  <2>4. /\ j - 1 \in DOMAIN q /\ k - 1 \in DOMAIN q /\ i < j - 1 /\ i < k - 1
        /\ q[j - 1] = s[j] /\ q[k - 1] = s[k]
    BY <1>2, <2>3, SMTT(30)
  <2> QED
    BY <2>3, <2>4
<1>6. Sided(q)
  <2>1. SUFFICES ASSUME NEW i \in DOMAIN q
        PROVE  /\ q[i] \in Opening => q[Len(q)] = "return"
               /\ q[i] \in Closing => q[Len(q)] = "kill"
               /\ q[Len(q)] \in {"return", "kill"}
    BY DEF Sided
  <2>2. i + 1 \in DOMAIN s /\ q[i] = s[i + 1] /\ q[Len(q)] = s[Len(s)]
    BY <1>2, <2>1
  <2> QED
    BY <2>2 DEF Program, Sided
<1> QED
  BY <1>1, <1>3, <1>4, <1>5, <1>6 DEF Program

-----------------------------------------------------------------------------
(* The programs, step by step.                                             *)
LEMMA Concat ==
  ASSUME NEW s \in Seq(StepNames), NEW t \in Seq(StepNames)
  PROVE  /\ s \o t \in Seq(StepNames) /\ Len(s \o t) = Len(s) + Len(t)
         /\ DOMAIN (s \o t) = 1 .. Len(s) + Len(t)
         /\ \A i \in 1 .. Len(s) : (s \o t)[i] = s[i]
         /\ \A i \in 1 .. Len(t) : (s \o t)[Len(s) + i] = t[i]
OBVIOUS

(* The names of steps.                                                     *)
LEMMA NamesFacts ==
  /\ \A x \in States : x \in StepNames
  /\ \A x \in {"begin", "finish", "result", "refusal", "rules", "establish", "ports", "trojan",
              "front", "return", "close", "nativeStop", "serviceStop", "join", "wait",
              "delete", "stopSelf", "kill"} : x \in StepNames
BY DEF StepNames

(* Short lists.                                                            *)
LEMMA Single ==
  ASSUME NEW x \in StepNames
  PROVE  <<x>> \in Seq(StepNames) /\ Len(<<x>>) = 1 /\ <<x>>[1] = x
OBVIOUS

LEMMA Pair ==
  ASSUME NEW x \in StepNames, NEW y \in StepNames
  PROVE  /\ <<x, y>> \in Seq(StepNames) /\ Len(<<x, y>>) = 2
         /\ <<x, y>>[1] = x /\ <<x, y>>[2] = y
OBVIOUS

LEMMA Triple ==
  ASSUME NEW x \in StepNames, NEW y \in StepNames, NEW z \in StepNames
  PROVE  /\ <<x, y, z>> \in Seq(StepNames) /\ Len(<<x, y, z>>) = 3
         /\ <<x, y, z>>[1] = x /\ <<x, y, z>>[2] = y /\ <<x, y, z>>[3] = z
OBVIOUS

LEMMA Quintuple ==
  ASSUME NEW x1 \in StepNames, NEW x2 \in StepNames, NEW x3 \in StepNames,
         NEW x4 \in StepNames, NEW x5 \in StepNames
  PROVE  LET s == <<x1, x2, x3, x4, x5>> IN
         /\ s \in Seq(StepNames) /\ Len(s) = 5
         /\ s[1] = x1 /\ s[2] = x2 /\ s[3] = x3 /\ s[4] = x4 /\ s[5] = x5
OBVIOUS

(* What s \o t is.                                                         *)
Joined(s, t, q) ==
  /\ q = s \o t
  /\ Len(q) = Len(s) + Len(t) /\ DOMAIN q = 1 .. Len(s) + Len(t)
  /\ \A i \in 1 .. Len(s) : q[i] = s[i]
  /\ \A i \in 1 .. Len(t) : q[Len(s) + i] = t[i]

LEMMA Concatenation ==
  \A s \in Seq(StepNames) : \A t \in Seq(StepNames) :
    \E q \in Seq(StepNames) : Joined(s, t, q)
BY Concat DEF Joined

(* The program of a stop, step by step: its parts are joined two by two.   *)
LEMMA SetStateFacts ==
  ASSUME NEW x \in States
  PROVE  /\ SetState(x) \in Seq(StepNames) /\ Len(SetState(x)) = 3
         /\ SetState(x)[1] = x /\ SetState(x)[2] = "begin" /\ SetState(x)[3] = "finish"
BY NamesFacts, Triple DEF SetState

LEMMA StopFacts ==
  /\ Stop \in Seq(StepNames) /\ Len(Stop) = 10 /\ DOMAIN Stop = 1 .. 10
  /\ Stop[1] = "STOPPING" /\ Stop[2] = "begin" /\ Stop[3] = "finish"
  /\ Stop[4] = "close" /\ Stop[5] = "nativeStop" /\ Stop[6] = "stopSelf"
  /\ Stop[7] = "STOPPED" /\ Stop[8] = "begin" /\ Stop[9] = "finish" /\ Stop[10] = "kill"
<1>1. PICK a : a = SetState("STOPPING")
  OBVIOUS
<1>2. PICK b : b = <<"close", "nativeStop", "stopSelf">>
  OBVIOUS
<1>3. PICK c : c = SetState("STOPPED")
  OBVIOUS
<1>4. PICK d : d = <<"kill">>
  OBVIOUS
<1>5. Stop = ((a \o b) \o c) \o d
  BY <1>1, <1>2, <1>3, <1>4 DEF Stop, Shutdown
<1>6. a \in Seq(StepNames) /\ Len(a) = 3 /\ a[1] = "STOPPING" /\ a[2] = "begin" /\ a[3] = "finish"
  BY <1>1, SetStateFacts DEF States
<1>7. b \in Seq(StepNames) /\ Len(b) = 3 /\ b[1] = "close" /\ b[2] = "nativeStop" /\ b[3] = "stopSelf"
  BY <1>2, NamesFacts, Triple
<1>8. c \in Seq(StepNames) /\ Len(c) = 3 /\ c[1] = "STOPPED" /\ c[2] = "begin" /\ c[3] = "finish"
  BY <1>3, SetStateFacts DEF States
<1>9. d \in Seq(StepNames) /\ Len(d) = 1 /\ d[1] = "kill"
  BY <1>4, NamesFacts, Single
<1>10. PICK e \in Seq(StepNames) : Joined(a, b, e)
  BY <1>6, <1>7, Concatenation
<1>11. /\ Len(e) = 6
       /\ e[1] = a[1] /\ e[2] = a[2] /\ e[3] = a[3] /\ e[4] = b[1] /\ e[5] = b[2] /\ e[6] = b[3]
  <2>1. /\ Len(e) = 3 + 3 /\ DOMAIN e = 1 .. 3 + 3
        /\ \A i \in 1 .. 3 : e[i] = a[i]
        /\ \A i \in 1 .. 3 : e[3 + i] = b[i]
    BY <1>6, <1>7, <1>10 DEF Joined
  <2>2. /\ e[3 + 1] = b[1] /\ e[3 + 2] = b[2] /\ e[3 + 3] = b[3]
    BY <2>1
  <2> QED
    BY <2>1, <2>2
<1>12. PICK f \in Seq(StepNames) : Joined(e, c, f)
  BY <1>8, Concatenation
<1>13. /\ Len(f) = 9
       /\ \A i \in 1 .. 6 : f[i] = e[i]
       /\ f[7] = c[1] /\ f[8] = c[2] /\ f[9] = c[3]
  <2>1. /\ Len(f) = 6 + 3 /\ DOMAIN f = 1 .. 6 + 3
        /\ \A i \in 1 .. 6 : f[i] = e[i]
        /\ \A i \in 1 .. 3 : f[6 + i] = c[i]
    <3>1. /\ Len(f) = Len(e) + Len(c) /\ DOMAIN f = 1 .. Len(e) + Len(c)
          /\ \A i \in 1 .. Len(e) : f[i] = e[i]
          /\ \A i \in 1 .. Len(c) : f[Len(e) + i] = c[i]
      BY <1>12 DEF Joined
    <3> QED
      BY <1>8, <1>11, <3>1
  <2>2. /\ f[6 + 1] = c[1] /\ f[6 + 2] = c[2] /\ f[6 + 3] = c[3]
    BY <2>1
  <2> QED
    BY <2>1, <2>2
<1>14. PICK g \in Seq(StepNames) : Joined(f, d, g)
  BY <1>9, Concatenation
<1>15. /\ Len(g) = 10 /\ DOMAIN g = 1 .. 10
       /\ \A i \in 1 .. 9 : g[i] = f[i]
       /\ g[10] = d[1]
  <2>1. /\ Len(g) = 9 + 1 /\ DOMAIN g = 1 .. 9 + 1
        /\ \A i \in 1 .. 9 : g[i] = f[i]
        /\ \A i \in 1 .. 1 : g[9 + i] = d[i]
    BY <1>9, <1>12, <1>13, <1>14 DEF Joined
  <2>2. /\ g[9 + 1] = d[1]
    BY <2>1
  <2> QED
    BY <2>1, <2>2
<1>16. Stop = g
  BY <1>5, <1>10, <1>12, <1>14 DEF Joined
<1>17. /\ g[1] = a[1] /\ g[2] = a[2] /\ g[3] = a[3] /\ g[4] = b[1] /\ g[5] = b[2] /\ g[6] = b[3]
       /\ g[7] = c[1] /\ g[8] = c[2] /\ g[9] = c[3] /\ g[10] = d[1]
  BY <1>11, <1>13, <1>15
<1> QED
  BY <1>6, <1>7, <1>8, <1>9, <1>15, <1>16, <1>17

(* The program of a start.                                                 *)
LEMMA StartFacts ==
  LET s == OnStartCommand IN
  /\ s \in Seq(StepNames) /\ Len(s) = 12 /\ DOMAIN s = 1 .. 12
  /\ s[1] = "STARTING" /\ s[2] = "begin" /\ s[3] = "finish"
  /\ s[4] = "rules" /\ s[5] = "establish" /\ s[6] = "ports" /\ s[7] = "trojan"
  /\ s[8] = "front" /\ s[9] = "STARTED" /\ s[10] = "begin" /\ s[11] = "finish"
  /\ s[12] = "return"
<1>1. PICK a : a = SetState("STARTING")
  OBVIOUS
<1>2. PICK b : b = <<"rules", "establish", "ports", "trojan", "front">>
  OBVIOUS
<1>3. PICK c : c = SetState("STARTED")
  OBVIOUS
<1>4. PICK d : d = <<"return">>
  OBVIOUS
<1>5. OnStartCommand = ((a \o b) \o c) \o d
  BY <1>1, <1>2, <1>3, <1>4 DEF OnStartCommand
<1>6. a \in Seq(StepNames) /\ Len(a) = 3 /\ a[1] = "STARTING" /\ a[2] = "begin" /\ a[3] = "finish"
  BY <1>1, SetStateFacts DEF States
<1>7. /\ b \in Seq(StepNames) /\ Len(b) = 5 /\ b[1] = "rules" /\ b[2] = "establish"
      /\ b[3] = "ports" /\ b[4] = "trojan" /\ b[5] = "front"
  BY <1>2, NamesFacts, Quintuple
<1>8. c \in Seq(StepNames) /\ Len(c) = 3 /\ c[1] = "STARTED" /\ c[2] = "begin" /\ c[3] = "finish"
  BY <1>3, SetStateFacts DEF States
<1>9. d \in Seq(StepNames) /\ Len(d) = 1 /\ d[1] = "return"
  BY <1>4, NamesFacts, Single
<1>10. PICK e \in Seq(StepNames) : Joined(a, b, e)
  BY <1>6, <1>7, Concatenation
<1>11. /\ Len(e) = 8
       /\ e[1] = a[1] /\ e[2] = a[2] /\ e[3] = a[3] /\ e[4] = b[1] /\ e[5] = b[2] /\ e[6] = b[3]
       /\ e[7] = b[4] /\ e[8] = b[5]
  <2>1. /\ Len(e) = 3 + 5 /\ DOMAIN e = 1 .. 3 + 5
        /\ \A i \in 1 .. 3 : e[i] = a[i]
        /\ \A i \in 1 .. 5 : e[3 + i] = b[i]
    BY <1>6, <1>7, <1>10 DEF Joined
  <2>2. /\ e[3 + 1] = b[1] /\ e[3 + 2] = b[2] /\ e[3 + 3] = b[3] /\ e[3 + 4] = b[4]
        /\ e[3 + 5] = b[5]
    BY <2>1
  <2> QED
    BY <2>1, <2>2
<1>12. PICK f \in Seq(StepNames) : Joined(e, c, f)
  BY <1>8, Concatenation
<1>13. /\ Len(f) = 11
       /\ \A i \in 1 .. 8 : f[i] = e[i]
       /\ f[9] = c[1] /\ f[10] = c[2] /\ f[11] = c[3]
  <2>1. /\ Len(f) = 8 + 3 /\ DOMAIN f = 1 .. 8 + 3
        /\ \A i \in 1 .. 8 : f[i] = e[i]
        /\ \A i \in 1 .. 3 : f[8 + i] = c[i]
    <3>1. /\ Len(f) = Len(e) + Len(c) /\ DOMAIN f = 1 .. Len(e) + Len(c)
          /\ \A i \in 1 .. Len(e) : f[i] = e[i]
          /\ \A i \in 1 .. Len(c) : f[Len(e) + i] = c[i]
      BY <1>12 DEF Joined
    <3> QED
      BY <1>8, <1>11, <3>1
  <2>2. /\ f[8 + 1] = c[1] /\ f[8 + 2] = c[2] /\ f[8 + 3] = c[3]
    BY <2>1
  <2> QED
    BY <2>1, <2>2
<1>14. PICK g \in Seq(StepNames) : Joined(f, d, g)
  BY <1>9, Concatenation
<1>15. /\ Len(g) = 12 /\ DOMAIN g = 1 .. 12
       /\ \A i \in 1 .. 11 : g[i] = f[i]
       /\ g[12] = d[1]
  <2>1. /\ Len(g) = 11 + 1 /\ DOMAIN g = 1 .. 11 + 1
        /\ \A i \in 1 .. 11 : g[i] = f[i]
        /\ \A i \in 1 .. 1 : g[11 + i] = d[i]
    BY <1>9, <1>12, <1>13, <1>14 DEF Joined
  <2>2. /\ g[11 + 1] = d[1]
    BY <2>1
  <2> QED
    BY <2>1, <2>2
<1>16. OnStartCommand = g
  BY <1>5, <1>10, <1>12, <1>14 DEF Joined
<1>17. /\ g[1] = a[1] /\ g[2] = a[2] /\ g[3] = a[3] /\ g[4] = b[1] /\ g[5] = b[2] /\ g[6] = b[3]
       /\ g[7] = b[4] /\ g[8] = b[5]
       /\ g[9] = c[1] /\ g[10] = c[2] /\ g[11] = c[3] /\ g[12] = d[1]
  BY <1>11, <1>13, <1>15
<1> QED
  BY <1>6, <1>7, <1>8, <1>9, <1>15, <1>16, <1>17

(* onDestroy.                                                              *)
Destruction == SetState("STOPPED") \o Stop

(* The program of onDestroy.                                               *)
LEMMA DestructionFacts ==
  LET s == Destruction IN
  /\ s \in Seq(StepNames) /\ Len(s) = 13 /\ DOMAIN s = 1 .. 13
  /\ s[1] = "STOPPED" /\ s[2] = "begin" /\ s[3] = "finish"
  /\ s[4] = "STOPPING" /\ s[5] = "begin" /\ s[6] = "finish"
  /\ s[7] = "close" /\ s[8] = "nativeStop" /\ s[9] = "stopSelf"
  /\ s[10] = "STOPPED" /\ s[11] = "begin" /\ s[12] = "finish" /\ s[13] = "kill"
<1>1. PICK a : a = SetState("STOPPED")
  OBVIOUS
<1>2. PICK b : b = Stop
  OBVIOUS
<1>3. a \in Seq(StepNames) /\ Len(a) = 3 /\ a[1] = "STOPPED" /\ a[2] = "begin" /\ a[3] = "finish"
  BY <1>1, SetStateFacts DEF States
<1>4. /\ b \in Seq(StepNames) /\ Len(b) = 10
      /\ b[1] = "STOPPING" /\ b[2] = "begin" /\ b[3] = "finish"
      /\ b[4] = "close" /\ b[5] = "nativeStop" /\ b[6] = "stopSelf"
      /\ b[7] = "STOPPED" /\ b[8] = "begin" /\ b[9] = "finish" /\ b[10] = "kill"
  BY <1>2, StopFacts
<1>5. PICK g \in Seq(StepNames) : Joined(a, b, g)
  BY <1>3, <1>4, Concatenation
<1>6. /\ Len(g) = 13 /\ DOMAIN g = 1 .. 13
      /\ g[1] = a[1] /\ g[2] = a[2] /\ g[3] = a[3] /\ g[4] = b[1] /\ g[5] = b[2] /\ g[6] = b[3]
      /\ g[7] = b[4] /\ g[8] = b[5] /\ g[9] = b[6] /\ g[10] = b[7] /\ g[11] = b[8]
      /\ g[12] = b[9] /\ g[13] = b[10]
  <2>1. /\ Len(g) = 3 + 10 /\ DOMAIN g = 1 .. 3 + 10
        /\ \A i \in 1 .. 3 : g[i] = a[i]
        /\ \A i \in 1 .. 10 : g[3 + i] = b[i]
    BY <1>3, <1>4, <1>5 DEF Joined
  <2>2. /\ g[3 + 1] = b[1] /\ g[3 + 2] = b[2] /\ g[3 + 3] = b[3] /\ g[3 + 4] = b[4]
        /\ g[3 + 5] = b[5] /\ g[3 + 6] = b[6] /\ g[3 + 7] = b[7] /\ g[3 + 8] = b[8]
        /\ g[3 + 9] = b[9] /\ g[3 + 10] = b[10]
    BY <2>1
  <2> QED
    BY <2>1, <2>2
<1>7. Destruction = g
  BY <1>1, <1>2, <1>5 DEF Joined, Destruction
<1> QED
  BY <1>3, <1>4, <1>6, <1>7

-----------------------------------------------------------------------------
(* Lists that are programs.                                                *)

(* What is left when the first step of s has been made.                    *)
Popped(s, q) ==
  /\ \A x : In(q, x) => In(s, x)
  /\ \A x : In(s, x) => In(q, x) \/ First(s, x)
  /\ \A x : Final(q, x) => Final(s, x)
  /\ \A x : Final(s, x) => Final(q, x) \/ First(s, x)
  /\ Clear(s) => Clear(q)

(* The rest of a list is what is left of it.                               *)
LEMMA TailPopped ==
  ASSUME NEW s \in Seq(StepNames), s # << >>
  PROVE  Popped(s, Tail(s))
<1>1. PICK q : q = Tail(s)
  OBVIOUS
<1>2. /\ q \in Seq(StepNames) /\ Len(s) \in Nat /\ Len(s) >= 1 /\ Len(q) = Len(s) - 1
      /\ DOMAIN s = 1 .. Len(s) /\ DOMAIN q = 1 .. Len(s) - 1
      /\ \A i \in DOMAIN q : q[i] = s[i + 1]
  BY <1>1, TailFacts
<1>3. \A i \in DOMAIN q : i + 1 \in DOMAIN s
  BY <1>2
<1>4. \A x : In(q, x) => In(s, x)
  BY <1>2, <1>3 DEF In
<1>5. ASSUME NEW x, In(s, x) PROVE In(q, x) \/ First(s, x)
  <2>1. PICK i \in DOMAIN s : s[i] = x
    BY <1>5 DEF In
  <2>2. CASE i = 1
    BY <2>1, <2>2 DEF First
  <2>3. CASE i # 1
    <3>1. i - 1 \in DOMAIN q /\ q[i - 1] = s[i]
      BY <1>2, <2>3
    <3> QED
      BY <2>1, <3>1 DEF In
  <2> QED
    BY <2>2, <2>3
<1>6. q # << >> => Len(s) > 1 /\ Len(q) \in DOMAIN q /\ q[Len(q)] = s[Len(s)]
  BY <1>2
<1>7. q = << >> => Len(s) = 1
  BY <1>2
<1>8. \A x : Final(q, x) => Final(s, x)
  BY <1>6 DEF Final
<1>9. \A x : Final(s, x) => Final(q, x) \/ First(s, x)
  BY <1>6, <1>7 DEF Final, First
<1>10. Clear(s) => Clear(q)
  BY <1>2, <1>3 DEF Clear
<1> QED
  BY <1>1, <1>4, <1>5, <1>8, <1>9, <1>10 DEF Popped

(* Which steps come first when one has been made.                          *)
Follows(s, q) ==
  /\ ~ First(q, "serviceStop") /\ ~ First(q, "wait")
  /\ First(q, "join") => First(s, "serviceStop")
  /\ First(q, "delete") => First(s, "join") \/ First(s, "wait")

(* After a step of JNIHelper.stop comes the next one.                      *)
LEMMA TailFollows ==
  ASSUME NEW s \in Seq(StepNames), s # << >>, Program(s)
  PROVE  Follows(s, Tail(s))
<1>1. PICK q : q = Tail(s)
  OBVIOUS
<1>2. /\ q \in Seq(StepNames) /\ Len(s) \in Nat /\ Len(s) >= 1 /\ Len(q) = Len(s) - 1
      /\ DOMAIN s = 1 .. Len(s) /\ DOMAIN q = 1 .. Len(s) - 1
      /\ \A i \in DOMAIN q : q[i] = s[i + 1]
  BY <1>1, TailFacts
<1>3. q # << >> => 1 \in DOMAIN s /\ 2 \in DOMAIN s /\ 1 + 1 \in DOMAIN s /\ q[1] = s[2] /\ q[1] = s[1 + 1]
  BY <1>2
<1>4. q # << >> => q[1] \notin {"serviceStop", "wait"}
  <2>1. 1 < 2
    OBVIOUS
  <2> QED
    BY <1>3, <2>1 DEF Program, Ordered
<1>5. q # << >> =>
        /\ q[1] = "join" => s[1] = "serviceStop"
        /\ q[1] = "delete" => s[1] \in {"join", "wait"}
  BY <1>3 DEF Program, Neighbours
<1> QED
  BY <1>1, <1>4, <1>5 DEF Follows, First

(* What a program says of its first step.                                  *)
LEMMA FirstFacts ==
  ASSUME NEW s \in Seq(StepNames), Program(s), NEW x, First(s, x)
  PROVE  /\ In(s, x)
         /\ x \in Opening => Final(s, "return")
         /\ x \in Closing => Final(s, "kill")
         /\ x \in Native => ~ Clear(s)
         /\ Final(s, "return") \/ Final(s, "kill")
<1>1. 1 \in DOMAIN s /\ s[1] = x /\ s # << >>
  BY DEF First
<1> QED
  BY <1>1 DEF In, Final, Clear, Program, Sided

(* A list has one end.                                                     *)
LEMMA OneFinal ==
  ASSUME NEW s, Final(s, "return")
  PROVE  ~ Final(s, "kill")
BY DEF Final

-----------------------------------------------------------------------------
(* The lists that the code makes are programs.                             *)
LEMMA Bounded ==
  ASSUME NEW n \in Nat
  PROVE  \A i \in 1 .. n : i \in Int /\ i <= n
OBVIOUS

LEMMA NotEmpty ==
  ASSUME NEW s, Len(s) # 0
  PROVE  s # << >>
OBVIOUS

(* The places of the programs.                                             *)
LEMMA Numbers ==
  /\ \A i \in 1 .. 10 : i \in {1, 2, 3, 4, 5, 6, 7, 8, 9, 10}
  /\ \A i \in 1 .. 12 : i \in {1, 2, 3, 4, 5, 6, 7, 8, 9, 10, 11, 12}
  /\ \A i \in 1 .. 13 : i \in {1, 2, 3, 4, 5, 6, 7, 8, 9, 10, 11, 12, 13}
OBVIOUS

(* The stop is a program, and its kill is far ahead.                       *)
LEMMA StopProgram ==
  /\ Program(Stop) /\ Final(Stop, "kill") /\ ~ Final(Stop, "return")
  /\ \A x \in {"serviceStop", "join", "wait", "delete"} : ~ First(Stop, x)
  /\ In(Stop, "stopSelf") /\ ~ In(Stop, "STARTING") /\ ~ In(Stop, "STARTED")
  /\ \A i \in 1 .. 3 : i \in DOMAIN Stop => Stop[i] # "kill"
  /\ ~ In(Stop, "wait") /\ ~ In(Stop, "delete") /\ ~ In(Stop, "trojan") /\ ~ In(Stop, "refusal")
<1>1. PICK s : s = Stop
  OBVIOUS
<1>2. /\ Len(s) = 10 /\ DOMAIN s = 1 .. 10
      /\ s[1] = "STOPPING" /\ s[2] = "begin" /\ s[3] = "finish"
      /\ s[4] = "close" /\ s[5] = "nativeStop" /\ s[6] = "stopSelf"
      /\ s[7] = "STOPPED" /\ s[8] = "begin" /\ s[9] = "finish" /\ s[10] = "kill"
  BY <1>1, StopFacts
<1>l. Len(s) = 10
  BY <1>2
<1>d. DOMAIN s = 1 .. 10
  BY <1>2
<1>3. ASSUME NEW i \in DOMAIN s
      PROVE  /\ s[i] \notin {"serviceStop", "join", "wait", "delete", "rules", "establish",
                             "ports", "trojan", "front", "STARTED", "STARTING", "return",
                             "refusal"}
             /\ s[i] = "kill" => i = 10
             /\ s[i] = "nativeStop" => i = 5
  <2>1. i \in {1, 2, 3, 4, 5, 6, 7, 8, 9, 10}
    BY <1>2, <1>3, Numbers
  <2> QED
    BY <1>2, <2>1
<1>4. \A i \in DOMAIN s : i \in Int /\ i <= 10
  BY <1>d, Bounded
<1>5. Ordered(s)
  <2>1. SUFFICES ASSUME NEW i \in DOMAIN s, NEW j \in DOMAIN s, i < j
        PROVE  /\ s[i] \notin {"return", "kill"}
               /\ s[j] \notin {"serviceStop", "wait"}
               /\ s[i] \in {"nativeStop", "join", "wait", "delete"} => s[j] \notin Native
               /\ s[i] = "trojan" => s[j] \notin {"ports", "trojan"}
               /\ s[i] = "STARTED" => s[j] \notin {"ports", "trojan", "front"}
    BY DEF Ordered
  <2>2. i # 10
    BY <1>4, <2>1
  <2>3. s[i] # "kill"
    BY <1>3, <2>2
  <2>4. s[i] \notin {"return", "join", "wait", "delete", "trojan", "STARTED"}
    BY <1>3
  <2>5. s[j] \notin {"serviceStop", "wait"}
    BY <1>3
  <2>6. s[i] = "nativeStop" => s[j] \notin Native
    <3>1. i # j
      BY <2>1, <1>4
    <3>2. s[i] = "nativeStop" => s[j] # "nativeStop"
      BY <1>3, <3>1
    <3>3. s[j] \notin {"serviceStop", "join"}
      BY <1>3
    <3> QED
      BY <3>2, <3>3 DEF Native
  <2> QED
    BY <2>3, <2>4, <2>5, <2>6
<1>6. Neighbours(s)
  <2>1. SUFFICES ASSUME NEW i \in DOMAIN s, i + 1 \in DOMAIN s
        PROVE  /\ s[i + 1] = "join" => s[i] = "serviceStop"
               /\ s[i + 1] = "delete" => s[i] \in {"join", "wait"}
               /\ s[i + 1] = "kill" => s[i] = "finish"
               /\ i + 2 \in DOMAIN s /\ s[i + 2] = "kill" => s[i] = "begin"
               /\ i + 3 \in DOMAIN s /\ s[i + 3] = "kill" => s[i] = "STOPPED"
    BY DEF Neighbours
  <2>2. /\ s[i + 1] = "kill" => i = 9
        /\ i + 2 \in DOMAIN s /\ s[i + 2] = "kill" => i = 8
        /\ i + 3 \in DOMAIN s /\ s[i + 3] = "kill" => i = 7
    <3>1. s[i + 1] = "kill" => i + 1 = 10
      BY <1>3, <2>1
    <3>2. i + 2 \in DOMAIN s /\ s[i + 2] = "kill" => i + 2 = 10
      BY <1>3
    <3>3. i + 3 \in DOMAIN s /\ s[i + 3] = "kill" => i + 3 = 10
      BY <1>3
    <3> QED
      BY <1>4, <3>1, <3>2, <3>3
  <2>3. s[i + 1] \notin {"join", "delete"}
    BY <1>3, <2>1
  <2> QED
    BY <1>2, <2>2, <2>3
<1>7. Ahead(s)
  BY <1>3 DEF Ahead
<1>8. s # << >> /\ 6 \in DOMAIN s
  <2>1. Len(s) # 0
    BY <1>l
  <2> QED
    BY <1>d, <2>1, NotEmpty
<1>9. Sided(s)
  <2>1. s[Len(s)] = "kill"
    BY <1>2
  <2>2. \A i \in DOMAIN s : s[i] \notin Opening
    BY <1>3 DEF Opening
  <2> QED
    BY <2>1, <2>2 DEF Sided
<1>10. \A i \in 1 .. 3 : i \in DOMAIN s => s[i] # "kill"
  <2>1. \A i \in 1 .. 3 : i # 10
    OBVIOUS
  <2> QED
    BY <1>3, <2>1
<1>11. \A x \in {"serviceStop", "join", "wait", "delete"} : ~ First(s, x)
  BY <1>2 DEF First
<1>12. Final(s, "kill") /\ ~ Final(s, "return")
  BY <1>2, <1>8 DEF Final
<1>13. /\ In(s, "stopSelf") /\ ~ In(s, "STARTING") /\ ~ In(s, "STARTED")
       /\ ~ In(s, "wait") /\ ~ In(s, "delete") /\ ~ In(s, "trojan") /\ ~ In(s, "refusal")
  BY <1>2, <1>3, <1>8 DEF In
<1> QED
  BY <1>1, <1>5, <1>6, <1>7, <1>9, <1>10, <1>11, <1>12, <1>13 DEF Program

(* So is onDestroy.                                                        *)
LEMMA DestructionProgram ==
  LET s == Destruction IN
  /\ Program(s) /\ Final(s, "kill") /\ ~ Final(s, "return")
  /\ \A x \in {"serviceStop", "join", "wait", "delete"} : ~ First(s, x)
  /\ In(s, "stopSelf") /\ ~ In(s, "STARTING") /\ ~ In(s, "STARTED")
  /\ \A i \in 1 .. 3 : i \in DOMAIN s => s[i] # "kill"
  /\ ~ In(s, "trojan") /\ ~ In(s, "refusal")
<1>1. PICK s : s = Destruction
  OBVIOUS
<1>2. /\ Len(s) = 13 /\ DOMAIN s = 1 .. 13
      /\ s[1] = "STOPPED" /\ s[2] = "begin" /\ s[3] = "finish"
      /\ s[4] = "STOPPING" /\ s[5] = "begin" /\ s[6] = "finish"
      /\ s[7] = "close" /\ s[8] = "nativeStop" /\ s[9] = "stopSelf"
      /\ s[10] = "STOPPED" /\ s[11] = "begin" /\ s[12] = "finish" /\ s[13] = "kill"
  BY <1>1, DestructionFacts
<1>l. Len(s) = 13
  BY <1>2
<1>d. DOMAIN s = 1 .. 13
  BY <1>2
<1>3. ASSUME NEW i \in DOMAIN s
      PROVE  /\ s[i] \notin {"serviceStop", "join", "wait", "delete", "rules", "establish",
                             "ports", "trojan", "front", "STARTED", "STARTING", "return",
                             "refusal"}
             /\ s[i] = "kill" => i = 13
             /\ s[i] = "nativeStop" => i = 8
  <2>1. i \in {1, 2, 3, 4, 5, 6, 7, 8, 9, 10, 11, 12, 13}
    BY <1>2, <1>3, Numbers
  <2> QED
    BY <1>2, <2>1
<1>4. \A i \in DOMAIN s : i \in Int /\ i <= 13
  BY <1>d, Bounded
<1>5. Ordered(s)
  <2>1. SUFFICES ASSUME NEW i \in DOMAIN s, NEW j \in DOMAIN s, i < j
        PROVE  /\ s[i] \notin {"return", "kill"}
               /\ s[j] \notin {"serviceStop", "wait"}
               /\ s[i] \in {"nativeStop", "join", "wait", "delete"} => s[j] \notin Native
               /\ s[i] = "trojan" => s[j] \notin {"ports", "trojan"}
               /\ s[i] = "STARTED" => s[j] \notin {"ports", "trojan", "front"}
    BY DEF Ordered
  <2>2. i # 13
    BY <1>4, <2>1
  <2>3. s[i] # "kill"
    BY <1>3, <2>2
  <2>4. s[i] \notin {"return", "join", "wait", "delete", "trojan", "STARTED"}
    BY <1>3
  <2>5. s[j] \notin {"serviceStop", "wait"}
    BY <1>3
  <2>6. s[i] = "nativeStop" => s[j] \notin Native
    <3>1. i # j
      BY <2>1, <1>4
    <3>2. s[i] = "nativeStop" => s[j] # "nativeStop"
      BY <1>3, <3>1
    <3>3. s[j] \notin {"serviceStop", "join"}
      BY <1>3
    <3> QED
      BY <3>2, <3>3 DEF Native
  <2> QED
    BY <2>3, <2>4, <2>5, <2>6
<1>6. Neighbours(s)
  <2>1. SUFFICES ASSUME NEW i \in DOMAIN s, i + 1 \in DOMAIN s
        PROVE  /\ s[i + 1] = "join" => s[i] = "serviceStop"
               /\ s[i + 1] = "delete" => s[i] \in {"join", "wait"}
               /\ s[i + 1] = "kill" => s[i] = "finish"
               /\ i + 2 \in DOMAIN s /\ s[i + 2] = "kill" => s[i] = "begin"
               /\ i + 3 \in DOMAIN s /\ s[i + 3] = "kill" => s[i] = "STOPPED"
    BY DEF Neighbours
  <2>2. /\ s[i + 1] = "kill" => i = 12
        /\ i + 2 \in DOMAIN s /\ s[i + 2] = "kill" => i = 11
        /\ i + 3 \in DOMAIN s /\ s[i + 3] = "kill" => i = 10
    <3>1. s[i + 1] = "kill" => i + 1 = 13
      BY <1>3, <2>1
    <3>2. i + 2 \in DOMAIN s /\ s[i + 2] = "kill" => i + 2 = 13
      BY <1>3
    <3>3. i + 3 \in DOMAIN s /\ s[i + 3] = "kill" => i + 3 = 13
      BY <1>3
    <3> QED
      BY <1>4, <3>1, <3>2, <3>3
  <2>3. s[i + 1] \notin {"join", "delete"}
    BY <1>3, <2>1
  <2> QED
    BY <1>2, <2>2, <2>3
<1>7. Ahead(s)
  BY <1>3 DEF Ahead
<1>8. s # << >> /\ 9 \in DOMAIN s
  <2>1. Len(s) # 0
    BY <1>l
  <2> QED
    BY <1>d, <2>1, NotEmpty
<1>9. Sided(s)
  <2>1. s[Len(s)] = "kill"
    BY <1>2
  <2>2. \A i \in DOMAIN s : s[i] \notin Opening
    BY <1>3 DEF Opening
  <2> QED
    BY <2>1, <2>2 DEF Sided
<1>10. \A i \in 1 .. 3 : i \in DOMAIN s => s[i] # "kill"
  <2>1. \A i \in 1 .. 3 : i # 13
    OBVIOUS
  <2> QED
    BY <1>3, <2>1
<1>11. \A x \in {"serviceStop", "join", "wait", "delete"} : ~ First(s, x)
  BY <1>2 DEF First
<1>12. Final(s, "kill") /\ ~ Final(s, "return")
  BY <1>2, <1>8 DEF Final
<1>13. /\ In(s, "stopSelf") /\ ~ In(s, "STARTING") /\ ~ In(s, "STARTED") /\ ~ In(s, "trojan")
       /\ ~ In(s, "refusal")
  BY <1>2, <1>3, <1>8 DEF In
<1> QED
  BY <1>1, <1>5, <1>6, <1>7, <1>9, <1>10, <1>11, <1>12, <1>13 DEF Program

(* So is a start.                                                          *)
LEMMA StartProgram ==
  LET s == OnStartCommand IN
  /\ Program(s) /\ Final(s, "return") /\ ~ Final(s, "kill")
  /\ \A x \in {"serviceStop", "join", "wait", "delete"} : ~ First(s, x)
  /\ In(s, "ports") /\ In(s, "trojan") /\ In(s, "front") /\ ~ In(s, "kill")
  /\ ~ In(s, "refusal") /\ First(s, "STARTING")
<1>1. PICK s : s = OnStartCommand
  OBVIOUS
<1>2. /\ Len(s) = 12 /\ DOMAIN s = 1 .. 12
      /\ s[1] = "STARTING" /\ s[2] = "begin" /\ s[3] = "finish"
      /\ s[4] = "rules" /\ s[5] = "establish" /\ s[6] = "ports" /\ s[7] = "trojan"
      /\ s[8] = "front" /\ s[9] = "STARTED" /\ s[10] = "begin" /\ s[11] = "finish"
      /\ s[12] = "return"
  BY <1>1, StartFacts
<1>l. Len(s) = 12
  BY <1>2
<1>d. DOMAIN s = 1 .. 12
  BY <1>2
<1>3. ASSUME NEW i \in DOMAIN s
      PROVE  /\ s[i] \notin {"serviceStop", "nativeStop", "join", "wait", "delete",
                             "stopSelf", "close", "STOPPING", "kill", "refusal"}
             /\ s[i] = "return" => i = 12
             /\ s[i] = "STARTED" => i = 9
             /\ s[i] = "trojan" => i = 7
             /\ s[i] = "front" => i = 8
             /\ s[i] = "ports" => i = 6
             /\ s[i] \in {"rules", "establish", "ports"} => i \in {4, 5, 6}
  <2>1. i \in {1, 2, 3, 4, 5, 6, 7, 8, 9, 10, 11, 12}
    <3>1. DOMAIN s = 1 .. 12
      BY <1>2
    <3> QED
      BY <1>3, <3>1, Numbers
  <2>2. s[i] \notin {"serviceStop", "nativeStop", "join", "wait", "delete"}
    BY <1>2, <2>1
  <2>3. s[i] \notin {"stopSelf", "close", "STOPPING", "kill", "refusal"}
    BY <1>2, <2>1
  <2>4. (s[i] = "return" => i = 12) /\ (s[i] = "STARTED" => i = 9)
    BY <1>2, <2>1
  <2>5. (s[i] = "trojan" => i = 7) /\ (s[i] = "front" => i = 8) /\ (s[i] = "ports" => i = 6)
    BY <1>2, <2>1
  <2>6. s[i] \in {"rules", "establish", "ports"} => i \in {4, 5, 6}
    BY <1>2, <2>1
  <2> QED
    BY <2>2, <2>3, <2>4, <2>5, <2>6
<1>4. \A i \in DOMAIN s : i \in Int /\ i <= 12
  BY <1>d, Bounded
<1>5. Ordered(s)
  <2>1. SUFFICES ASSUME NEW i \in DOMAIN s, NEW j \in DOMAIN s, i < j
        PROVE  /\ s[i] \notin {"return", "kill"}
               /\ s[j] \notin {"serviceStop", "wait"}
               /\ s[i] \in {"nativeStop", "join", "wait", "delete"} => s[j] \notin Native
               /\ s[i] = "trojan" => s[j] \notin {"ports", "trojan"}
               /\ s[i] = "STARTED" => s[j] \notin {"ports", "trojan", "front"}
    BY DEF Ordered
  <2>2. i \in Int /\ j \in Int /\ i <= 12 /\ j <= 12
    BY <1>4
  <2>3. i # 12
    BY <2>1, <2>2
  <2>4. s[i] \notin {"return", "kill", "join", "wait", "delete"} /\ s[j] \notin {"serviceStop", "wait"}
    BY <1>3, <2>3
  <2>5. s[i] = "trojan" => s[j] \notin {"ports", "trojan"}
    <3>1. s[i] = "trojan" => i = 7
      BY <1>3
    <3>2. (s[j] = "trojan" => j = 7) /\ (s[j] = "ports" => j = 6)
      BY <1>3
    <3> QED
      BY <2>1, <3>1, <3>2
  <2>6. s[i] = "STARTED" => s[j] \notin {"ports", "trojan", "front"}
    <3>1. s[i] = "STARTED" => i = 9
      BY <1>3
    <3>2. (s[j] = "trojan" => j = 7) /\ (s[j] = "ports" => j = 6) /\ (s[j] = "front" => j = 8)
      BY <1>3
    <3> QED
      BY <2>1, <3>1, <3>2
  <2>7. s[i] # "nativeStop"
    BY <1>3
  <2> QED
    BY <2>4, <2>5, <2>6, <2>7
<1>6. Neighbours(s)
  <2>1. \A i \in DOMAIN s : s[i] \notin {"join", "delete", "kill"}
    BY <1>3
  <2> QED
    BY <2>1 DEF Neighbours
<1>7. Ahead(s)
  <2>1. SUFFICES ASSUME NEW i \in DOMAIN s, s[i] \in {"rules", "establish", "ports"}
        PROVE  \E j, k \in DOMAIN s : i < j /\ s[j] = "trojan" /\ i < k /\ s[k] = "front"
    BY DEF Ahead
  <2>2. i < 7 /\ i \in Int
    <3>1. i \in {4, 5, 6}
      BY <1>3, <2>1
    <3> QED
      BY <3>1
  <2>3. 7 \in DOMAIN s /\ 8 \in DOMAIN s /\ i < 8
    BY <1>2, <2>2
  <2> QED
    BY <1>2, <2>2, <2>3
<1>8. s # << >> /\ 6 \in DOMAIN s /\ 7 \in DOMAIN s /\ 8 \in DOMAIN s
  <2>1. Len(s) # 0
    BY <1>l
  <2> QED
    BY <1>d, <2>1, NotEmpty
<1>9. Sided(s)
  <2>1. s[Len(s)] = "return"
    BY <1>2
  <2>2. \A i \in DOMAIN s : s[i] \notin Closing
    BY <1>3 DEF Closing
  <2> QED
    BY <2>1, <2>2 DEF Sided
<1>11. \A x \in {"serviceStop", "join", "wait", "delete"} : ~ First(s, x)
  BY <1>2 DEF First
<1>12. Final(s, "return") /\ ~ Final(s, "kill")
  BY <1>2, <1>8 DEF Final
<1>13. /\ In(s, "ports") /\ In(s, "trojan") /\ In(s, "front") /\ ~ In(s, "kill")
       /\ ~ In(s, "refusal")
  BY <1>2, <1>3, <1>8 DEF In
<1>14. First(s, "STARTING")
  BY <1>2, <1>8 DEF First
<1> QED
  BY <1>1, <1>5, <1>6, <1>7, <1>9, <1>11, <1>12, <1>13, <1>14 DEF Program

-----------------------------------------------------------------------------
(* The lists that are changed in their beginning.                          *)

(* A program that starts ends with "return", one that stops with "kill".   *)
LEMMA Sides ==
  ASSUME NEW s \in Seq(StepNames), Program(s)
  PROVE  /\ Final(s, "return") =>
              \A i \in DOMAIN s : s[i] \notin Closing /\ s[i] # "kill"
         /\ Final(s, "kill") =>
              \A i \in DOMAIN s : s[i] \notin Opening /\ s[i] # "return"
<1>1. /\ Len(s) \in Nat /\ DOMAIN s = 1 .. Len(s)
  OBVIOUS
<1>2. ASSUME NEW i \in DOMAIN s, s[i] \in {"return", "kill"} PROVE i = Len(s)
  <2>1. SUFFICES ASSUME i # Len(s) PROVE FALSE
    OBVIOUS
  <2>2. i < Len(s) /\ Len(s) \in DOMAIN s
    BY <1>1, <2>1
  <2> QED
    BY <1>2, <2>2 DEF Program, Ordered
<1>3. Final(s, "return") => \A i \in DOMAIN s : s[i] \notin Closing /\ s[i] # "kill"
  BY <1>2 DEF Final, Program, Sided
<1>4. Final(s, "kill") => \A i \in DOMAIN s : s[i] \notin Opening /\ s[i] # "return"
  BY <1>2 DEF Final, Program, Sided
<1> QED
  BY <1>3, <1>4

(* The kill of a stop is more than four steps behind its beginning, or    *)
(* STOPPED is being told.                                                  *)
LEMMA Kept ==
  ASSUME NEW s \in Seq(StepNames), Program(s), NEW i \in DOMAIN s, s[i] = "kill", s[1] \in Closing
  PROVE  i >= 5 \/ s[1] \in {"finish", "begin", "STOPPED"}
<1>1. /\ Len(s) \in Nat /\ DOMAIN s = 1 .. Len(s) /\ 1 \in DOMAIN s /\ i \in Nat /\ i >= 1
  OBVIOUS
<1>2. i # 1
  BY DEF Closing
<1>3. i = 2 => s[1] = "finish"
  <2>1. i = 2 => 1 + 1 \in DOMAIN s /\ s[1 + 1] = "kill"
    BY <1>1
  <2> QED
    BY <1>1, <2>1 DEF Program, Neighbours
<1>4. i = 3 => s[1] = "begin"
  <2>1. i = 3 => 1 + 1 \in DOMAIN s /\ 1 + 2 \in DOMAIN s /\ s[1 + 2] = "kill"
    BY <1>1
  <2> QED
    BY <1>1, <2>1 DEF Program, Neighbours
<1>5. i = 4 => s[1] = "STOPPED"
  <2>1. i = 4 => 1 + 1 \in DOMAIN s /\ 1 + 3 \in DOMAIN s /\ s[1 + 3] = "kill"
    BY <1>1
  <2> QED
    BY <1>1, <2>1 DEF Program, Neighbours
<1>6. i \in {1, 2, 3, 4} \/ i >= 5
  BY <1>1
<1> QED
  BY <1>2, <1>3, <1>4, <1>5, <1>6

(* Three steps instead of the first of s.                                  *)
Replaced(s, p, r) ==
  /\ r \in Seq(StepNames) /\ Len(r) = Len(s) + 2 /\ DOMAIN r = 1 .. Len(s) + 2
  /\ \A i \in 1 .. 3 : r[i] = p[i]
  /\ \A i \in 2 .. Len(s) : r[i + 2] = s[i]

(* Concatenation replaces so.                                              *)
LEMMA ReplacedFacts ==
  ASSUME NEW s \in Seq(StepNames), s # << >>, NEW p \in Seq(StepNames), Len(p) = 3
  PROVE  Replaced(s, p, p \o Tail(s))
<1>1. PICK q : q = Tail(s)
  OBVIOUS
<1>2. /\ q \in Seq(StepNames) /\ Len(s) \in Nat /\ Len(s) >= 1 /\ Len(q) = Len(s) - 1
      /\ DOMAIN s = 1 .. Len(s) /\ DOMAIN q = 1 .. Len(s) - 1
      /\ \A i \in DOMAIN q : q[i] = s[i + 1]
  BY <1>1, TailFacts
<1>3. PICK r \in Seq(StepNames) : Joined(p, q, r)
  BY <1>2, Concatenation
<1>4. /\ r = p \o q /\ Len(r) = 3 + (Len(s) - 1) /\ DOMAIN r = 1 .. 3 + (Len(s) - 1)
      /\ \A i \in 1 .. 3 : r[i] = p[i]
      /\ \A i \in 1 .. Len(s) - 1 : r[3 + i] = q[i]
  BY <1>2, <1>3 DEF Joined
<1>5. ASSUME NEW i \in 2 .. Len(s) PROVE r[i + 2] = s[i]
  <2>1. i - 1 \in 1 .. Len(s) - 1 /\ 3 + (i - 1) = i + 2 /\ (i - 1) + 1 = i
    BY <1>2, <1>5
  <2>2. r[3 + (i - 1)] = q[i - 1] /\ q[i - 1] = s[(i - 1) + 1]
    BY <1>2, <1>4, <2>1
  <2> QED
    BY <2>1, <2>2
<1>6. 3 + (Len(s) - 1) = Len(s) + 2
  BY <1>2
<1> QED
  BY <1>1, <1>3, <1>4, <1>5, <1>6 DEF Replaced

(* The places of r, in terms of those of s.                                *)
LEMMA Places ==
  ASSUME NEW s \in Seq(StepNames), s # << >>, NEW p \in Seq(StepNames), Len(p) = 3,
         NEW r, Replaced(s, p, r), NEW i \in DOMAIN r
  PROVE  \/ i \in {1, 2, 3} /\ r[i] = p[i]
         \/ i - 2 \in DOMAIN s /\ i - 2 >= 2 /\ r[i] = s[i - 2]
<1>1. /\ Len(s) \in Nat /\ Len(s) >= 1 /\ DOMAIN s = 1 .. Len(s) /\ i \in 1 .. Len(s) + 2
      /\ \A k \in 1 .. 3 : r[k] = p[k]
      /\ \A k \in 2 .. Len(s) : r[k + 2] = s[k]
  BY DEF Replaced
<1>2. CASE i <= 3
  <2>1. i \in {1, 2, 3} /\ i \in 1 .. 3
    BY <1>1, <1>2
  <2> QED
    BY <1>1, <2>1
<1>3. CASE i > 3
  <2>1. i - 2 \in 2 .. Len(s) /\ (i - 2) + 2 = i /\ i - 2 \in DOMAIN s /\ i - 2 >= 2
    BY <1>1, <1>3
  <2>2. r[(i - 2) + 2] = s[i - 2]
    BY <1>1, <2>1
  <2> QED
    BY <2>1, <2>2
<1>4. i <= 3 \/ i > 3
  BY <1>1
<1> QED
  BY <1>2, <1>3, <1>4

(* applyApplicationOrientedRule told STOPPED and the start goes on.        *)
LEMMA RulesReplaced ==
  ASSUME NEW s \in Seq(StepNames), Program(s), First(s, "rules"),
         NEW p \in Seq(StepNames), Len(p) = 3,
         p[1] = "STOPPED", p[2] = "begin", p[3] = "finish",
         NEW r, Replaced(s, p, r)
  PROVE  /\ r \in Seq(StepNames) /\ Program(r) /\ Final(r, "return")
         /\ \A x : First(r, x) => x = "STOPPED"
         /\ \A x : In(s, x) => In(r, x) \/ x = "rules"
         /\ \A x : In(r, x) => In(s, x) \/ x \in {"STOPPED", "begin", "finish"}
<1>3. s # << >> /\ s[1] = "rules"
  BY DEF First
<1>5. /\ Len(s) \in Nat /\ Len(s) >= 1 /\ DOMAIN s = 1 .. Len(s) /\ 1 \in DOMAIN s
      /\ Len(s) \in DOMAIN s
  BY <1>3
<1>6. Final(s, "return")
  BY <1>3, <1>5 DEF Final, Program, Sided, Opening
<1>7. Len(s) >= 2
  BY <1>3, <1>5, <1>6 DEF Final
<1>8. /\ r \in Seq(StepNames) /\ Len(r) = Len(s) + 2 /\ DOMAIN r = 1 .. Len(s) + 2
      /\ r[1] = "STOPPED" /\ r # << >> /\ r[Len(r)] = "return"
  <2>1. r \in Seq(StepNames) /\ Len(r) = Len(s) + 2 /\ DOMAIN r = 1 .. Len(s) + 2
    BY DEF Replaced
  <2>2. r[1] = p[1] /\ r[Len(s) + 2] = s[Len(s)]
    BY <1>5, <1>7 DEF Replaced
  <2>3. r # << >>
    BY <1>5, <2>1
  <2> QED
    BY <1>6, <2>1, <2>2, <2>3 DEF Final
<1>9. ASSUME NEW i \in DOMAIN r
      PROVE  \/ i \in {1, 2, 3} /\ r[i] \in {"STOPPED", "begin", "finish"}
             \/ i - 2 \in DOMAIN s /\ i - 2 >= 2 /\ r[i] = s[i - 2]
  <2>1. \/ i \in {1, 2, 3} /\ r[i] = p[i]
        \/ i - 2 \in DOMAIN s /\ i - 2 >= 2 /\ r[i] = s[i - 2]
    BY <1>3, <1>9, Places
  <2> QED
    BY <2>1
<1>10. ASSUME NEW i \in DOMAIN r
       PROVE  r[i] \notin Closing /\ r[i] # "kill"
  <2>1. \A k \in DOMAIN s : s[k] \notin Closing /\ s[k] # "kill"
    BY <1>6, Sides
  <2> QED
    BY <1>9, <1>10, <2>1 DEF Closing
<1>11. \A i \in DOMAIN r : i \in Int
  BY <1>5, <1>8
<1>12. Ordered(r)
  <2>1. SUFFICES ASSUME NEW i \in DOMAIN r, NEW j \in DOMAIN r, i < j
        PROVE  /\ r[i] \notin {"return", "kill"}
               /\ r[j] \notin {"serviceStop", "wait"}
               /\ r[i] \in {"nativeStop", "join", "wait", "delete"} => r[j] \notin Native
               /\ r[i] = "trojan" => r[j] \notin {"ports", "trojan"}
               /\ r[i] = "STARTED" => r[j] \notin {"ports", "trojan", "front"}
    BY DEF Ordered
  <2>2. r[j] \notin {"serviceStop", "wait"}
    BY <1>10 DEF Closing
  <2>3. r[i] \notin {"nativeStop", "join", "wait", "delete"}
    BY <1>10 DEF Closing
  <2>4. CASE r[i] \in {"STOPPED", "begin", "finish"}
    BY <2>2, <2>3, <2>4
  <2>5. CASE i - 2 \in DOMAIN s /\ i - 2 >= 2 /\ r[i] = s[i - 2]
    <3>1. i > 3 /\ j > 3 /\ i - 2 < j - 2
      BY <1>11, <2>1, <2>5
    <3>2. j - 2 \in DOMAIN s /\ r[j] = s[j - 2]
      BY <1>9, <3>1
    <3>3. \E a, b \in DOMAIN s : a < b /\ r[i] = s[a] /\ r[j] = s[b]
      BY <2>5, <3>1, <3>2
    <3> QED
      BY <3>3 DEF Program, Ordered
  <2> QED
    BY <1>9, <2>4, <2>5
<1>13. Neighbours(r)
  <2>1. \A i \in DOMAIN r : r[i] \notin {"join", "delete", "kill"}
    BY <1>10 DEF Closing
  <2> QED
    BY <2>1 DEF Neighbours
<1>14. Ahead(r)
  <2>1. SUFFICES ASSUME NEW i \in DOMAIN r, r[i] \in {"rules", "establish", "ports"}
        PROVE  \E j, k \in DOMAIN r : i < j /\ r[j] = "trojan" /\ i < k /\ r[k] = "front"
    BY DEF Ahead
  <2>2. i - 2 \in DOMAIN s /\ i - 2 >= 2 /\ r[i] = s[i - 2]
    BY <1>9, <2>1
  <2>3. PICK j, k \in DOMAIN s : i - 2 < j /\ s[j] = "trojan" /\ i - 2 < k /\ s[k] = "front"
    BY <2>1, <2>2 DEF Program, Ahead
  <2>4. j \in 2 .. Len(s) /\ k \in 2 .. Len(s) /\ i < j + 2 /\ i < k + 2
    BY <1>5, <1>11, <2>2, <2>3
  <2>5. r[j + 2] = s[j] /\ r[k + 2] = s[k]
    BY <2>4 DEF Replaced
  <2>6. j + 2 \in DOMAIN r /\ k + 2 \in DOMAIN r
    BY <1>5, <1>8, <2>4
  <2> QED
    BY <2>3, <2>4, <2>5, <2>6
<1>15. Sided(r)
  BY <1>8, <1>10 DEF Sided
<1>16. ASSUME NEW x, In(s, x) PROVE In(r, x) \/ x = "rules"
  <2>1. PICK i \in DOMAIN s : s[i] = x
    BY <1>16 DEF In
  <2>2. CASE i = 1
    BY <1>3, <2>1, <2>2
  <2>3. CASE i # 1
    <3>1. i \in 2 .. Len(s) /\ i + 2 \in 1 .. Len(s) + 2
      BY <1>5, <2>3
    <3>2. r[i + 2] = s[i] /\ i + 2 \in DOMAIN r
      BY <1>8, <3>1 DEF Replaced
    <3> QED
      BY <2>1, <3>2 DEF In
  <2> QED
    BY <2>2, <2>3
<1>17. \A x : In(r, x) => In(s, x) \/ x \in {"STOPPED", "begin", "finish"}
  BY <1>9 DEF In
<1> QED
  BY <1>8, <1>12, <1>13, <1>14, <1>15, <1>16, <1>17 DEF Program, Final, First

(* JNIHelper.stop has found a thread to stop.                              *)
LEMMA JniStopReplaced ==
  ASSUME NEW s \in Seq(StepNames), Program(s), First(s, "nativeStop"),
         NEW p \in Seq(StepNames), Len(p) = 3,
         p[1] = "serviceStop", p[2] = "join", p[3] = "delete",
         NEW r, Replaced(s, p, r)
  PROVE  /\ r \in Seq(StepNames) /\ Program(r) /\ Final(r, "kill")
         /\ \A x : First(r, x) => x = "serviceStop"
         /\ \A x : In(s, x) => In(r, x) \/ x = "nativeStop"
         /\ \A x : In(r, x) => In(s, x) \/ x \in {"serviceStop", "join", "delete"}
         /\ \A i \in 1 .. 3 : i \in DOMAIN r => r[i] # "kill"
<1>3. s # << >> /\ s[1] = "nativeStop"
  BY DEF First
<1>5. /\ Len(s) \in Nat /\ Len(s) >= 1 /\ DOMAIN s = 1 .. Len(s) /\ 1 \in DOMAIN s
      /\ Len(s) \in DOMAIN s
  BY <1>3
<1>6. Final(s, "kill")
  BY <1>3, <1>5 DEF Final, Program, Sided, Closing
<1>7. Len(s) >= 2
  BY <1>3, <1>5, <1>6 DEF Final
<1>8. /\ r \in Seq(StepNames) /\ Len(r) = Len(s) + 2 /\ DOMAIN r = 1 .. Len(s) + 2
      /\ r[1] = "serviceStop" /\ r[2] = "join" /\ r[3] = "delete"
      /\ r # << >> /\ r[Len(r)] = "kill"
  <2>1. r \in Seq(StepNames) /\ Len(r) = Len(s) + 2 /\ DOMAIN r = 1 .. Len(s) + 2
    BY DEF Replaced
  <2>2. r[1] = p[1] /\ r[2] = p[2] /\ r[3] = p[3] /\ r[Len(s) + 2] = s[Len(s)]
    BY <1>5, <1>7 DEF Replaced
  <2>3. r # << >>
    BY <1>5, <2>1
  <2> QED
    BY <1>6, <2>1, <2>2, <2>3 DEF Final
<1>9. ASSUME NEW i \in DOMAIN r
      PROVE  \/ i \in {1, 2, 3} /\ r[i] \in {"serviceStop", "join", "delete"}
             \/ i - 2 \in DOMAIN s /\ i - 2 >= 2 /\ r[i] = s[i - 2]
  <2>1. \/ i \in {1, 2, 3} /\ r[i] = p[i]
        \/ i - 2 \in DOMAIN s /\ i - 2 >= 2 /\ r[i] = s[i - 2]
    BY <1>3, <1>9, Places
  <2> QED
    BY <2>1
<1>10. ASSUME NEW i \in DOMAIN r
       PROVE  r[i] \notin Opening /\ r[i] # "return"
  <2>1. \A k \in DOMAIN s : s[k] \notin Opening /\ s[k] # "return"
    BY <1>6, Sides
  <2> QED
    BY <1>9, <1>10, <2>1 DEF Opening
<1>11. \A i \in DOMAIN r : i \in Int
  BY <1>5, <1>8
(* What comes after "nativeStop" in s.                                    *)
<1>12. ASSUME NEW i \in DOMAIN s, i >= 2
       PROVE  s[i] \notin Native \cup {"serviceStop", "wait"}
  <2>1. 1 < i
    BY <1>5, <1>12
  <2> QED
    BY <1>3, <1>5, <2>1 DEF Program, Ordered, Native
<1>13. s[2] # "delete"
  <2>1. 1 + 1 \in DOMAIN s
    BY <1>5, <1>7
  <2>2. s[1 + 1] # "delete"
    BY <1>3, <1>5, <2>1 DEF Program, Neighbours
  <2> QED
    BY <2>2
<1>14. ASSUME NEW i \in DOMAIN s, s[i] = "kill"
       PROVE  i >= 5
  BY <1>3, <1>14, Kept DEF Closing
<1>15. Ordered(r)
  <2>1. SUFFICES ASSUME NEW i \in DOMAIN r, NEW j \in DOMAIN r, i < j
        PROVE  /\ r[i] \notin {"return", "kill"}
               /\ r[j] \notin {"serviceStop", "wait"}
               /\ r[i] \in {"nativeStop", "join", "wait", "delete"} => r[j] \notin Native
               /\ r[i] = "trojan" => r[j] \notin {"ports", "trojan"}
               /\ r[i] = "STARTED" => r[j] \notin {"ports", "trojan", "front"}
    BY DEF Ordered
  <2>2. r[i] \notin {"trojan", "STARTED", "return"}
    BY <1>10 DEF Opening
  <2>3. CASE i \in {1, 2, 3}
    <3>1. r[i] # "kill"
      BY <1>8, <2>3
    <3>2. CASE j \in {1, 2, 3}
      <4>1. (i = 1 /\ j = 2) \/ (i = 1 /\ j = 3) \/ (i = 2 /\ j = 3)
        BY <2>1, <2>3, <3>2
      <4> QED
        BY <1>8, <4>1, <2>2 DEF Native
    <3>3. CASE j - 2 \in DOMAIN s /\ j - 2 >= 2 /\ r[j] = s[j - 2]
      <4>1. r[j] \notin Native \cup {"serviceStop", "wait"}
        BY <1>12, <3>3
      <4> QED
        BY <2>2, <3>1, <4>1
    <3> QED
      BY <1>9, <3>2, <3>3
  <2>4. CASE i - 2 \in DOMAIN s /\ i - 2 >= 2 /\ r[i] = s[i - 2]
    <3>1. i > 3 /\ j > 3 /\ i - 2 < j - 2
      BY <1>11, <2>1, <2>4
    <3>2. j - 2 \in DOMAIN s /\ r[j] = s[j - 2]
      BY <1>9, <3>1
    <3>3. \E a, b \in DOMAIN s : a < b /\ r[i] = s[a] /\ r[j] = s[b]
      BY <2>4, <3>1, <3>2
    <3> QED
      BY <3>3 DEF Program, Ordered
  <2> QED
    BY <1>9, <2>3, <2>4
<1>16. Neighbours(r)
  <2>1. SUFFICES ASSUME NEW i \in DOMAIN r, i + 1 \in DOMAIN r
        PROVE  /\ r[i + 1] = "join" => r[i] = "serviceStop"
               /\ r[i + 1] = "delete" => r[i] \in {"join", "wait"}
               /\ r[i + 1] = "kill" => r[i] = "finish"
               /\ i + 2 \in DOMAIN r /\ r[i + 2] = "kill" => r[i] = "begin"
               /\ i + 3 \in DOMAIN r /\ r[i + 3] = "kill" => r[i] = "STOPPED"
    BY DEF Neighbours
  <2>2. \A k \in DOMAIN r : r[k] = "kill" => k >= 7
    <3>1. SUFFICES ASSUME NEW k \in DOMAIN r, r[k] = "kill" PROVE k >= 7
      OBVIOUS
    <3>2. k - 2 \in DOMAIN s /\ s[k - 2] = "kill"
      BY <1>9, <3>1
    <3>3. k - 2 >= 5
      BY <1>14, <3>2
    <3> QED
      BY <1>11, <3>3
  <2>3. CASE i \in {1, 2, 3}
    <3>1. r[i + 1] # "kill" /\ (i + 2 \in DOMAIN r => r[i + 2] # "kill")
          /\ (i + 3 \in DOMAIN r => r[i + 3] # "kill")
      BY <2>1, <2>2, <2>3
    <3>2. CASE i = 1
      BY <1>8, <3>1, <3>2
    <3>3. CASE i = 2
      BY <1>8, <3>1, <3>3
    <3>4. CASE i = 3
      <4>1. 2 \in 2 .. Len(s) /\ 2 \in DOMAIN s
        BY <1>5, <1>7
      <4>2. r[2 + 2] = s[2]
        BY <4>1 DEF Replaced
      <4>3. r[i + 1] = s[2]
        BY <3>4, <4>2
      <4>4. s[2] # "join"
        BY <1>12, <4>1 DEF Native
      <4> QED
        BY <1>13, <3>1, <4>3, <4>4
    <3> QED
      BY <2>3, <3>2, <3>3, <3>4
  <2>4. CASE i - 2 \in DOMAIN s /\ i - 2 >= 2 /\ r[i] = s[i - 2]
    <3>1. PICK k : k = i - 2
      OBVIOUS
    <3>2. /\ i > 3 /\ k \in DOMAIN s /\ r[i] = s[k]
          /\ (i + 1) - 2 = k + 1 /\ (i + 2) - 2 = k + 2 /\ (i + 3) - 2 = k + 3
          /\ i + 1 > 3 /\ i + 2 > 3 /\ i + 3 > 3
      BY <1>11, <2>4, <3>1
    <3>3. \A n \in DOMAIN r : n > 3 => n - 2 \in DOMAIN s /\ r[n] = s[n - 2]
      BY <1>9
    <3>4. /\ k + 1 \in DOMAIN s /\ r[i + 1] = s[k + 1]
          /\ i + 2 \in DOMAIN r => k + 2 \in DOMAIN s /\ r[i + 2] = s[k + 2]
          /\ i + 3 \in DOMAIN r => k + 3 \in DOMAIN s /\ r[i + 3] = s[k + 3]
      BY <2>1, <3>2, <3>3
    <3> QED
      BY <3>2, <3>4 DEF Program, Neighbours
  <2> QED
    BY <1>9, <2>3, <2>4
<1>17. Ahead(r)
  BY <1>10 DEF Ahead, Opening
<1>18. Sided(r)
  BY <1>8, <1>10 DEF Sided
<1>19. ASSUME NEW x, In(s, x) PROVE In(r, x) \/ x = "nativeStop"
  <2>1. PICK i \in DOMAIN s : s[i] = x
    BY <1>19 DEF In
  <2>2. CASE i = 1
    BY <1>3, <2>1, <2>2
  <2>3. CASE i # 1
    <3>1. i \in 2 .. Len(s) /\ i + 2 \in 1 .. Len(s) + 2
      BY <1>5, <2>3
    <3>2. r[i + 2] = s[i] /\ i + 2 \in DOMAIN r
      BY <1>8, <3>1 DEF Replaced
    <3> QED
      BY <2>1, <3>2 DEF In
  <2> QED
    BY <2>2, <2>3
<1>20. \A x : In(r, x) => In(s, x) \/ x \in {"serviceStop", "join", "delete"}
  BY <1>9 DEF In
<1>21. \A i \in 1 .. 3 : i \in DOMAIN r => r[i] # "kill"
  <2>1. \A i \in 1 .. 3 : i = 1 \/ i = 2 \/ i = 3
    OBVIOUS
  <2> QED
    BY <1>8, <2>1
<1> QED
  BY <1>8, <1>15, <1>16, <1>17, <1>18, <1>19, <1>20, <1>21 DEF Program, Final, First

(* What Rules puts in front of a start leaves a program.                   *)
LEMMA RulesList ==
  ASSUME NEW s \in Seq(StepNames), Program(s), First(s, "rules")
  PROVE  \E r \in Seq(StepNames) :
           /\ r = SetState("STOPPED") \o Tail(s)
           /\ Program(r) /\ Final(r, "return")
           /\ \A x : First(r, x) => x = "STOPPED"
           /\ \A x : In(s, x) => In(r, x) \/ x = "rules"
           /\ \A x : In(r, x) => In(s, x) \/ x \in {"STOPPED", "begin", "finish"}
<1>1. PICK p : p = SetState("STOPPED")
  OBVIOUS
<1>2. /\ p \in Seq(StepNames) /\ Len(p) = 3
      /\ p[1] = "STOPPED" /\ p[2] = "begin" /\ p[3] = "finish"
  BY <1>1, SetStateFacts DEF States
<1>3. s # << >>
  BY DEF First
<1>4. PICK r : r = p \o Tail(s)
  OBVIOUS
<1>5. Replaced(s, p, r)
  BY <1>2, <1>3, <1>4, ReplacedFacts
<1>6. /\ r \in Seq(StepNames) /\ Program(r) /\ Final(r, "return")
      /\ \A x : First(r, x) => x = "STOPPED"
      /\ \A x : In(s, x) => In(r, x) \/ x = "rules"
      /\ \A x : In(r, x) => In(s, x) \/ x \in {"STOPPED", "begin", "finish"}
  BY <1>2, <1>5, RulesReplaced
<1> QED
  BY <1>1, <1>4, <1>6

(* What JniStop puts in front of a stop leaves a program.                  *)
LEMMA JniStopList ==
  ASSUME NEW s \in Seq(StepNames), Program(s), First(s, "nativeStop")
  PROVE  \E r \in Seq(StepNames) :
           /\ r = NativeStop \o Tail(s)
           /\ Program(r) /\ Final(r, "kill")
           /\ \A x : First(r, x) => x = "serviceStop"
           /\ \A x : In(s, x) => In(r, x) \/ x = "nativeStop"
           /\ \A x : In(r, x) => In(s, x) \/ x \in {"serviceStop", "join", "delete"}
           /\ \A i \in 1 .. 3 : i \in DOMAIN r => r[i] # "kill"
<1>1. PICK p : p = NativeStop
  OBVIOUS
<1>2. /\ p \in Seq(StepNames) /\ Len(p) = 3
      /\ p[1] = "serviceStop" /\ p[2] = "join" /\ p[3] = "delete"
  BY <1>1, NamesFacts, Triple DEF NativeStop
<1>3. s # << >>
  BY DEF First
<1>4. PICK r : r = p \o Tail(s)
  OBVIOUS
<1>5. Replaced(s, p, r)
  BY <1>2, <1>3, <1>4, ReplacedFacts
<1>6. /\ r \in Seq(StepNames) /\ Program(r) /\ Final(r, "kill")
      /\ \A x : First(r, x) => x = "serviceStop"
      /\ \A x : In(s, x) => In(r, x) \/ x = "nativeStop"
      /\ \A x : In(r, x) => In(s, x) \/ x \in {"serviceStop", "join", "delete"}
      /\ \A i \in 1 .. 3 : i \in DOMAIN r => r[i] # "kill"
  BY <1>2, <1>5, JniStopReplaced
<1> QED
  BY <1>1, <1>4, <1>6

(* A thread has been joined: the step becomes that of waiting for its end. *)
LEMMA JoinList ==
  ASSUME NEW s \in Seq(StepNames), Program(s), First(s, "join"),
         NEW r, r = [s EXCEPT ![1] = "wait"]
  PROVE  /\ r \in Seq(StepNames) /\ Program(r) /\ Final(r, "kill") /\ Clear(r)
         /\ \A x : First(r, x) => x = "wait"
         /\ \A x : In(s, x) => In(r, x) \/ x = "join"
         /\ \A x : In(r, x) => In(s, x) \/ x = "wait"
         /\ \A i \in 1 .. 3 : i \in DOMAIN r => r[i] # "kill"
<1>1. s # << >> /\ s[1] = "join"
  BY DEF First
<1>2. /\ Len(s) \in Nat /\ Len(s) >= 1 /\ DOMAIN s = 1 .. Len(s) /\ 1 \in DOMAIN s
      /\ Len(s) \in DOMAIN s
  BY <1>1
<1>3. Final(s, "kill")
  BY <1>1, <1>2 DEF Final, Program, Sided, Closing
<1>4. Len(s) # 1
  BY <1>1, <1>3 DEF Final
<1>5. "wait" \in StepNames
  BY NamesFacts
<1>6. /\ r \in Seq(StepNames) /\ Len(r) = Len(s) /\ DOMAIN r = DOMAIN s
      /\ r[1] = "wait" /\ \A i \in DOMAIN s : i # 1 => r[i] = s[i]
  BY <1>2, <1>5
<1>7. \A i \in DOMAIN s : i \in Int /\ i >= 1
  BY <1>2
<1>8. ASSUME NEW i \in DOMAIN s, i # 1
      PROVE  s[i] \notin Native \cup {"serviceStop", "wait"}
  <2>1. 1 < i
    BY <1>7, <1>8
  <2> QED
    BY <1>1, <1>2, <2>1 DEF Program, Ordered, Native
<1>9. \A i \in DOMAIN s : s[i] \notin Opening /\ s[i] # "return"
  BY <1>3, Sides
<1>10. ASSUME NEW i \in DOMAIN s, s[i] = "kill"
       PROVE  i >= 5
  BY <1>1, <1>10, Kept DEF Closing
<1>11. Ordered(r)
  <2>1. SUFFICES ASSUME NEW i \in DOMAIN s, NEW j \in DOMAIN s, i < j
        PROVE  /\ r[i] \notin {"return", "kill"}
               /\ r[j] \notin {"serviceStop", "wait"}
               /\ r[i] \in {"nativeStop", "join", "wait", "delete"} => r[j] \notin Native
               /\ r[i] = "trojan" => r[j] \notin {"ports", "trojan"}
               /\ r[i] = "STARTED" => r[j] \notin {"ports", "trojan", "front"}
    BY <1>6 DEF Ordered
  <2>2. j # 1
    BY <1>7, <2>1
  <2>3. r[j] = s[j] /\ r[j] \notin Native \cup {"serviceStop", "wait"}
    BY <1>6, <1>8, <2>2
  <2>4. CASE i = 1
    BY <1>6, <2>3, <2>4
  <2>5. CASE i # 1
    BY <1>6, <2>1, <2>3, <2>5 DEF Program, Ordered
  <2> QED
    BY <2>4, <2>5
<1>12. Neighbours(r)
  <2>1. SUFFICES ASSUME NEW i \in DOMAIN s, i + 1 \in DOMAIN s
        PROVE  /\ r[i + 1] = "join" => r[i] = "serviceStop"
               /\ r[i + 1] = "delete" => r[i] \in {"join", "wait"}
               /\ r[i + 1] = "kill" => r[i] = "finish"
               /\ i + 2 \in DOMAIN s /\ r[i + 2] = "kill" => r[i] = "begin"
               /\ i + 3 \in DOMAIN s /\ r[i + 3] = "kill" => r[i] = "STOPPED"
    BY <1>6 DEF Neighbours
  <2>2. i + 1 # 1 /\ i + 2 # 1 /\ i + 3 # 1
    BY <1>7
  <2>3. /\ r[i + 1] = s[i + 1] /\ (i + 2 \in DOMAIN s => r[i + 2] = s[i + 2])
        /\ (i + 3 \in DOMAIN s => r[i + 3] = s[i + 3])
    BY <1>6, <2>1, <2>2
  <2>4. s[i + 1] # "join"
    BY <1>8, <2>1, <2>2 DEF Native
  <2>5. CASE i = 1
    <3>1. /\ s[i + 1] # "kill" /\ (i + 2 \in DOMAIN s => s[i + 2] # "kill")
          /\ (i + 3 \in DOMAIN s => s[i + 3] # "kill")
      BY <1>10, <2>1, <2>5
    <3> QED
      BY <1>6, <2>3, <2>4, <2>5, <3>1
  <2>6. CASE i # 1
    <3>1. r[i] = s[i]
      BY <1>6, <2>6
    <3> QED
      BY <2>1, <2>3, <3>1 DEF Program, Neighbours
  <2> QED
    BY <2>5, <2>6
<1>13. \A i \in DOMAIN r : r[i] \notin Opening /\ r[i] # "return"
  BY <1>6, <1>9 DEF Opening
<1>14. Ahead(r)
  BY <1>13 DEF Ahead, Opening
<1>15. r # << >> /\ r[Len(r)] = "kill"
  BY <1>2, <1>3, <1>4, <1>6 DEF Final
<1>16. Sided(r)
  BY <1>13, <1>15 DEF Sided
<1>17. Clear(r)
  BY <1>6, <1>8 DEF Clear, Native
<1>18. ASSUME NEW x, In(s, x) PROVE In(r, x) \/ x = "join"
  <2>1. PICK i \in DOMAIN s : s[i] = x
    BY <1>18 DEF In
  <2> QED
    BY <1>1, <1>6, <2>1 DEF In
<1>19. \A x : In(r, x) => In(s, x) \/ x = "wait"
  BY <1>6 DEF In
<1>20. \A i \in 1 .. 3 : i \in DOMAIN r => r[i] # "kill"
  <2>1. SUFFICES ASSUME NEW i \in 1 .. 3, i \in DOMAIN r, r[i] = "kill" PROVE FALSE
    OBVIOUS
  <2>2. i # 1 /\ s[i] = "kill"
    BY <1>6, <2>1
  <2>3. i >= 5
    BY <1>6, <1>10, <2>1, <2>2
  <2> QED
    BY <2>1, <2>3
<1> QED
  BY <1>6, <1>11, <1>12, <1>14, <1>15, <1>16, <1>17, <1>18, <1>19, <1>20
     DEF Program, Final, First

-----------------------------------------------------------------------------
(* The lists of the threads.                                               *)
LEMMA EmptyList ==
  /\ Program(<< >>) /\ Clear(<< >>)
  /\ \A x : ~ In(<< >>, x) /\ ~ First(<< >>, x) /\ ~ Final(<< >>, x)
<1>1. PICK s : s = << >>
  OBVIOUS
<1>2. \A i : i \notin DOMAIN s
  BY <1>1
<1> QED
  BY <1>1, <1>2 DEF Program, Ordered, Neighbours, Ahead, Sided, Clear, In, First, Final

(* The threads.                                                            *)
LEMMA ThreadNames ==
  /\ "main" \in Threads /\ "binder" \in Threads /\ "test" \in Threads
  /\ \A t \in Threads : t = "main" \/ t = "binder" \/ t = "test"
BY DEF Threads

(* Their lists.                                                            *)
LEMMA Lists ==
  ASSUME TypeOK
  PROVE  /\ \A t \in Threads : todo[t] \in Seq(StepNames)
         /\ main \in Seq(StepNames) /\ binder \in Seq(StepNames)
BY ThreadNames DEF TypeOK, main, binder

(* One list changes.                                                       *)
LEMMA Update ==
  ASSUME TypeOK, NEW t \in Threads, NEW q \in Seq(StepNames), todo' = [todo EXCEPT ![t] = q]
  PROVE  /\ todo' \in [Threads -> Seq(StepNames)]
         /\ todo'[t] = q /\ \A u \in Threads : u # t => todo'[u] = todo[u]
BY DEF TypeOK

(* A new process has none.                                                 *)
LEMMA FreshLists ==
  ASSUME Fresh
  PROVE  /\ todo' \in [Threads -> Seq(StepNames)]
         /\ \A t \in Threads : todo'[t] = << >>
BY DEF Fresh, Idle

(* One list changes.                                                       *)
LEMMA OneList ==
  ASSUME TypeOK, ListInv, NEW t \in Threads, NEW q \in Seq(StepNames),
         todo' = [todo EXCEPT ![t] = q], revoked => revoked',
         t # "test" => Program(q),
         t = "main" => ~ In(q, "refusal"),
         t = "binder" /\ q # << >> => revoked' /\ Final(q, "kill"),
         t = "test" => \A x : In(q, x) => x \in {"result", "refusal", "finish"}
  PROVE  ListInv' /\ TodoType'
<1>1. todo'[t] = q /\ \A u \in Threads : u # t => todo'[u] = todo[u]
  BY Update
<1>5. TodoType'
  BY Update DEF TodoType
<1>2. ASSUME t = "main" PROVE ListInv'
  BY <1>1, <1>2, ThreadNames DEF ListInv, main, binder
<1>3. ASSUME t = "binder" PROVE ListInv'
  BY <1>1, <1>3, ThreadNames DEF ListInv, main, binder
<1>4. ASSUME t = "test" PROVE ListInv'
  BY <1>1, <1>4, ThreadNames DEF ListInv, main, binder
<1> QED
  BY <1>2, <1>3, <1>4, <1>5, ThreadNames

(* Who makes a step, and in which kind of list.                            *)
LEMMA Who ==
  ASSUME TypeOK, ListInv, NEW t \in Threads, NEW x, At(t, x)
  PROVE  /\ proc /\ todo[t] \in Seq(StepNames) /\ todo[t] # << >>
         /\ First(todo[t], x) /\ In(todo[t], x)
         /\ t = "test" => x \in {"result", "refusal", "finish"}
         /\ t # "test" =>
              /\ Program(todo[t])
              /\ x \in Opening => Final(todo[t], "return")
              /\ x \in Closing => Final(todo[t], "kill")
              /\ x \in Native => ~ Clear(todo[t])
         /\ x \in Opening \cup {"return"} => t = "main"
         /\ t = "binder" => revoked
<1>1. proc /\ todo[t] # << >> /\ Head(todo[t]) = x /\ todo[t] \in Seq(StepNames)
  BY Lists DEF At
<1>2. todo[t][1] = x /\ 1 \in DOMAIN todo[t]
  BY <1>1, TailFacts
<1>3. First(todo[t], x) /\ In(todo[t], x)
  BY <1>1, <1>2 DEF First, In
<1>4. t = "test" => x \in {"result", "refusal", "finish"}
  BY <1>3 DEF ListInv
<1>5. ASSUME t # "test"
      PROVE  /\ Program(todo[t])
             /\ x \in Opening => Final(todo[t], "return")
             /\ x \in Closing => Final(todo[t], "kill")
             /\ x \in Native => ~ Clear(todo[t])
  <2>1. Program(todo[t])
    BY <1>5, ThreadNames DEF ListInv, main, binder
  <2> QED
    BY <1>1, <1>3, <2>1, FirstFacts
<1>6. ASSUME x \in Opening \cup {"return"}, t # "main" PROVE FALSE
  <2>1. t = "binder"
    BY <1>4, <1>6, ThreadNames DEF Opening
  <2>2. Final(todo[t], "kill") /\ Program(todo[t])
    BY <1>1, <2>1 DEF ListInv, binder
  <2> QED
    BY <1>1, <1>2, <1>6, <2>2, Sides
<1>7. t = "binder" => revoked
  BY <1>1 DEF ListInv, binder
<1> QED
  BY <1>1, <1>3, <1>4, <1>5, <1>6, <1>7

(* A thread has made the first step of its list.                           *)
LEMMA PopLists ==
  ASSUME TypeOK, ListInv, NEW t \in Threads, todo[t] # << >>, Done(t), revoked' = revoked
  PROVE  /\ ListInv' /\ TodoType'
         /\ \A u \in Threads : u # t => todo'[u] = todo[u]
         /\ todo'[t] = Tail(todo[t])
         /\ Popped(todo[t], todo'[t])
         /\ t # "test" => Follows(todo[t], todo'[t])
<1>1. PICK q : q = Tail(todo[t])
  OBVIOUS
<1>2. todo[t] \in Seq(StepNames)
  BY Lists
<1>3. q \in Seq(StepNames) /\ Popped(todo[t], q)
  BY <1>1, <1>2, TailFacts, TailPopped
<1>4. todo' = [todo EXCEPT ![t] = q]
  BY <1>1 DEF Done
<1>5. ASSUME t # "test" PROVE Program(q) /\ Follows(todo[t], q)
  <2>1. Program(todo[t])
    BY <1>5, ThreadNames DEF ListInv, main, binder
  <2> QED
    BY <1>1, <1>2, <2>1, TailProgram, TailFollows
<1>6. ASSUME t = "binder", q # << >> PROVE revoked' /\ Final(q, "kill")
  <2>1. revoked /\ Final(todo[t], "kill") /\ Program(todo[t])
    BY <1>6 DEF ListInv, binder
  <2>2. Len(q) \in DOMAIN q /\ q[Len(q)] \in {"return", "kill"}
    BY <1>3, <1>5, <1>6 DEF Program, Sided
  <2>3. q[Len(q)] = "return" => In(q, "return")
    BY <2>2 DEF In
  <2>4. ~ In(todo[t], "return")
    BY <1>2, <2>1, Sides DEF In
  <2>5. q[Len(q)] = "kill"
    BY <1>3, <2>2, <2>3, <2>4 DEF Popped
  <2> QED
    BY <1>6, <2>1, <2>5 DEF Final
<1>7. t = "test" => \A x : In(q, x) => x \in {"result", "refusal", "finish"}
  BY <1>3 DEF Popped, ListInv
<1>8. t = "main" => ~ In(q, "refusal")
  BY <1>3 DEF Popped, ListInv, main
<1>9. ListInv' /\ TodoType'
  BY <1>3, <1>4, <1>5, <1>6, <1>7, <1>8, OneList
<1> QED
  BY <1>1, <1>3, <1>4, <1>5, <1>9, Update

-----------------------------------------------------------------------------
(* The cases of a step.                                                    *)
LEMMA Cases ==
  ASSUME Next
  PROVE  \/ StartRequest \/ StopRequest \/ Create \/ Unbind \/ OnRevoke \/ Test \/ Handle
         \/ Rules \/ Establish \/ ChoosePorts \/ JniTrojan \/ Front \/ Return
         \/ Load \/ MakeService \/ RunService \/ Exit
         \/ \E t \in Threads :
              \/ Assign(t) \/ BeginBroadcast(t) \/ FinishBroadcast(t) \/ Close(t)
              \/ StopSelf(t) \/ Kill(t) \/ JniStop(t) \/ ServiceStop(t) \/ Join(t)
              \/ Wait(t) \/ Delete(t)
BY ThreadNames DEF Next, Main, Trojan, Step

LEMMA FreshList ==
  ASSUME Fresh
  PROVE  ListInv' /\ TodoType'
BY FreshLists, ThreadNames, EmptyList DEF TodoType, ListInv, main, binder

LEMMA GoneFresh ==
  ASSUME NEW how, Gone(how)
  PROVE  Fresh /\ proc' = FALSE /\ died' = how
BY DEF Gone

(* What Throw does: the process ends, or a list does.                      *)
LEMMA ThrowCases ==
  ASSUME NEW t \in Threads, Throw(t)
  PROVE  \/ Gone("crashed")
         \/ /\ t = "binder" \/ At(t, "refusal")
            /\ todo' = [todo EXCEPT ![t] = << >>]
            /\ UNCHANGED <<world, service, talk, ports, native>>
BY DEF Throw

(* No list changes.                                                        *)
LEMMA ListQuiet ==
  ASSUME TypeOK, ListInv, UNCHANGED <<todo, revoked>>
  PROVE  ListInv' /\ TodoType'
BY DEF TypeOK, TodoType, ListInv, main, binder

(* Every step leaves every thread a program.                               *)
LEMMA ListStep ==
  ASSUME TypeOK, ListInv, Next
  PROVE  ListInv' /\ TodoType'
<1> USE ThreadNames
<1>1. CASE StartRequest
  BY <1>1, ListQuiet DEF StartRequest, java
<1>2. CASE StopRequest
  BY <1>2, ListQuiet DEF StopRequest, java, history
<1>3. CASE Create
  BY <1>3, FreshList DEF Create
<1>4. CASE Unbind
  BY <1>4, ListQuiet DEF Unbind, java, history
<1>5. CASE OnRevoke
  BY <1>5, OneList, StopFacts, StopProgram DEF OnRevoke
<1>6. CASE Test
  <2>1. PICK x \in {"result", "refusal"} : todo' = [todo EXCEPT !["test"] = <<x, "finish">>]
    BY <1>6 DEF Test
  <2>2. PICK q : q = <<x, "finish">>
    OBVIOUS
  <2>3. q \in Seq(StepNames) /\ Len(q) = 2 /\ q[1] = x /\ q[2] = "finish"
    BY <2>2, NamesFacts, Pair
  <2>4. \A y : In(q, y) => y \in {"result", "refusal", "finish"}
    BY <2>3 DEF In
  <2>5. revoked' = revoked
    BY <1>6 DEF Test, world, history
  <2> QED
    BY <2>1, <2>2, <2>3, <2>4, <2>5, OneList
<1>7. CASE Handle
  <2>1. PICK q \in {OnStartCommand, Stop, Destruction} : todo' = [todo EXCEPT !["main"] = q]
    BY <1>7 DEF Handle, Destruction
  <2>2. q \in Seq(StepNames) /\ Program(q) /\ ~ In(q, "refusal")
    BY StopFacts, StopProgram, StartFacts, StartProgram, DestructionFacts, DestructionProgram
  <2>3. revoked' = revoked
    BY <1>7 DEF Handle, world, history
  <2> QED
    BY <2>1, <2>2, <2>3, OneList
<1>8. CASE Rules
  <2>1. At("main", "rules") /\ revoked' = revoked
    BY <1>8 DEF Rules, world, history
  <2>2. main \in Seq(StepNames) /\ main # << >> /\ First(main, "rules") /\ Program(main)
    BY <2>1, Who DEF main
  <2>3. PICK missing \in BOOLEAN : todo' = [todo EXCEPT !["main"] =
          (IF missing THEN SetState("STOPPED") ELSE << >>) \o Tail(main)]
    BY <1>8 DEF Rules, main
  <2>4. CASE missing
    <3>1. PICK r \in Seq(StepNames) :
            /\ r = SetState("STOPPED") \o Tail(main) /\ Program(r)
            /\ \A x : In(r, x) => In(main, x) \/ x \in {"STOPPED", "begin", "finish"}
      BY <2>2, RulesList
    <3>3. ~ In(r, "refusal")
      <4>1. \A x : In(r, x) => In(main, x) \/ x \in {"STOPPED", "begin", "finish"}
        BY <3>1
      <4>2. ~ In(main, "refusal")
        BY DEF ListInv
      <4> QED
        BY <4>1, <4>2
    <3>2. todo' = [todo EXCEPT !["main"] = r]
      BY <2>3, <2>4, <3>1
    <3> QED
      BY <2>1, <3>1, <3>2, <3>3, OneList
  <2>5. CASE ~ missing
    <3>1. Done("main")
      <4>1. PICK q : q = Tail(main)
        OBVIOUS
      <4>2. q \in Seq(StepNames)
        BY <2>2, <4>1, TailFacts
      <4>3. << >> \o q = q
        BY <4>2
      <4>4. todo' = [todo EXCEPT !["main"] = q]
        BY <2>3, <2>5, <4>1, <4>3
      <4> QED
        BY <4>1, <4>4 DEF Done, main
    <3> QED
      BY <2>1, <2>2, <3>1, PopLists DEF main
  <2> QED
    BY <2>4, <2>5
<1>9. CASE Establish
  <2>1. At("main", "establish") /\ revoked' = revoked
    BY <1>9 DEF Establish, world, history
  <2>2. todo["main"] # << >>
    BY <2>1, Who
  <2>3. Done("main") \/ todo' = [todo EXCEPT !["main"] = Stop]
    BY <1>9 DEF Establish
  <2> QED
    BY <2>1, <2>2, <2>3, PopLists, OneList, StopFacts, StopProgram
<1>p. ASSUME NEW t \in Threads, NEW x, At(t, x), Done(t), revoked' = revoked
      PROVE  ListInv' /\ TodoType'
  BY <1>p, Who, PopLists
<1>10. CASE ChoosePorts
  <2>1. At("main", "ports") /\ Done("main") /\ revoked' = revoked
    BY <1>10 DEF ChoosePorts, world, history
  <2> QED
    BY <2>1, <1>p
<1>11. CASE JniTrojan
  <2>1. At("main", "trojan") /\ Done("main") /\ revoked' = revoked
    BY <1>11 DEF JniTrojan, world, history
  <2> QED
    BY <2>1, <1>p
<1>12. CASE Front
  <2>1. At("main", "front") /\ Done("main") /\ revoked' = revoked
    BY <1>12 DEF Front, world, history
  <2> QED
    BY <2>1, <1>p
<1>13. CASE Return
  <2>1. At("main", "return") /\ Done("main") /\ revoked' = revoked
    BY <1>13 DEF Return, history
  <2> QED
    BY <2>1, <1>p
<1>14. CASE Load
  BY <1>14, ListQuiet DEF Load, java, world, history
<1>15. CASE MakeService
  <2>1. UNCHANGED <<todo, revoked>> \/ Gone("crashed")
    BY <1>15 DEF MakeService, java, world, history
  <2> QED
    BY <2>1, ListQuiet, GoneFresh, FreshList
<1>16. CASE RunService
  BY <1>16, ListQuiet DEF RunService, java, world, history
<1>17. CASE Exit
  BY <1>17, ListQuiet DEF Exit, java, world, history
<1>t. ASSUME NEW t \in Threads, Throw(t) PROVE ListInv' /\ TodoType'
  <2>1. CASE Gone("crashed")
    BY <2>1, GoneFresh, FreshList
  <2>2. CASE /\ todo' = [todo EXCEPT ![t] = << >>]
             /\ UNCHANGED <<world, service, talk, ports, native>>
    <3>1. << >> \in Seq(StepNames)
      OBVIOUS
    <3>2. revoked' = revoked
      BY <2>2 DEF world, history
    <3> QED
      BY <2>2, <3>1, <3>2, EmptyList, OneList
  <2> QED
    BY <1>t, <2>1, <2>2, ThrowCases
<1>18. ASSUME NEW t \in Threads, Assign(t) PROVE ListInv' /\ TodoType'
  <2>1. PICK s \in States : At(t, s) /\ Done(t) /\ revoked' = revoked
    BY <1>18 DEF Assign, world, history
  <2> QED
    BY <2>1, <1>p
<1>19. ASSUME NEW t \in Threads, BeginBroadcast(t) PROVE ListInv' /\ TodoType'
  <2>1. PICK x : At(t, x) /\ (Throw(t) \/ (Done(t) /\ revoked' = revoked))
    BY <1>19 DEF BeginBroadcast, world, history
  <2> QED
    BY <2>1, <1>p, <1>t
<1>20. ASSUME NEW t \in Threads, FinishBroadcast(t) PROVE ListInv' /\ TodoType'
  <2>1. At(t, "finish") /\ Done(t) /\ revoked' = revoked
    BY <1>20 DEF FinishBroadcast
  <2> QED
    BY <2>1, <1>p
<1>21. ASSUME NEW t \in Threads, Close(t) PROVE ListInv' /\ TodoType'
  <2>1. At(t, "close") /\ Done(t) /\ revoked' = revoked
    BY <1>21 DEF Close, world, history
  <2> QED
    BY <2>1, <1>p
<1>22. ASSUME NEW t \in Threads, StopSelf(t) PROVE ListInv' /\ TodoType'
  <2>1. At(t, "stopSelf") /\ Done(t) /\ revoked' = revoked
    BY <1>22 DEF StopSelf, history
  <2> QED
    BY <2>1, <1>p
<1>23. ASSUME NEW t \in Threads, Kill(t) PROVE ListInv' /\ TodoType'
  BY <1>23, GoneFresh, FreshList DEF Kill
<1>24. ASSUME NEW t \in Threads, JniStop(t) PROVE ListInv' /\ TodoType'
  <2>1. At(t, "nativeStop") /\ revoked' = revoked
    BY <1>24 DEF JniStop, world, history
  <2>2. /\ todo[t] \in Seq(StepNames) /\ todo[t] # << >> /\ First(todo[t], "nativeStop")
        /\ t # "test" /\ Program(todo[t]) /\ (t = "binder" => revoked)
    BY <2>1, Who
  <2>3. CASE HasThread
    <3>0. \E r \in Seq(StepNames) :
            /\ r = NativeStop \o Tail(todo[t]) /\ Program(r) /\ Final(r, "kill")
            /\ \A x : In(r, x) => In(todo[t], x) \/ x \in {"serviceStop", "join", "delete"}
      <4>1. PICK s : s = todo[t]
        OBVIOUS
      <4>2. s \in Seq(StepNames) /\ First(s, "nativeStop") /\ Program(s)
        BY <2>2, <4>1
      <4>3. \E r \in Seq(StepNames) :
              /\ r = NativeStop \o Tail(s) /\ Program(r) /\ Final(r, "kill")
              /\ \A x : In(r, x) => In(s, x) \/ x \in {"serviceStop", "join", "delete"}
        BY <4>2, JniStopList
      <4> QED
        BY <4>1, <4>3
    <3>1. PICK r \in Seq(StepNames) :
            /\ r = NativeStop \o Tail(todo[t]) /\ Program(r) /\ Final(r, "kill")
            /\ \A x : In(r, x) => In(todo[t], x) \/ x \in {"serviceStop", "join", "delete"}
      BY <3>0
    <3>3. t = "main" => ~ In(r, "refusal")
      <4>1. \A x : In(r, x) => In(todo[t], x) \/ x \in {"serviceStop", "join", "delete"}
        BY <3>1
      <4>2. t = "main" => ~ In(todo[t], "refusal")
        BY DEF ListInv, main
      <4> QED
        BY <4>1, <4>2
    <3>2. todo' = [todo EXCEPT ![t] = r]
      BY <1>24, <2>3, <3>1 DEF JniStop
    <3> QED
      BY <2>1, <2>2, <3>1, <3>2, <3>3, OneList
  <2>4. CASE ~ HasThread
    <3>1. Done(t)
      <4>1. PICK q : q = Tail(todo[t])
        OBVIOUS
      <4>2. q \in Seq(StepNames)
        BY <2>2, <4>1, TailFacts
      <4>3. << >> \o q = q
        BY <4>2
      <4>4. todo' = [todo EXCEPT ![t] = q]
        BY <1>24, <2>4, <4>1, <4>3 DEF JniStop
      <4> QED
        BY <4>1, <4>4 DEF Done
    <3> QED
      BY <2>1, <3>1, <1>p
  <2> QED
    BY <2>3, <2>4
<1>25. ASSUME NEW t \in Threads, ServiceStop(t) PROVE ListInv' /\ TodoType'
  <2>1. At(t, "serviceStop") /\ (Gone("crashed") \/ (Done(t) /\ revoked' = revoked))
    BY <1>25 DEF ServiceStop, world, history
  <2> QED
    BY <2>1, <1>p, GoneFresh, FreshList
<1>26. ASSUME NEW t \in Threads, Join(t) PROVE ListInv' /\ TodoType'
  <2>1. /\ At(t, "join")
        /\ \/ Gone("crashed")
           \/ todo' = [todo EXCEPT ![t] = [@ EXCEPT ![1] = "wait"]] /\ revoked' = revoked
    BY <1>26 DEF Join, world, history
  <2>2. /\ todo[t] \in Seq(StepNames) /\ First(todo[t], "join")
        /\ t # "test" /\ Program(todo[t]) /\ (t = "binder" => revoked)
    BY <2>1, Who
  <2>3. PICK r : r = [todo[t] EXCEPT ![1] = "wait"]
    OBVIOUS
  <2>4. /\ r \in Seq(StepNames) /\ Program(r) /\ Final(r, "kill")
        /\ \A x : In(r, x) => In(todo[t], x) \/ x = "wait"
    BY <2>2, <2>3, JoinList
  <2>7. t = "main" => ~ In(r, "refusal")
    BY <2>4 DEF ListInv, main
  <2>5. CASE Gone("crashed")
    BY <2>5, GoneFresh, FreshList
  <2>6. CASE todo' = [todo EXCEPT ![t] = [@ EXCEPT ![1] = "wait"]] /\ revoked' = revoked
    <3>1. todo' = [todo EXCEPT ![t] = r]
      BY <2>3, <2>6
    <3> QED
      BY <2>2, <2>4, <2>6, <2>7, <3>1, OneList
  <2> QED
    BY <2>1, <2>5, <2>6
<1>27. ASSUME NEW t \in Threads, Wait(t) PROVE ListInv' /\ TodoType'
  <2>1. At(t, "wait") /\ Done(t) /\ revoked' = revoked
    BY <1>27 DEF Wait, world, history
  <2> QED
    BY <2>1, <1>p
<1>28. ASSUME NEW t \in Threads, Delete(t) PROVE ListInv' /\ TodoType'
  <2>1. At(t, "delete") /\ Done(t) /\ revoked' = revoked
    BY <1>28 DEF Delete, world, history
  <2> QED
    BY <2>1, <1>p
<1> QED
  BY <1>1, <1>2, <1>3, <1>4, <1>5, <1>6, <1>7, <1>8, <1>9, <1>10, <1>11, <1>12, <1>13, <1>14,
     <1>15, <1>16, <1>17, <1>18, <1>19, <1>20, <1>21, <1>22, <1>23, <1>24, <1>25, <1>26, <1>27,
     <1>28, Cases

-----------------------------------------------------------------------------
(* What the steps that change a list in another way leave in it.           *)
LEMMA HandleMoves ==
  ASSUME TypeOK, ListInv, Handle
  PROVE  /\ proc /\ main = << >> /\ binder' = binder /\ todo'["test"] = todo["test"]
         /\ UNCHANGED <<world, service, talk, ports, native>>
         /\ \A x \in {"serviceStop", "join", "wait", "delete"} : ~ First(main', x)
         /\ \/ /\ Final(main', "return") /\ ~ In(main', "kill")
               /\ inbox # << >> /\ inbox[1] = "start"
               /\ In(main', "ports") /\ In(main', "trojan") /\ In(main', "front")
               /\ First(main', "STARTING")
            \/ /\ Final(main', "kill") /\ ~ Final(main', "return") /\ In(main', "stopSelf")
               /\ ~ In(main', "STARTING") /\ ~ In(main', "STARTED") /\ ~ In(main', "trojan")
               /\ \A i \in 1 .. 3 : i \in DOMAIN main' => main'[i] # "kill"
<1>1. /\ proc /\ main = << >>
      /\ UNCHANGED <<world, service, talk, ports, native>>
  BY DEF Handle, main
<1>2. PICK q \in {OnStartCommand, Stop, Destruction} :
        /\ todo' = [todo EXCEPT !["main"] = q]
        /\ q = OnStartCommand => inbox # << >> /\ Head(inbox) = "start"
  <2>1. OnStartCommand # Stop /\ OnStartCommand # Destruction
    BY StartProgram, StopProgram, DestructionProgram
  <2> QED
    BY <2>1 DEF Handle, Destruction
<1>3. q \in Seq(StepNames)
  BY StopFacts, StartFacts, DestructionFacts
<1>4. main' = q /\ binder' = binder /\ todo'["test"] = todo["test"]
  BY <1>2, <1>3, Update, ThreadNames DEF main, binder
<1>5. \A x \in {"serviceStop", "join", "wait", "delete"} : ~ First(q, x)
  BY StopProgram, StartProgram, DestructionProgram
<1>6. CASE q = OnStartCommand
  <2>1. inbox # << >> /\ inbox[1] = "start"
    BY <1>2, <1>6 DEF TypeOK
  <2> QED
    BY <1>1, <1>4, <1>5, <1>6, <2>1, StartProgram
<1>7. CASE q # OnStartCommand
  BY <1>1, <1>2, <1>4, <1>5, <1>7, StopProgram, DestructionProgram
<1> QED
  BY <1>6, <1>7

(* What Rules does to the lists.                                           *)
LEMMA RulesMoves ==
  ASSUME TypeOK, ListInv, Rules
  PROVE  /\ binder' = binder /\ todo'["test"] = todo["test"]
         /\ First(main, "rules") /\ Final(main, "return") /\ Final(main', "return")
         /\ \A x \in {"serviceStop", "join", "wait", "delete"} : ~ First(main', x)
         /\ \A x : In(main, x) => In(main', x) \/ x = "rules"
         /\ \A x : In(main', x) => In(main, x) \/ x \in {"STOPPED", "begin", "finish"}
<1> USE ThreadNames
<1>1. At("main", "rules") /\ revoked' = revoked
  BY DEF Rules, world, history
<1>2. /\ main \in Seq(StepNames) /\ main # << >> /\ First(main, "rules") /\ Program(main)
      /\ Final(main, "return")
  BY <1>1, Who DEF main, Opening
<1>3. PICK missing \in BOOLEAN : todo' = [todo EXCEPT !["main"] =
        (IF missing THEN SetState("STOPPED") ELSE << >>) \o Tail(main)]
  BY DEF Rules, main
<1>4. CASE missing
  <2>1. PICK r \in Seq(StepNames) :
          /\ r = SetState("STOPPED") \o Tail(main) /\ Final(r, "return")
          /\ \A x : First(r, x) => x = "STOPPED"
          /\ \A x : In(main, x) => In(r, x) \/ x = "rules"
          /\ \A x : In(r, x) => In(main, x) \/ x \in {"STOPPED", "begin", "finish"}
    BY <1>2, RulesList
  <2>2. todo' = [todo EXCEPT !["main"] = r]
    BY <1>3, <1>4, <2>1
  <2>3. main' = r /\ binder' = binder /\ todo'["test"] = todo["test"]
    BY <2>2, Update DEF main, binder
  <2> QED
    BY <1>2, <2>1, <2>3
<1>5. CASE ~ missing
  <2>1. PICK q : q = Tail(main)
    OBVIOUS
  <2>2. q \in Seq(StepNames) /\ Popped(main, q) /\ Follows(main, q)
    BY <1>2, <2>1, TailFacts, TailPopped, TailFollows
  <2>3. << >> \o q = q
    BY <2>2
  <2>4. todo' = [todo EXCEPT !["main"] = q]
    BY <1>3, <1>5, <2>1, <2>3
  <2>5. main' = q /\ binder' = binder /\ todo'["test"] = todo["test"]
    BY <2>2, <2>4, Update DEF main, binder
  <2>6. \A x : First(main, x) => x = "rules"
    BY <1>2 DEF First
  <2> QED
    BY <1>2, <2>2, <2>5, <2>6 DEF Popped, Follows
<1> QED
  BY <1>4, <1>5

(* What Establish does: the start goes on, or turns into a stop.           *)
LEMMA EstablishMoves ==
  ASSUME TypeOK, ListInv, Establish
  PROVE  /\ At("main", "establish") /\ Final(main, "return") /\ In(main, "trojan")
         /\ \/ Done("main")
            \/ /\ binder' = binder /\ todo'["test"] = todo["test"]
               /\ \A x \in {"serviceStop", "join", "wait", "delete"} : ~ First(main', x)
               /\ Final(main', "kill") /\ ~ Final(main', "return") /\ In(main', "stopSelf")
               /\ ~ In(main', "STARTING") /\ ~ In(main', "STARTED")
               /\ \A i \in 1 .. 3 : i \in DOMAIN main' => main'[i] # "kill"
<1> USE ThreadNames
<1>1. At("main", "establish") /\ (Done("main") \/ todo' = [todo EXCEPT !["main"] = Stop])
  BY DEF Establish
<1>2. First(main, "establish") /\ Program(main) /\ Final(main, "return") /\ main \in Seq(StepNames)
  BY <1>1, Who DEF main, Opening
<1>3. In(main, "trojan")
  <2>1. 1 \in DOMAIN main /\ main[1] = "establish"
    BY <1>2 DEF First
  <2> QED
    BY <1>2, <2>1 DEF In, Program, Ahead
<1>4. ASSUME todo' = [todo EXCEPT !["main"] = Stop]
      PROVE  main' = Stop /\ binder' = binder /\ todo'["test"] = todo["test"]
  BY <1>4, StopFacts, Update DEF main, binder
<1> QED
  BY <1>1, <1>2, <1>3, <1>4, StopProgram

(* What JniStop does.                                                      *)
LEMMA JniStopMoves ==
  ASSUME TypeOK, ListInv, NEW t \in Threads, JniStop(t)
  PROVE  /\ t = "main" \/ t = "binder"
         /\ t = "binder" => revoked
         /\ \A u \in Threads : u # t => todo'[u] = todo[u]
         /\ ~ Clear(todo[t]) /\ Final(todo[t], "kill") /\ Final(todo'[t], "kill")
         /\ ~ Final(todo[t], "return")
         /\ ~ First(todo'[t], "join") /\ ~ First(todo'[t], "wait") /\ ~ First(todo'[t], "delete")
         /\ First(todo'[t], "serviceStop") => trojanThread
         /\ \A x : In(todo[t], x) => In(todo'[t], x) \/ x = "nativeStop"
         /\ \A x : In(todo'[t], x) => In(todo[t], x) \/ x \in {"serviceStop", "join", "delete"}
         /\ \A i \in 1 .. 3 : i \in DOMAIN todo'[t] => todo'[t][i] # "kill"
<1>1. At(t, "nativeStop")
  BY DEF JniStop
<1>2. /\ todo[t] \in Seq(StepNames) /\ todo[t] # << >> /\ First(todo[t], "nativeStop")
      /\ t # "test" /\ Program(todo[t]) /\ (t = "binder" => revoked)
      /\ ~ Clear(todo[t]) /\ Final(todo[t], "kill")
  BY <1>1, Who DEF Native, Closing
<1>3. ~ Final(todo[t], "return")
  BY <1>2, OneFinal
<1>4. CASE HasThread
  <2>1. PICK r \in Seq(StepNames) :
          /\ r = NativeStop \o Tail(todo[t]) /\ Final(r, "kill")
          /\ \A x : First(r, x) => x = "serviceStop"
          /\ \A x : In(todo[t], x) => In(r, x) \/ x = "nativeStop"
          /\ \A x : In(r, x) => In(todo[t], x) \/ x \in {"serviceStop", "join", "delete"}
          /\ \A i \in 1 .. 3 : i \in DOMAIN r => r[i] # "kill"
    BY <1>2, JniStopList
  <2>2. todo' = [todo EXCEPT ![t] = r]
    BY <1>4, <2>1 DEF JniStop
  <2>3. todo'[t] = r /\ \A u \in Threads : u # t => todo'[u] = todo[u]
    BY <2>2, Update
  <2> QED
    BY <1>2, <1>3, <1>4, <2>1, <2>3, ThreadNames DEF HasThread
<1>5. CASE ~ HasThread
  <2>1. PICK q : q = Tail(todo[t])
    OBVIOUS
  <2>2. /\ q \in Seq(StepNames) /\ Popped(todo[t], q) /\ Follows(todo[t], q)
        /\ DOMAIN q = 1 .. Len(todo[t]) - 1 /\ Len(todo[t]) \in Nat
        /\ DOMAIN todo[t] = 1 .. Len(todo[t])
        /\ \A i \in DOMAIN q : q[i] = todo[t][i + 1]
    BY <1>2, <2>1, TailFacts, TailPopped, TailFollows
  <2>3. << >> \o q = q
    BY <2>2
  <2>4. todo' = [todo EXCEPT ![t] = q]
    BY <1>5, <2>1, <2>3 DEF JniStop
  <2>5. todo'[t] = q /\ \A u \in Threads : u # t => todo'[u] = todo[u]
    BY <2>2, <2>4, Update
  <2>6. \A x : First(todo[t], x) => x = "nativeStop"
    BY <1>2 DEF First
  <2>7. \A i \in 1 .. 3 : i \in DOMAIN q => q[i] # "kill"
    <3>1. SUFFICES ASSUME NEW i \in 1 .. 3, i \in DOMAIN q, q[i] = "kill" PROVE FALSE
      OBVIOUS
    <3>2. i + 1 \in DOMAIN todo[t] /\ todo[t][i + 1] = "kill"
      BY <2>2, <3>1
    <3>3. todo[t][1] = "nativeStop" /\ todo[t][1] \in Closing
      BY <1>2 DEF First, Closing
    <3>4. i + 1 >= 5 \/ todo[t][1] \in {"finish", "begin", "STOPPED"}
      BY <1>2, <3>2, <3>3, Kept
    <3> QED
      BY <3>1, <3>3, <3>4
  <2>8. Final(q, "kill")
    BY <1>2, <2>2, <2>6 DEF Popped
  <2> QED
    BY <1>2, <1>3, <2>2, <2>5, <2>6, <2>7, <2>8, ThreadNames DEF Popped, Follows
<1> QED
  BY <1>4, <1>5

(* What Join does.                                                         *)
LEMMA JoinMoves ==
  ASSUME TypeOK, ListInv, NEW t \in Threads, Join(t), ~ joined
  PROVE  /\ t = "main" \/ t = "binder"
         /\ t = "binder" => revoked
         /\ \A u \in Threads : u # t => todo'[u] = todo[u]
         /\ First(todo[t], "join") /\ ~ Clear(todo[t])
         /\ Final(todo[t], "kill") /\ Final(todo'[t], "kill")
         /\ ~ Final(todo[t], "return") /\ Clear(todo'[t])
         /\ \A x : First(todo'[t], x) => x = "wait"
         /\ \A x : In(todo[t], x) => In(todo'[t], x) \/ x = "join"
         /\ \A x : In(todo'[t], x) => In(todo[t], x) \/ x = "wait"
         /\ \A i \in 1 .. 3 : i \in DOMAIN todo'[t] => todo'[t][i] # "kill"
<1>1. At(t, "join") /\ todo' = [todo EXCEPT ![t] = [@ EXCEPT ![1] = "wait"]]
  BY DEF Join
<1>2. /\ todo[t] \in Seq(StepNames) /\ First(todo[t], "join")
      /\ t # "test" /\ Program(todo[t]) /\ (t = "binder" => revoked)
      /\ ~ Clear(todo[t]) /\ Final(todo[t], "kill")
  BY <1>1, Who DEF Native, Closing
<1>3. PICK r : r = [todo[t] EXCEPT ![1] = "wait"]
  OBVIOUS
<1>4. /\ r \in Seq(StepNames) /\ Final(r, "kill") /\ Clear(r)
      /\ \A x : First(r, x) => x = "wait"
      /\ \A x : In(todo[t], x) => In(r, x) \/ x = "join"
      /\ \A x : In(r, x) => In(todo[t], x) \/ x = "wait"
      /\ \A i \in 1 .. 3 : i \in DOMAIN r => r[i] # "kill"
  BY <1>2, <1>3, JoinList
<1>5. todo' = [todo EXCEPT ![t] = r]
  BY <1>1, <1>3
<1>6. todo'[t] = r /\ \A u \in Threads : u # t => todo'[u] = todo[u]
  BY <1>4, <1>5, Update
<1>7. ~ Final(todo[t], "return")
  BY <1>2, OneFinal
<1> QED
  BY <1>2, <1>4, <1>6, <1>7, ThreadNames

(* What every step that only goes on does.                                 *)
LEMMA PopMoves ==
  ASSUME TypeOK, ListInv, NEW t \in Threads, NEW x, At(t, x), Done(t)
  PROVE  /\ \A u \in Threads : u # t => todo'[u] = todo[u]
         /\ \A y : In(todo'[t], y) => In(todo[t], y)
         /\ \A y : In(todo[t], y) => In(todo'[t], y) \/ y = x
         /\ \A y : Final(todo'[t], y) => Final(todo[t], y)
         /\ \A y : Final(todo[t], y) => Final(todo'[t], y) \/ y = x
         /\ Clear(todo[t]) => Clear(todo'[t])
         /\ ~ First(todo'[t], "serviceStop") /\ ~ First(todo'[t], "wait")
         /\ First(todo'[t], "join") => x = "serviceStop"
         /\ First(todo'[t], "delete") => x = "join" \/ x = "wait"
<1>1. PICK q : q = Tail(todo[t])
  OBVIOUS
<1>2. todo[t] \in Seq(StepNames) /\ todo[t] # << >> /\ First(todo[t], x)
  BY Who
<1>3. q \in Seq(StepNames) /\ Popped(todo[t], q)
  BY <1>1, <1>2, TailFacts, TailPopped
<1>4. todo' = [todo EXCEPT ![t] = q]
  BY <1>1 DEF Done
<1>5. todo'[t] = q /\ \A u \in Threads : u # t => todo'[u] = todo[u]
  BY <1>3, <1>4, Update
<1>6. \A y : First(todo[t], y) => y = x
  BY <1>2 DEF First
<1>7. CASE t = "test"
  <2>1. \A y : In(q, y) => y \in {"result", "refusal", "finish"}
    BY <1>3, <1>7 DEF Popped, ListInv
  <2>2. \A y : First(q, y) => In(q, y)
    <3>1. q # << >> => 1 \in DOMAIN q
      BY <1>3
    <3> QED
      BY <3>1 DEF First, In
  <2> QED
    BY <1>3, <1>5, <1>6, <2>1, <2>2 DEF Popped
<1>8. CASE t # "test"
  <2>1. Follows(todo[t], q)
    BY <1>1, <1>2, <1>8, Who, TailFollows
  <2> QED
    BY <1>3, <1>5, <1>6, <2>1 DEF Popped, Follows
<1> QED
  BY <1>7, <1>8

-----------------------------------------------------------------------------
(* The thread of trojan and those that stop it.                            *)
LEMMA ThroughKept ==
  ASSUME TypeOK, ListInv, NEW t \in Threads, NEW x, At(t, x), Done(t), x # "kill",
         revoked' = revoked, Through
  PROVE  Through'
<1> USE ThreadNames
<1>1. CASE t = "main"
  BY <1>1, PopMoves DEF Through, main, binder
<1>2. CASE t # "main"
  BY <1>2, PopMoves DEF Through, main, binder
<1> QED
  BY <1>1, <1>2

(* The steps that leave the JNI glue alone keep ThreadInv and StopInv.     *)
LEMMA ThreadPop ==
  ASSUME TypeOK, ListInv, ThreadInv, StopInv, NEW t \in Threads, NEW x, At(t, x), Done(t),
         x \notin {"serviceStop", "join", "wait", "kill"},
         UNCHANGED <<trojanThread, trojanService, joined, trojan, io_stopped, revoked>>
  PROVE  ThreadInv' /\ StopInv'
<1>1. Through => Through'
  BY ThroughKept
<1>2. ThreadInv'
  BY <1>1 DEF ThreadInv
<1>3. \A y \in {"serviceStop", "join", "wait", "delete"} : ~ First(todo'[t], y)
  BY PopMoves
<1>4. \A u \in Threads : u # t => todo'[u] = todo[u]
  BY PopMoves
<1>5. StopInv'
  BY <1>3, <1>4, ThreadNames DEF StopInv, main, binder
<1> QED
  BY <1>2, <1>5

(* So does what touches neither list nor glue.                             *)
LEMMA ThreadQuiet ==
  ASSUME ThreadInv, StopInv,
         UNCHANGED <<todo, trojanThread, trojanService, joined, trojan, io_stopped, revoked>>
  PROVE  ThreadInv' /\ StopInv'
BY DEF ThreadInv, StopInv, Through, main, binder

(* So does a new process.                                                  *)
LEMMA ThreadFresh ==
  ASSUME Fresh
  PROVE  ThreadInv' /\ StopInv'
<1>1. /\ ~ trojanThread' /\ trojanService' = "null" /\ ~ joined' /\ trojan' = "none"
  BY DEF Fresh
<1>2. \A t \in Threads : \A x : ~ First(todo'[t], x)
  BY FreshLists, EmptyList
<1> QED
  BY <1>1, <1>2, ThreadNames DEF ThreadInv, StopInv, main, binder

(* A list that ends with "return" becomes one that starts with no step of  *)
(* JNIHelper.stop.                                                         *)
LEMMA ThreadMain ==
  ASSUME ListInv, ThreadInv, StopInv, ~ Final(main, "kill"), binder' = binder,
         todo'["test"] = todo["test"],
         \A x \in {"serviceStop", "join", "wait", "delete"} : ~ First(main', x),
         UNCHANGED <<trojanThread, trojanService, joined, trojan, io_stopped, revoked>>
  PROVE  ThreadInv' /\ StopInv'
<1>1. Through => Through'
  BY DEF Through
<1>2. ThreadInv'
  BY <1>1 DEF ThreadInv
<1>3. StopInv'
  BY ThreadNames DEF StopInv, main, binder
<1> QED
  BY <1>2, <1>3

(* So does JNIHelper.trojan.                                               *)
LEMMA ThreadTrojan ==
  ASSUME TypeOK, ListInv, ThreadInv, StopInv, JniTrojan
  PROVE  ThreadInv' /\ StopInv'
<1> USE ThreadNames
<1>1. At("main", "trojan") /\ Done("main") /\ revoked' = revoked
  BY DEF JniTrojan, world, history
<1>2. Final(main, "return") /\ ~ Final(main, "kill")
  BY <1>1, Who, OneFinal DEF Opening, main
<1>3. Through => revoked /\ Clear(binder)
  BY <1>2 DEF Through
<1>4. /\ binder' = binder /\ todo'["test"] = todo["test"]
      /\ \A y \in {"serviceStop", "join", "wait", "delete"} : ~ First(main', y)
  BY <1>1, PopMoves DEF main, binder
<1>5. CASE trojanThread
  <2>1. UNCHANGED <<trojanThread, trojanService, joined, trojan, io_stopped>>
    BY <1>5 DEF JniTrojan, native
  <2> QED
    BY <1>1, <2>1, ThreadPop
<1>6. CASE ~ trojanThread
  <2>1. /\ trojanThread' /\ trojan' = "loading" /\ joined' = FALSE
        /\ trojanService' = trojanService
    BY <1>6 DEF JniTrojan
  <2>2. Through => Through'
    BY <1>1, <1>3, <1>4 DEF Through
  <2>3. ThreadInv'
    BY <1>6, <2>1, <2>2 DEF ThreadInv
  <2>4. \A t \in Threads : ~ First(todo[t], "wait") /\ ~ First(todo[t], "delete")
    BY <1>6 DEF StopInv
  <2>5. StopInv'
    BY <1>4, <2>1, <2>4 DEF StopInv, main, binder
  <2> QED
    BY <2>3, <2>5
<1> QED
  BY <1>5, <1>6

(* The beginning of JNIHelper.stop, which looks at trojanThread.           *)
LEMMA ThreadJniStop ==
  ASSUME TypeOK, ListInv, ThreadInv, StopInv, NEW t \in Threads, JniStop(t)
  PROVE  ThreadInv' /\ StopInv'
<1>1. UNCHANGED <<trojanThread, trojanService, joined, trojan, io_stopped, revoked>>
  BY DEF JniStop, world, history, native
<1>2. Through => Through'
  <2>1. CASE t = "main"
    BY <1>1, <2>1, JniStopMoves, ThreadNames DEF Through, main, binder
  <2>2. CASE t = "binder"
    BY <1>1, <2>2, JniStopMoves, ThreadNames DEF Through, main, binder
  <2> QED
    BY <2>1, <2>2, JniStopMoves
<1>3. ThreadInv'
  BY <1>1, <1>2 DEF ThreadInv
<1>4. /\ ~ First(todo'[t], "join") /\ ~ First(todo'[t], "wait") /\ ~ First(todo'[t], "delete")
      /\ First(todo'[t], "serviceStop") => trojan # "none"
  BY JniStopMoves DEF ThreadInv
<1>5. \A u \in Threads : u # t => todo'[u] = todo[u]
  BY JniStopMoves
<1>6. StopInv'
  BY <1>1, <1>4, <1>5, ThreadNames DEF StopInv, main, binder
<1> QED
  BY <1>3, <1>6

(* The stop of the Service: what follows is a join.                        *)
LEMMA ThreadServiceStop ==
  ASSUME TypeOK, ListInv, ThreadInv, StopInv, NEW t \in Threads, ServiceStop(t)
  PROVE  ThreadInv' /\ StopInv'
<1>1. CASE Gone("crashed")
  BY <1>1, GoneFresh, ThreadFresh
<1>2. CASE ~ Gone("crashed")
  <2>1. /\ At(t, "serviceStop") /\ trojanService # "null" /\ Done(t)
        /\ io_stopped' = (trojanService = "live" \/ io_stopped)
        /\ UNCHANGED <<trojanThread, trojanService, joined, trojan, revoked>>
    BY <1>2 DEF ServiceStop, world, history
  <2>2. Through => Through'
    BY <2>1, ThroughKept
  <2>3. ThreadInv'
    BY <2>1, <2>2 DEF ThreadInv
  <2>4. First(todo[t], "serviceStop")
    BY <2>1, Who
  <2>5. trojan # "none"
    BY <2>4 DEF StopInv
  <2>6. /\ \A u \in Threads : u # t => todo'[u] = todo[u]
        /\ \A y \in {"serviceStop", "wait", "delete"} : ~ First(todo'[t], y)
    BY <2>1, PopMoves
  <2>7. StopInv'
    BY <2>1, <2>5, <2>6, ThreadNames DEF StopInv, main, binder
  <2> QED
    BY <2>3, <2>7
<1> QED
  BY <1>1, <1>2

(* The join, which happens once.                                           *)
LEMMA ThreadJoin ==
  ASSUME TypeOK, ListInv, ThreadInv, StopInv, NEW t \in Threads, Join(t)
  PROVE  ThreadInv' /\ StopInv'
<1>1. CASE joined
  BY <1>1, GoneFresh, ThreadFresh DEF Join
<1>2. CASE ~ joined
  <2>1. /\ joined' = TRUE
        /\ UNCHANGED <<trojanThread, trojanService, trojan, io_stopped, revoked>>
    BY <1>2 DEF Join, world, history
  <2>2. /\ t = "main" \/ t = "binder"
        /\ t = "binder" => revoked
        /\ \A u \in Threads : u # t => todo'[u] = todo[u]
        /\ First(todo[t], "join") /\ Final(todo'[t], "kill") /\ Clear(todo'[t])
        /\ \A x : First(todo'[t], x) => x = "wait"
    BY <1>2, JoinMoves
  <2>3. Through'
    BY <2>1, <2>2 DEF Through, main, binder
  <2>4. ThreadInv'
    BY <2>1, <2>3 DEF ThreadInv
  <2>5. trojan # "none" /\ trojanService # "null" /\ trojanThread
    BY <1>2, <2>2 DEF StopInv, ThreadInv
  <2>6. \A u \in Threads : ~ First(todo[u], "wait") /\ ~ First(todo[u], "delete")
    BY <1>2 DEF StopInv
  <2>7. StopInv'
    BY <2>1, <2>2, <2>5, <2>6, ThreadNames DEF StopInv, main, binder
  <2> QED
    BY <2>4, <2>7
<1> QED
  BY <1>1, <1>2

(* The end of the join.                                                    *)
LEMMA ThreadWait ==
  ASSUME TypeOK, ListInv, ThreadInv, StopInv, NEW t \in Threads, Wait(t)
  PROVE  ThreadInv' /\ StopInv'
<1>1. /\ At(t, "wait") /\ trojan = "exited" /\ Done(t)
      /\ UNCHANGED <<trojanThread, trojanService, joined, trojan, io_stopped, revoked>>
  BY DEF Wait, world, history, native
<1>2. Through => Through'
  BY <1>1, ThroughKept
<1>3. ThreadInv'
  BY <1>1, <1>2 DEF ThreadInv
<1>4. First(todo[t], "wait")
  BY <1>1, Who
<1>5. trojanThread /\ joined /\ trojanService # "null"
  BY <1>4 DEF StopInv
<1>6. /\ \A u \in Threads : u # t => todo'[u] = todo[u]
      /\ \A y \in {"serviceStop", "join", "wait"} : ~ First(todo'[t], y)
  BY <1>1, PopMoves
<1>7. StopInv'
  BY <1>1, <1>4, <1>5, <1>6, ThreadNames DEF StopInv, main, binder
<1> QED
  BY <1>3, <1>7

(* The Service is freed, its thread forgotten.                             *)
LEMMA ThreadDelete ==
  ASSUME TypeOK, ListInv, ThreadInv, StopInv, NEW t \in Threads, Delete(t)
  PROVE  ThreadInv' /\ StopInv'
<1>1. /\ At(t, "delete") /\ Done(t) /\ trojanService' = "freed" /\ trojanThread' = FALSE
      /\ UNCHANGED <<joined, trojan, io_stopped, revoked>>
  BY DEF Delete, world, history
<1>2. First(todo[t], "delete") /\ t # "test"
  BY <1>1, Who
<1>3. trojan = "exited" /\ joined
  BY <1>2 DEF StopInv
<1>4. Through'
  BY <1>1, <1>3, ThroughKept DEF ThreadInv
<1>5. ThreadInv'
  BY <1>1, <1>3, <1>4 DEF ThreadInv
<1>6. /\ \A u \in Threads : u # t => todo'[u] = todo[u]
      /\ \A y \in {"serviceStop", "join", "wait", "delete"} : ~ First(todo'[t], y)
  BY <1>1, PopMoves
<1>7. \A u \in Threads : u # t => ~ First(todo[u], "wait") /\ ~ First(todo[u], "delete")
  <2>1. \A y : In(todo["test"], y) => y \notin {"wait", "delete"}
    BY DEF ListInv
  <2>2. ~ First(todo["test"], "wait") /\ ~ First(todo["test"], "delete")
    <3>1. todo["test"] \in Seq(StepNames)
      BY Lists, ThreadNames
    <3>2. todo["test"] # << >> => 1 \in DOMAIN todo["test"]
      BY <3>1
    <3> QED
      BY <2>1, <3>2 DEF First, In
  <2>3. CASE t = "main"
    BY <1>2, <2>2, <2>3, ThreadNames DEF StopInv, main, binder
  <2>4. CASE t = "binder"
    BY <1>2, <2>2, <2>4, ThreadNames DEF StopInv, main, binder
  <2> QED
    BY <1>2, <2>3, <2>4, ThreadNames
<1>8. StopInv'
  BY <1>1, <1>3, <1>6, <1>7, ThreadNames DEF StopInv, main, binder
<1> QED
  BY <1>5, <1>8

(* Every step keeps ThreadInv and StopInv.                                 *)
LEMMA ThreadStep ==
  ASSUME TypeOK, ListInv, ThreadInv, StopInv, Next
  PROVE  ThreadInv' /\ StopInv'
<1> USE ThreadNames
<1>1. CASE StartRequest
  BY <1>1, ThreadQuiet DEF StartRequest, java, native
<1>2. CASE StopRequest
  BY <1>2, ThreadQuiet DEF StopRequest, java, native, history
<1>3. CASE Create
  BY <1>3, ThreadFresh DEF Create
<1>4. CASE Unbind
  BY <1>4, ThreadQuiet DEF Unbind, java, native, history
<1>5. CASE OnRevoke
  <2>1. /\ ~ revoked /\ revoked' = TRUE /\ todo' = [todo EXCEPT !["binder"] = Stop]
        /\ UNCHANGED <<trojanThread, trojanService, joined, trojan, io_stopped>>
    BY <1>5 DEF OnRevoke, native
  <2>2. main' = main /\ binder' = Stop /\ todo'["test"] = todo["test"]
    BY <2>1, StopFacts, Update DEF main, binder
  <2>3. Through => Through'
    BY <2>1, <2>2 DEF Through
  <2>4. ThreadInv'
    BY <2>1, <2>3 DEF ThreadInv
  <2>5. StopInv'
    BY <2>1, <2>2, StopProgram DEF StopInv, main, binder
  <2> QED
    BY <2>4, <2>5
<1>6. CASE Test
  <2>1. PICK x \in {"result", "refusal"} : todo' = [todo EXCEPT !["test"] = <<x, "finish">>]
    BY <1>6 DEF Test
  <2>2. PICK q : q = <<x, "finish">>
    OBVIOUS
  <2>3. q \in Seq(StepNames) /\ Len(q) = 2 /\ q[1] = x /\ q[2] = "finish"
    BY <2>2, NamesFacts, Pair
  <2>4. \A y \in {"serviceStop", "join", "wait", "delete"} : ~ First(q, y)
    BY <2>3 DEF First
  <2>5. main' = main /\ binder' = binder /\ todo'["test"] = q
    BY <2>1, <2>2, <2>3, Update DEF main, binder
  <2>6. UNCHANGED <<trojanThread, trojanService, joined, trojan, io_stopped, revoked>>
    BY <1>6 DEF Test, world, history, native
  <2>7. ThreadInv'
    BY <2>5, <2>6 DEF ThreadInv, Through
  <2>8. StopInv'
    BY <2>4, <2>5, <2>6 DEF StopInv, main, binder
  <2> QED
    BY <2>7, <2>8
<1>7. CASE Handle
  <2>1. ~ Final(main, "kill")
    BY <1>7, HandleMoves, EmptyList
  <2> QED
    BY <1>7, <2>1, HandleMoves, ThreadMain DEF world, history, native
<1>8. CASE Rules
  <2>1. ~ Final(main, "kill")
    BY <1>8, RulesMoves, OneFinal
  <2>2. UNCHANGED <<trojanThread, trojanService, joined, trojan, io_stopped, revoked>>
    BY <1>8 DEF Rules, world, history, native
  <2> QED
    BY <1>8, <2>1, <2>2, RulesMoves, ThreadMain
<1>9. CASE Establish
  <2>1. ~ Final(main, "kill") /\ At("main", "establish")
    BY <1>9, EstablishMoves, OneFinal
  <2>2. UNCHANGED <<trojanThread, trojanService, joined, trojan, io_stopped, revoked>>
    BY <1>9 DEF Establish, world, history, native
  <2>3. CASE Done("main")
    BY <2>1, <2>2, <2>3, ThreadPop
  <2>4. CASE ~ Done("main")
    BY <1>9, <2>1, <2>2, <2>4, EstablishMoves, ThreadMain
  <2> QED
    BY <2>3, <2>4
<1>10. CASE ChoosePorts
  <2>1. At("main", "ports") /\ Done("main")
        /\ UNCHANGED <<trojanThread, trojanService, joined, trojan, io_stopped, revoked>>
    BY <1>10 DEF ChoosePorts, world, history, native
  <2> QED
    BY <2>1, ThreadPop
<1>11. CASE JniTrojan
  BY <1>11, ThreadTrojan
<1>12. CASE Front
  <2>1. At("main", "front") /\ Done("main")
        /\ UNCHANGED <<trojanThread, trojanService, joined, trojan, io_stopped, revoked>>
    BY <1>12 DEF Front, world, history, native
  <2> QED
    BY <2>1, ThreadPop
<1>13. CASE Return
  <2>1. At("main", "return") /\ Done("main")
        /\ UNCHANGED <<trojanThread, trojanService, joined, trojan, io_stopped, revoked>>
    BY <1>13 DEF Return, history, native
  <2> QED
    BY <2>1, ThreadPop
<1>14. CASE Load
  <2>1. /\ trojan = "loading" /\ trojan' = "binding"
        /\ UNCHANGED <<todo, trojanThread, trojanService, joined, io_stopped, revoked>>
    BY <1>14 DEF Load, java, world, history
  <2> QED
    BY <2>1 DEF ThreadInv, StopInv, Through, main, binder
<1>15. CASE MakeService
  <2>1. CASE Gone("crashed")
    BY <2>1, GoneFresh, ThreadFresh
  <2>2. CASE ~ Gone("crashed")
    <3>1. /\ trojan = "binding" /\ trojan' = "made" /\ trojanService' = "live"
          /\ UNCHANGED <<todo, trojanThread, joined, revoked>>
      BY <1>15, <2>2 DEF MakeService, Assigned, java, world, history
    <3> QED
      BY <3>1 DEF ThreadInv, StopInv, Through, main, binder
  <2> QED
    BY <2>1, <2>2
<1>16. CASE RunService
  <2>1. /\ trojan = "made" /\ trojan' = "running"
        /\ UNCHANGED <<todo, trojanThread, trojanService, joined, io_stopped, revoked>>
    BY <1>16 DEF RunService, ServiceRun, java, world, history
  <2> QED
    BY <2>1 DEF ThreadInv, StopInv, Through, main, binder
<1>17. CASE Exit
  <2>1. /\ trojan = "running" /\ trojan' = "exited" /\ io_stopped
        /\ UNCHANGED <<todo, trojanThread, trojanService, joined, io_stopped, revoked>>
    BY <1>17 DEF Exit, java, world, history
  <2> QED
    BY <2>1 DEF ThreadInv, StopInv, Through, main, binder
<1>18. ASSUME NEW t \in Threads, Assign(t) PROVE ThreadInv' /\ StopInv'
  <2>1. PICK s \in States : At(t, s) /\ Done(t)
    BY <1>18 DEF Assign
  <2>2. UNCHANGED <<trojanThread, trojanService, joined, trojan, io_stopped, revoked>>
    BY <1>18 DEF Assign, world, history, native
  <2>3. s \notin {"serviceStop", "join", "wait", "kill"}
    BY DEF States
  <2> QED
    BY <2>1, <2>2, <2>3, ThreadPop
<1>19. ASSUME NEW t \in Threads, BeginBroadcast(t) PROVE ThreadInv' /\ StopInv'
  <2>1. PICK x \in {"begin", "result", "refusal"} :
          /\ At(t, x)
          /\ \/ Throw(t)
             \/ /\ Done(t)
                /\ UNCHANGED <<trojanThread, trojanService, joined, trojan, io_stopped, revoked>>
    BY <1>19 DEF BeginBroadcast, world, history, native
  <2>2. CASE Gone("crashed")
    BY <2>2, GoneFresh, ThreadFresh
  <2>3. CASE /\ t = "binder" \/ At(t, "refusal")
             /\ todo' = [todo EXCEPT ![t] = << >>]
             /\ UNCHANGED <<world, service, talk, ports, native>>
    <3>1. PICK q : q = << >>
      OBVIOUS
    <3>2. q \in Seq(StepNames)
      BY <3>1
    <3>3. todo'[t] = q /\ \A u \in Threads : u # t => todo'[u] = todo[u]
      BY <2>3, <3>1, <3>2, Update
    <3>4. UNCHANGED <<trojanThread, trojanService, joined, trojan, io_stopped, revoked>>
      BY <2>3 DEF world, history, native
    <3>5. Clear(q) /\ \A y : ~ First(q, y)
      BY <3>1, EmptyList
    <3>6. t # "main"
      BY <2>3, Who DEF ListInv, main
    <3>7. Through => Through'
      BY <3>3, <3>4, <3>5, <3>6 DEF Through, main, binder
    <3>8. ThreadInv'
      BY <3>4, <3>7 DEF ThreadInv
    <3>9. StopInv'
      BY <3>3, <3>4, <3>5 DEF StopInv, main, binder
    <3> QED
      BY <3>8, <3>9
  <2>4. CASE /\ Done(t)
             /\ UNCHANGED <<trojanThread, trojanService, joined, trojan, io_stopped, revoked>>
    BY <2>1, <2>4, ThreadPop
  <2> QED
    BY <2>1, <2>2, <2>3, <2>4, ThrowCases
<1>20. ASSUME NEW t \in Threads, FinishBroadcast(t) PROVE ThreadInv' /\ StopInv'
  <2>1. At(t, "finish") /\ Done(t)
        /\ UNCHANGED <<trojanThread, trojanService, joined, trojan, io_stopped, revoked>>
    BY <1>20 DEF FinishBroadcast, native
  <2> QED
    BY <2>1, ThreadPop
<1>21. ASSUME NEW t \in Threads, Close(t) PROVE ThreadInv' /\ StopInv'
  <2>1. At(t, "close") /\ Done(t)
        /\ UNCHANGED <<trojanThread, trojanService, joined, trojan, io_stopped, revoked>>
    BY <1>21 DEF Close, world, history, native
  <2> QED
    BY <2>1, ThreadPop
<1>22. ASSUME NEW t \in Threads, StopSelf(t) PROVE ThreadInv' /\ StopInv'
  <2>1. At(t, "stopSelf") /\ Done(t)
        /\ UNCHANGED <<trojanThread, trojanService, joined, trojan, io_stopped, revoked>>
    BY <1>22 DEF StopSelf, history, native
  <2> QED
    BY <2>1, ThreadPop
<1>23. ASSUME NEW t \in Threads, Kill(t) PROVE ThreadInv' /\ StopInv'
  BY <1>23, GoneFresh, ThreadFresh DEF Kill
<1>24. ASSUME NEW t \in Threads, JniStop(t) PROVE ThreadInv' /\ StopInv'
  BY <1>24, ThreadJniStop
<1>25. ASSUME NEW t \in Threads, ServiceStop(t) PROVE ThreadInv' /\ StopInv'
  BY <1>25, ThreadServiceStop
<1>26. ASSUME NEW t \in Threads, Join(t) PROVE ThreadInv' /\ StopInv'
  BY <1>26, ThreadJoin
<1>27. ASSUME NEW t \in Threads, Wait(t) PROVE ThreadInv' /\ StopInv'
  BY <1>27, ThreadWait
<1>28. ASSUME NEW t \in Threads, Delete(t) PROVE ThreadInv' /\ StopInv'
  BY <1>28, ThreadDelete
<1> QED
  BY <1>1, <1>2, <1>3, <1>4, <1>5, <1>6, <1>7, <1>8, <1>9, <1>10, <1>11, <1>12, <1>13, <1>14,
     <1>15, <1>16, <1>17, <1>18, <1>19, <1>20, <1>21, <1>22, <1>23, <1>24, <1>25, <1>26, <1>27,
     <1>28, Cases

-----------------------------------------------------------------------------
(* What waits for the main thread.                                         *)
LEMMA WaitingFinite ==
  ASSUME TypeOK
  PROVE  IsFiniteSet(Waiting) /\ Cardinality(Waiting) \in Nat
<1>1. Waiting \subseteq 1 .. Len(inbox) /\ Len(inbox) \in Nat
  BY DEF TypeOK, Waiting
<1>2. IsFiniteSet(1 .. Len(inbox))
  BY <1>1, FS_Interval
<1>3. IsFiniteSet(Waiting)
  BY <1>1, <1>2, FS_Subset
<1> QED
  BY <1>3, FS_CardinalityType

(* Starts may come back when the process has died, as many at most.        *)
LEMMA GoneInbox ==
  ASSUME TypeOK, NEW how, Gone(how)
  PROVE  /\ inbox' \in Seq({"start", "stop"})
         /\ Waiting' # {} => Waiting # {}
         /\ (\E i, j \in Waiting' : i # j) => \E i, j \in Waiting : i # j
<1>1. PICK n \in 0 .. Cardinality(Waiting) : inbox' = [i \in 1 .. n |-> "start"]
  BY DEF Gone
<1>2. n \in Nat /\ n <= Cardinality(Waiting)
  BY <1>1, WaitingFinite
<1>3. inbox' \in Seq({"start", "stop"}) /\ DOMAIN inbox' = 1 .. n
  BY <1>1, <1>2
<1>4. Waiting' \subseteq 1 .. n
  BY <1>3 DEF Waiting
<1>5. ASSUME Waiting = {} PROVE Waiting' = {}
  <2>1. Cardinality(Waiting) = 0
    BY <1>5, FS_EmptySet
  <2>2. n = 0
    BY <1>2, <2>1
  <2> QED
    BY <1>4, <2>2
<1>6. ASSUME \A i, j \in Waiting : i = j, NEW i \in Waiting', NEW j \in Waiting', i # j
      PROVE  FALSE
  <2>1. PICK a : a \in Waiting
    BY <1>5, <1>6
  <2>2. Waiting = {a}
    BY <1>6, <2>1
  <2>3. Cardinality(Waiting) = 1
    BY <2>2, FS_Singleton
  <2>4. n <= 1
    BY <1>2, <2>3
  <2> QED
    BY <1>2, <1>4, <1>6, <2>4
<1> QED
  BY <1>3, <1>5, <1>6

(* A message more.                                                         *)
LEMMA AppendInbox ==
  ASSUME TypeOK, NEW m \in {"start", "stop"}, inbox' = Append(inbox, m)
  PROVE  /\ inbox' \in Seq({"start", "stop"}) /\ inbox' # << >>
         /\ inbox # << >> => inbox'[1] = inbox[1]
         /\ \E new : Waiting' = IF m = "start" THEN Waiting \cup {new} ELSE Waiting
<1>1. inbox \in Seq({"start", "stop"}) /\ Len(inbox) \in Nat
  BY DEF TypeOK
<1>2. /\ inbox' \in Seq({"start", "stop"}) /\ Len(inbox') = Len(inbox) + 1
      /\ DOMAIN inbox = 1 .. Len(inbox) /\ DOMAIN inbox' = 1 .. Len(inbox) + 1
      /\ inbox'[Len(inbox) + 1] = m
      /\ \A i \in 1 .. Len(inbox) : inbox'[i] = inbox[i]
  BY <1>1
<1>3. \A i \in DOMAIN inbox' : i \in DOMAIN inbox \/ i = Len(inbox) + 1
  BY <1>1, <1>2
<1>4. DOMAIN inbox \subseteq DOMAIN inbox' /\ Len(inbox) + 1 \in DOMAIN inbox'
  BY <1>1, <1>2
<1>5. Waiting' = IF m = "start" THEN Waiting \cup {Len(inbox) + 1} ELSE Waiting
  <2>1. ASSUME NEW i \in Waiting' PROVE i \in Waiting \/ (m = "start" /\ i = Len(inbox) + 1)
    BY <1>2, <1>3, <2>1 DEF Waiting
  <2>2. Waiting \subseteq Waiting'
    BY <1>2, <1>4 DEF Waiting
  <2>3. m = "start" => Len(inbox) + 1 \in Waiting'
    BY <1>2, <1>4 DEF Waiting
  <2> QED
    BY <2>1, <2>2, <2>3
<1>6. inbox' # << >> /\ (inbox # << >> => inbox'[1] = inbox[1])
  BY <1>1, <1>2
<1> QED
  BY <1>2, <1>5, <1>6

(* A message less.                                                         *)
LEMMA TailInbox ==
  ASSUME TypeOK, inbox # << >>, inbox' = Tail(inbox)
  PROVE  /\ inbox' \in Seq({"start", "stop"})
         /\ \A i \in Waiting' : i + 1 \in Waiting /\ i + 1 # 1
         /\ inbox[1] = "start" => 1 \in Waiting
<1>1. inbox \in Seq({"start", "stop"}) /\ Len(inbox) \in Nat /\ Len(inbox) >= 1
  BY DEF TypeOK
<1>2. /\ inbox' \in Seq({"start", "stop"})
      /\ DOMAIN inbox = 1 .. Len(inbox) /\ DOMAIN inbox' = 1 .. Len(inbox) - 1
      /\ \A i \in DOMAIN inbox' : inbox'[i] = inbox[i + 1]
  BY <1>1
<1>3. ASSUME NEW i \in Waiting' PROVE i + 1 \in Waiting /\ i + 1 # 1
  <2>1. i \in DOMAIN inbox' /\ inbox'[i] = "start"
    BY <1>3 DEF Waiting
  <2>2. i + 1 \in DOMAIN inbox /\ i + 1 # 1 /\ inbox[i + 1] = "start"
    BY <1>1, <1>2, <2>1
  <2> QED
    BY <2>2 DEF Waiting
<1>4. inbox[1] = "start" => 1 \in Waiting
  BY <1>1, <1>2 DEF Waiting
<1> QED
  BY <1>2, <1>3, <1>4

-----------------------------------------------------------------------------
(* Requests to start.                                                      *)

(* The main thread does not come nearer to a start.                        *)
MainKept ==
  /\ Final(main', "return") => Final(main, "return")
  /\ Final(main, "return") /\ ~ In(main, "trojan") =>
       Final(main', "return") /\ ~ In(main', "trojan")

(* Steps that make, handle and end no request keep StartInv.               *)
LEMMA StartQuiet ==
  ASSUME StartInv, MainKept, UNCHANGED <<inbox, starts>>, requested' => requested,
         trojan' # "none" => trojan # "none"
  PROVE  StartInv'
<1>1. Waiting' = Waiting
  BY DEF Waiting
<1> QED
  BY <1>1 DEF StartInv, MainKept

LEMMA SameKept ==
  ASSUME UNCHANGED main
  PROVE  MainKept
BY DEF MainKept

LEMMA PopKept ==
  ASSUME TypeOK, ListInv, NEW t \in Threads, NEW x, At(t, x), Done(t), x # "return"
  PROVE  MainKept
<1>1. CASE t = "main"
  BY <1>1, PopMoves DEF MainKept, main
<1>2. CASE t # "main"
  BY <1>2, PopMoves, SameKept, ThreadNames DEF main
<1> QED
  BY <1>1, <1>2

LEMMA ThrowKept ==
  ASSUME TypeOK, ListInv, NEW t \in Threads, t = "binder" \/ At(t, "refusal"),
         todo' = [todo EXCEPT ![t] = << >>]
  PROVE  /\ t # "main" /\ main' = main /\ todo'[t] = << >>
         /\ \A u \in Threads : u # t => todo'[u] = todo[u]
<1>1. PICK q : q = << >>
  OBVIOUS
<1>2. q \in Seq(StepNames)
  BY <1>1
<1>3. todo'[t] = q /\ \A u \in Threads : u # t => todo'[u] = todo[u]
  BY <1>1, <1>2, Update
<1>4. t # "main"
  BY Who DEF ListInv, main
<1> QED
  BY <1>1, <1>3, <1>4, ThreadNames DEF main

(* The end of the process keeps StartInv.                                  *)
LEMMA StartGone ==
  ASSUME TypeOK, StartInv, NEW how, Gone(how)
  PROVE  StartInv'
<1>1. /\ Waiting' # {} => Waiting # {}
      /\ (\E i, j \in Waiting' : i # j) => \E i, j \in Waiting : i # j
  BY GoneInbox
<1>2. trojan' = "none" /\ UNCHANGED <<requested, starts>> /\ \A x : ~ Final(main', x)
  BY FreshLists, EmptyList, ThreadNames DEF Gone, Fresh, main
<1> QED
  BY <1>1, <1>2 DEF StartInv

(* A start makes trojan once, after it has chosen the ports.               *)
LEMMA TailOnce ==
  ASSUME NEW s \in Seq(StepNames), Program(s), First(s, "trojan")
  PROVE  ~ In(Tail(s), "trojan") /\ ~ In(Tail(s), "ports")
<1>1. PICK q : q = Tail(s)
  OBVIOUS
<1>2. s # << >> /\ s[1] = "trojan"
  BY DEF First
<1>3. /\ DOMAIN s = 1 .. Len(s) /\ Len(s) \in Nat /\ Len(s) >= 1 /\ DOMAIN q = 1 .. Len(s) - 1
      /\ \A i \in DOMAIN q : q[i] = s[i + 1]
  BY <1>1, <1>2, TailFacts
<1>4. ASSUME NEW i \in DOMAIN q PROVE q[i] \notin {"trojan", "ports"}
  <2>1. 1 \in DOMAIN s /\ i + 1 \in DOMAIN s /\ 1 < i + 1 /\ q[i] = s[i + 1]
    BY <1>3
  <2> QED
    BY <1>2, <2>1 DEF Program, Ordered
<1> QED
  BY <1>1, <1>4 DEF In

(* Nothing follows return.                                                 *)
LEMMA ReturnLast ==
  ASSUME NEW s \in Seq(StepNames), Program(s), First(s, "return")
  PROVE  Final(s, "return") /\ Tail(s) = << >>
<1>1. s # << >> /\ s[1] = "return"
  BY DEF First
<1>2. DOMAIN s = 1 .. Len(s) /\ Len(s) \in Nat /\ Len(s) >= 1
  BY <1>1
<1>3. Len(s) = 1
  <2>1. SUFFICES ASSUME Len(s) # 1 PROVE FALSE
    OBVIOUS
  <2>2. 1 \in DOMAIN s /\ 2 \in DOMAIN s /\ 1 < 2
    BY <1>2, <2>1
  <2> QED
    BY <1>1, <2>2 DEF Program, Ordered
<1>4. Len(Tail(s)) = 0 /\ Tail(s) \in Seq(StepNames)
  BY <1>1, <1>3, TailFacts
<1>5. \A q \in Seq(StepNames) : Len(q) = 0 => q = << >>
  OBVIOUS
<1>6. Tail(s) = << >>
  BY <1>4, <1>5
<1> QED
  BY <1>1, <1>3, <1>6 DEF Final

(* Every step keeps StartInv.                                              *)
LEMMA StartStep ==
  ASSUME TypeOK, ListInv, ThreadInv, StartInv, Next
  PROVE  StartInv'
<1> USE ThreadNames
<1>1. CASE StartRequest
  <2>1. /\ starts' = starts + 1 /\ requested' = TRUE /\ inbox' = Append(inbox, "start")
        /\ UNCHANGED <<todo, trojan>>
    BY <1>1 DEF StartRequest, java, native
  <2>2. /\ inbox' # << >> /\ (inbox # << >> => inbox'[1] = inbox[1])
        /\ \E new : Waiting' = Waiting \cup {new}
    BY <2>1, AppendInbox
  <2>3. starts \in Nat
    BY DEF TypeOK
  <2>4. PICK new : Waiting' = Waiting \cup {new}
    BY <2>2
  <2>5. Final(main', "return") => inbox' # << >> /\ inbox'[1] = "start"
    BY <2>1, <2>2 DEF StartInv, main
  <2>6. starts > 0 => starts' > 1
    BY <2>1, <2>3
  <2>7. ASSUME NEW i \in Waiting', NEW j \in Waiting', i # j PROVE starts' > 1
    <3>1. Waiting # {}
      BY <2>4, <2>7
    <3> QED
      BY <2>6, <3>1 DEF StartInv
  <2>8. starts' > 0
    BY <2>1, <2>3
  <2>9. trojan' # "none" => starts' > 1
    BY <2>1, <2>6 DEF StartInv
  <2> QED
    BY <2>5, <2>7, <2>8, <2>9 DEF StartInv
<1>2. CASE StopRequest
  <2>1. /\ inbox' = Append(inbox, "stop") \/ inbox' = inbox
        /\ UNCHANGED <<todo, trojan, starts, requested>>
    BY <1>2 DEF StopRequest, java, native
  <2>2. CASE inbox' = inbox
    BY <2>1, <2>2, StartQuiet, SameKept DEF main
  <2>3. CASE inbox' = Append(inbox, "stop")
    <3>1. /\ inbox' # << >> /\ (inbox # << >> => inbox'[1] = inbox[1]) /\ Waiting' = Waiting
      BY <2>3, AppendInbox
    <3> QED
      BY <2>1, <3>1 DEF StartInv, main
  <2> QED
    BY <2>1, <2>2, <2>3
<1>3. CASE Create
  <2>1. /\ trojan' = "none" /\ UNCHANGED <<requested, starts>> /\ \A x : ~ Final(main', x)
        /\ inbox' = IF requested /\ inbox = << >> THEN <<"start">> ELSE inbox
    BY <1>3, FreshLists, EmptyList DEF Create, Fresh, main
  <2>2. CASE requested /\ inbox = << >>
    <3>1. DOMAIN inbox' = {1}
      BY <2>1, <2>2
    <3>2. Waiting' \subseteq {1}
      BY <3>1 DEF Waiting
    <3> QED
      BY <2>1, <2>2, <3>2 DEF StartInv
  <2>3. CASE ~ (requested /\ inbox = << >>)
    <3>1. Waiting' = Waiting
      BY <2>1, <2>3 DEF Waiting
    <3> QED
      BY <2>1, <3>1 DEF StartInv
  <2> QED
    BY <2>2, <2>3
<1>4. CASE Unbind
  BY <1>4, StartQuiet, SameKept DEF Unbind, java, native, main
<1>5. CASE OnRevoke
  <2>1. main' = main
    BY <1>5, StopFacts, Update DEF OnRevoke, main
  <2> QED
    BY <1>5, <2>1, StartQuiet, SameKept DEF OnRevoke, android, native
<1>6. CASE Test
  <2>1. main' = main
    BY <1>6 DEF Test, main, TypeOK
  <2> QED
    BY <1>6, <2>1, StartQuiet, SameKept DEF Test, world, android, native
<1>7. CASE Handle
  <2>1. /\ main = << >> /\ UNCHANGED <<inbox, starts, requested, trojan>>
        /\ \/ inbox # << >> /\ inbox[1] = "start"
           \/ ~ Final(main', "return")
    BY <1>7, HandleMoves DEF world, android, native
  <2>2. ~ Final(main, "return")
    BY <2>1, EmptyList
  <2>3. Waiting' = Waiting
    BY <2>1 DEF Waiting
  <2> QED
    BY <2>1, <2>2, <2>3 DEF StartInv
<1>8. CASE Rules
  <2>1. MainKept
    BY <1>8, RulesMoves DEF MainKept
  <2> QED
    BY <1>8, <2>1, StartQuiet DEF Rules, world, android, native
<1>9. CASE Establish
  <2>1. MainKept
    BY <1>9, EstablishMoves, PopKept DEF MainKept
  <2> QED
    BY <1>9, <2>1, StartQuiet DEF Establish, world, android, native
<1>p. ASSUME NEW t \in Threads, NEW x, At(t, x), Done(t), x # "return",
             UNCHANGED <<inbox, starts, trojan>>, requested' => requested
      PROVE  StartInv'
  BY <1>p, PopKept, StartQuiet
<1>10. CASE ChoosePorts
  <2>1. At("main", "ports") /\ Done("main") /\ UNCHANGED <<inbox, starts, trojan, requested>>
    BY <1>10 DEF ChoosePorts, world, android, native
  <2> QED
    BY <2>1, <1>p
<1>11. CASE JniTrojan
  <2>1. /\ At("main", "trojan") /\ Done("main") /\ UNCHANGED <<inbox, starts, requested>>
        /\ trojanThread => UNCHANGED trojan
        /\ trojan' \in {trojan, "loading"}
    BY <1>11 DEF JniTrojan, world, android, native
  <2>2. /\ main \in Seq(StepNames) /\ Program(main) /\ First(main, "trojan")
        /\ Final(main, "return") /\ In(main, "trojan")
    BY <2>1, Who DEF main, Opening
  <2>3. Final(main', "return")
    BY <2>1, <2>2, PopMoves DEF main
  <2>4. ~ In(main', "trojan")
    <3>1. revoked' = revoked /\ todo["main"] # << >>
      BY <1>11, <2>1 DEF At, JniTrojan, world, history
    <3>2. main' = Tail(main)
      BY <2>1, <3>1, PopLists DEF main
    <3> QED
      BY <2>2, <3>2, TailOnce
  <2>5. Waiting' = Waiting
    BY <2>1 DEF Waiting
  <2>6. inbox # << >> /\ inbox[1] = "start" /\ 1 \in Waiting
    <3>1. inbox # << >> /\ inbox[1] = "start"
      BY <2>2 DEF StartInv
    <3>2. 1 \in DOMAIN inbox
      BY <3>1 DEF TypeOK
    <3> QED
      BY <3>1, <3>2 DEF Waiting
  <2> QED
    BY <2>1, <2>3, <2>4, <2>5, <2>6 DEF StartInv
<1>12. CASE Front
  <2>1. At("main", "front") /\ Done("main") /\ UNCHANGED <<inbox, starts, trojan, requested>>
    BY <1>12 DEF Front, world, android, native
  <2> QED
    BY <2>1, <1>p
<1>13. CASE Return
  <2>1. /\ At("main", "return") /\ Done("main") /\ inbox' = Tail(inbox)
        /\ UNCHANGED <<starts, trojan, requested>>
    BY <1>13 DEF Return, native
  <2>2. Program(main) /\ First(main, "return") /\ main \in Seq(StepNames)
    BY <2>1, Who DEF main
  <2>3. Final(main, "return") /\ main' = << >>
    <3>1. revoked' = revoked /\ todo["main"] # << >>
      BY <1>13, <2>1 DEF At, Return, history
    <3>2. main' = Tail(main)
      BY <2>1, <3>1, PopLists DEF main
    <3> QED
      BY <2>2, <3>2, ReturnLast
  <2>4. inbox # << >> /\ inbox[1] = "start"
    BY <2>3 DEF StartInv
  <2>5. /\ \A i \in Waiting' : i + 1 \in Waiting /\ i + 1 # 1
        /\ 1 \in Waiting
    BY <2>1, <2>4, TailInbox
  <2>6. Waiting' # {} => starts' > 1
    BY <2>1, <2>5 DEF StartInv
  <2>7. starts \in Nat
    BY DEF TypeOK
  <2>8. ~ Final(main', "return")
    BY <2>3, EmptyList
  <2> QED
    BY <2>1, <2>5, <2>6, <2>7, <2>8 DEF StartInv
<1>14. CASE Load
  <2>1. UNCHANGED <<todo, inbox, starts, requested>> /\ trojan # "none"
    BY <1>14 DEF Load, java, world, android
  <2> QED
    BY <2>1, StartQuiet, SameKept DEF main
<1>15. CASE MakeService
  <2>1. CASE Gone("crashed")
    BY <2>1, StartGone
  <2>2. CASE ~ Gone("crashed")
    <3>1. UNCHANGED <<todo, inbox, starts, requested>> /\ trojan # "none"
      BY <1>15, <2>2 DEF MakeService, java, world, android
    <3> QED
      BY <3>1, StartQuiet, SameKept DEF main
  <2> QED
    BY <2>1, <2>2
<1>16. CASE RunService
  <2>1. UNCHANGED <<todo, inbox, starts, requested>> /\ trojan # "none"
    BY <1>16 DEF RunService, ServiceRun, java, world, android
  <2> QED
    BY <2>1, StartQuiet, SameKept DEF main
<1>17. CASE Exit
  <2>1. UNCHANGED <<todo, inbox, starts, requested>> /\ trojan # "none"
    BY <1>17 DEF Exit, java, world, android
  <2> QED
    BY <2>1, StartQuiet, SameKept DEF main
<1>18. ASSUME NEW t \in Threads, Assign(t) PROVE StartInv'
  <2>1. PICK s \in States : At(t, s) /\ Done(t)
    BY <1>18 DEF Assign
  <2>2. UNCHANGED <<inbox, starts, trojan, requested>>
    BY <1>18 DEF Assign, world, android, native
  <2>3. s # "return"
    BY DEF States
  <2> QED
    BY <2>1, <2>2, <2>3, <1>p
<1>19. ASSUME NEW t \in Threads, BeginBroadcast(t) PROVE StartInv'
  <2>1. PICK x \in {"begin", "result", "refusal"} :
          At(t, x) /\ (Throw(t) \/ (Done(t) /\ UNCHANGED <<inbox, starts, trojan, requested>>))
    BY <1>19 DEF BeginBroadcast, world, android, native
  <2>2. CASE Gone("crashed")
    BY <2>2, StartGone
  <2>3. CASE /\ t = "binder" \/ At(t, "refusal")
             /\ todo' = [todo EXCEPT ![t] = << >>]
             /\ UNCHANGED <<world, service, talk, ports, native>>
    BY <2>3, ThrowKept, SameKept, StartQuiet DEF world, android, native
  <2>4. CASE Done(t) /\ UNCHANGED <<inbox, starts, trojan, requested>>
    BY <2>1, <2>4, <1>p
  <2> QED
    BY <2>1, <2>2, <2>3, <2>4, ThrowCases
<1>20. ASSUME NEW t \in Threads, FinishBroadcast(t) PROVE StartInv'
  <2>1. At(t, "finish") /\ Done(t) /\ UNCHANGED <<inbox, starts, trojan, requested>>
    BY <1>20 DEF FinishBroadcast, android, native
  <2> QED
    BY <2>1, <1>p
<1>21. ASSUME NEW t \in Threads, Close(t) PROVE StartInv'
  <2>1. At(t, "close") /\ Done(t) /\ UNCHANGED <<inbox, starts, trojan, requested>>
    BY <1>21 DEF Close, world, android, native
  <2> QED
    BY <2>1, <1>p
<1>22. ASSUME NEW t \in Threads, StopSelf(t) PROVE StartInv'
  <2>1. At(t, "stopSelf") /\ Done(t) /\ UNCHANGED <<inbox, starts, trojan>> /\ ~ requested'
    BY <1>22 DEF StopSelf, NotStarted, android, native
  <2> QED
    BY <2>1, <1>p
<1>23. ASSUME NEW t \in Threads, Kill(t) PROVE StartInv'
  BY <1>23, StartGone DEF Kill
<1>24. ASSUME NEW t \in Threads, JniStop(t) PROVE StartInv'
  <2>1. UNCHANGED <<inbox, starts, trojan, requested>>
    BY <1>24 DEF JniStop, world, android, native
  <2>2. MainKept
    <3>1. CASE t = "main"
      BY <1>24, <3>1, JniStopMoves, OneFinal DEF MainKept, main
    <3>2. CASE t # "main"
      BY <1>24, <3>2, JniStopMoves, SameKept DEF main
    <3> QED
      BY <3>1, <3>2
  <2> QED
    BY <2>1, <2>2, StartQuiet
<1>25. ASSUME NEW t \in Threads, ServiceStop(t) PROVE StartInv'
  <2>1. CASE Gone("crashed")
    BY <2>1, StartGone
  <2>2. CASE ~ Gone("crashed")
    <3>1. At(t, "serviceStop") /\ Done(t) /\ UNCHANGED <<inbox, starts, trojan, requested>>
      BY <1>25, <2>2 DEF ServiceStop, world, android
    <3> QED
      BY <3>1, <1>p
  <2> QED
    BY <2>1, <2>2
<1>26. ASSUME NEW t \in Threads, Join(t) PROVE StartInv'
  <2>1. CASE joined
    BY <1>26, <2>1, StartGone DEF Join
  <2>2. CASE ~ joined
    <3>1. UNCHANGED <<inbox, starts, trojan, requested>>
      BY <1>26, <2>2 DEF Join, world, android
    <3>2. MainKept
      <4>1. CASE t = "main"
        BY <1>26, <2>2, <4>1, JoinMoves, OneFinal DEF MainKept, main
      <4>2. CASE t # "main"
        BY <1>26, <2>2, <4>2, JoinMoves, SameKept DEF main
      <4> QED
        BY <4>1, <4>2
    <3> QED
      BY <3>1, <3>2, StartQuiet
  <2> QED
    BY <2>1, <2>2
<1>27. ASSUME NEW t \in Threads, Wait(t) PROVE StartInv'
  <2>1. At(t, "wait") /\ Done(t) /\ UNCHANGED <<inbox, starts, trojan, requested>>
    BY <1>27 DEF Wait, world, android, native
  <2> QED
    BY <2>1, <1>p
<1>28. ASSUME NEW t \in Threads, Delete(t) PROVE StartInv'
  <2>1. At(t, "delete") /\ Done(t) /\ UNCHANGED <<inbox, starts, trojan, requested>>
    BY <1>28 DEF Delete, world, android
  <2> QED
    BY <2>1, <1>p
<1> QED
  BY <1>1, <1>2, <1>3, <1>4, <1>5, <1>6, <1>7, <1>8, <1>9, <1>10, <1>11, <1>12, <1>13, <1>14,
     <1>15, <1>16, <1>17, <1>18, <1>19, <1>20, <1>21, <1>22, <1>23, <1>24, <1>25, <1>26, <1>27,
     <1>28, Cases

-----------------------------------------------------------------------------
(* Types.                                                                  *)
WorldType ==
  /\ requested \in BOOLEAN /\ bound \in BOOLEAN /\ proc \in BOOLEAN
  /\ inbox \in Seq({"start", "stop"})
  /\ starts \in 0 .. MaxStarts /\ stops \in 0 .. MaxStops
  /\ died \in {"no", "killed", "crashed"} /\ stop_ended \in {"no", "cut", "finished"}
  /\ revoked \in BOOLEAN /\ heard \in States

ServiceType == state \in States /\ pfd \in {"null", "open", "closed"}
               /\ tun2socksPort \in Nat \cup {NoPort}
TalkType    == broadcasting \in BOOLEAN /\ telling \in [Threads -> States]
PortsType   == {trojan_port, clash_port, upstream, config_port} \subseteq Nat \cup {NoPort}
               /\ kept \in BOOLEAN
NativeType  ==
  /\ listen_port \in Nat \cup {NoPort}
  /\ trojanThread \in BOOLEAN /\ joined \in BOOLEAN /\ io_stopped \in BOOLEAN
  /\ trojanService \in {"null", "live", "freed"}
  /\ trojan \in {"none", "loading", "binding", "made", "running", "exited"}

(* The type invariant, in parts.                                           *)
LEMMA TypeParts ==
  TypeOK <=> /\ WorldType /\ ServiceType /\ TalkType /\ PortsType /\ NativeType /\ TodoType
             /\ trojan \in {"made", "running"} => trojanService = "live"
BY DEF TypeOK, WorldType, ServiceType, TalkType, PortsType, NativeType, TodoType

(* A part whose variables stay keeps its type.                             *)
LEMMA TypesKept ==
  /\ WorldType /\ UNCHANGED world => WorldType'
  /\ ServiceType /\ UNCHANGED service => ServiceType'
  /\ TalkType /\ UNCHANGED talk => TalkType'
  /\ PortsType /\ UNCHANGED ports => PortsType'
  /\ NativeType /\ UNCHANGED native => NativeType'
  /\ UNCHANGED java => UNCHANGED service /\ UNCHANGED talk
BY DEF WorldType, ServiceType, TalkType, PortsType, NativeType, world, android, history,
       java, service, talk, ports, native

LEMMA FreshTypes ==
  ASSUME TypeOK, Fresh, UNCHANGED config_port
  PROVE  ServiceType' /\ TalkType' /\ PortsType' /\ NativeType' /\ revoked' = FALSE
BY DEF TypeOK, Fresh, ServiceType, TalkType, PortsType, NativeType, States

LEMMA GoneTypes ==
  ASSUME TypeOK, NEW how \in {"killed", "crashed"}, Gone(how)
  PROVE  WorldType' /\ ServiceType' /\ TalkType' /\ PortsType' /\ NativeType'
<1>1. Fresh /\ UNCHANGED config_port /\ inbox' \in Seq({"start", "stop"})
  BY GoneInbox DEF Gone
<1>2. ServiceType' /\ TalkType' /\ PortsType' /\ NativeType' /\ revoked' = FALSE
  BY <1>1, FreshTypes
<1>3. /\ proc' = FALSE /\ died' = how /\ stop_ended' \in {"cut", "finished", stop_ended}
      /\ UNCHANGED <<requested, bound, starts, stops, heard>>
  BY DEF Gone
<1> QED
  BY <1>1, <1>2, <1>3 DEF TypeOK, WorldType

(* Every port that a setting allows is one.                                *)
LEMMA PortTypes ==
  ASSUME TypeOK, NEW s \in Settings, NEW p \in TrojanPorts(s), NEW c \in ClashPorts(s, p)
  PROVE  p \in Nat \cup {NoPort} /\ c \in Nat \cup {NoPort}
<1>1. Ports \subseteq Nat /\ s.fixed \in Nat \cup {NoPort} /\ s.clash \in BOOLEAN /\ s.lan \in BOOLEAN
  BY SettingsAssumption
<1>2. FreePorts \subseteq Nat /\ \A n : FreeExcept(n) \subseteq Nat
  BY <1>1 DEF FreePorts, FreeExcept
<1>3. FallbackTrojan \in Nat /\ FallbackClash \in Nat
  BY DEF FallbackTrojan, FallbackClash
<1>4. TrojanPorts(s) \subseteq Nat \cup {NoPort}
  BY <1>1, <1>2, <1>3 DEF TrojanPorts
<1>5. \A n : Leftover(FallbackClash, n) \subseteq Nat
  BY <1>2, <1>3 DEF Leftover
<1>6. ClashPorts(s, p) \subseteq Nat \cup {NoPort}
  BY <1>1, <1>2, <1>5 DEF ClashPorts
<1> QED
  BY <1>4, <1>6

(* Every step keeps the types.                                             *)
LEMMA TypeStep ==
  ASSUME TypeOK, ListInv, StartInv, Next, TodoType', ThreadInv'
  PROVE  TypeOK'
<1> USE ThreadNames
<1> DEFINE Types == WorldType /\ ServiceType /\ TalkType /\ PortsType /\ NativeType
<1>0. WorldType /\ ServiceType /\ TalkType /\ PortsType /\ NativeType
  BY TypeParts
<1>s. SUFFICES WorldType' /\ ServiceType' /\ TalkType' /\ PortsType' /\ NativeType'
  BY TypeParts DEF ThreadInv, TypeOK, WorldType, ServiceType, TalkType, PortsType, NativeType,
                   TodoType
<1>1. CASE StartRequest
  <2>1. /\ starts < MaxStarts /\ starts' = starts + 1
        /\ requested' = TRUE /\ inbox' = Append(inbox, "start") /\ stop_ended' = "no"
        /\ UNCHANGED <<bound, stops, died, revoked, heard, proc>>
    BY <1>1 DEF StartRequest
  <2>2. starts' \in 0 .. MaxStarts
    BY <2>1, SettingsAssumption DEF TypeOK
  <2>3. inbox' \in Seq({"start", "stop"})
    BY <2>1, AppendInbox
  <2>4. WorldType'
    BY <1>0, <2>1, <2>2, <2>3 DEF WorldType
  <2> QED
    BY <1>0, <1>1, <2>4, TypesKept DEF StartRequest
<1>2. CASE StopRequest
  <2>1. /\ stops < MaxStops /\ stops' = stops + 1
        /\ inbox' = Append(inbox, "stop") \/ inbox' = inbox
        /\ UNCHANGED <<requested, bound, starts, history, proc>>
    BY <1>2 DEF StopRequest
  <2>2. stops' \in 0 .. MaxStops
    BY <2>1, SettingsAssumption DEF TypeOK
  <2>3. inbox' \in Seq({"start", "stop"})
    BY <2>1, AppendInbox DEF TypeOK
  <2>4. WorldType'
    BY <1>0, <2>1, <2>2, <2>3 DEF WorldType, history
  <2> QED
    BY <1>0, <1>2, <2>4, TypesKept DEF StopRequest
<1>3. CASE Create
  <2>1. ServiceType' /\ TalkType' /\ PortsType' /\ NativeType' /\ revoked' = FALSE
    BY <1>3, FreshTypes DEF Create
  <2>2. /\ proc' = TRUE /\ inbox' \in {<<"start">>, inbox}
        /\ UNCHANGED <<requested, bound, starts, stops, died, stop_ended, heard>>
    BY <1>3 DEF Create
  <2>3. <<"start">> \in Seq({"start", "stop"})
    OBVIOUS
  <2>4. inbox' \in Seq({"start", "stop"})
    BY <1>0, <2>2, <2>3 DEF WorldType
  <2> QED
    BY <1>0, <2>1, <2>2, <2>4 DEF WorldType
<1>4. CASE Unbind
  <2>1. WorldType'
    BY <1>0, <1>4 DEF Unbind, WorldType, history
  <2> QED
    BY <1>0, <1>4, <2>1, TypesKept DEF Unbind
<1>5. CASE OnRevoke
  <2>1. WorldType'
    BY <1>0, <1>5 DEF OnRevoke, WorldType, android
  <2> QED
    BY <1>0, <1>5, <2>1, TypesKept DEF OnRevoke
<1>6. CASE Test
  BY <1>0, <1>6, TypesKept DEF Test
<1>7. CASE Handle
  BY <1>0, <1>7, TypesKept DEF Handle
<1>8. CASE Rules
  BY <1>0, <1>8, TypesKept DEF Rules
<1>9. CASE Establish
  <2>1. ServiceType'
    BY <1>0, <1>9 DEF Establish, ServiceType
  <2> QED
    BY <1>0, <1>9, <2>1, TypesKept DEF Establish
<1>10. CASE ChoosePorts
  <2>1. PICK s \in Settings : \E p \in TrojanPorts(s) : \E c \in ClashPorts(s, p) :
          trojan_port' = p /\ clash_port' = c /\ config_port' = p
          /\ upstream' = upstream /\ kept' = kept
    BY <1>10 DEF ChoosePorts
  <2>2. \A p \in TrojanPorts(s) : \A c \in ClashPorts(s, p) :
          p \in Nat \cup {NoPort} /\ c \in Nat \cup {NoPort}
    BY PortTypes
  <2>3. PortsType'
    BY <1>0, <2>1, <2>2 DEF PortsType
  <2> QED
    BY <1>0, <1>10, <2>3, TypesKept DEF ChoosePorts
<1>11. CASE JniTrojan
  <2>1. NativeType'
    BY <1>0, <1>11 DEF JniTrojan, NativeType, native
  <2>2. PortsType'
    BY <1>0, <1>11 DEF JniTrojan, PortsType, NativeType
  <2> QED
    BY <1>0, <1>11, <2>1, <2>2, TypesKept DEF JniTrojan
<1>12. CASE Front
  <2>1. ServiceType' /\ PortsType'
    BY <1>0, <1>12 DEF Front, ServiceType, PortsType
  <2> QED
    BY <1>0, <1>12, <2>1, TypesKept DEF Front
<1>13. CASE Return
  <2>1. At("main", "return") /\ inbox' = Tail(inbox)
    BY <1>13 DEF Return
  <2>2. Program(main) /\ First(main, "return") /\ main \in Seq(StepNames)
    BY <2>1, Who DEF main
  <2>3. inbox # << >>
    BY <2>2, ReturnLast DEF StartInv
  <2>4. inbox' \in Seq({"start", "stop"})
    BY <2>1, <2>3, TailInbox
  <2>5. WorldType'
    BY <1>0, <1>13, <2>4 DEF Return, WorldType, history
  <2> QED
    BY <1>0, <1>13, <2>5, TypesKept DEF Return
<1>14. CASE Load
  <2>1. NativeType'
    BY <1>0, <1>14 DEF Load, NativeType, PortsType
  <2> QED
    BY <1>0, <1>14, <2>1, TypesKept DEF Load
<1>15. CASE MakeService
  <2>1. CASE Gone("crashed")
    BY <2>1, GoneTypes
  <2>2. CASE ~ Gone("crashed")
    <3>1. /\ trojan' = "made" /\ trojanService' = "live" /\ io_stopped' = FALSE
          /\ UNCHANGED <<world, java, ports, trojanThread, joined, listen_port>>
      BY <1>15, <2>2 DEF MakeService, Assigned
    <3>2. NativeType'
      BY <1>0, <3>1 DEF NativeType
    <3> QED
      BY <1>0, <3>1, <3>2, TypesKept
  <2> QED
    BY <2>1, <2>2
<1>16. CASE RunService
  <2>1. NativeType'
    BY <1>0, <1>16 DEF RunService, ServiceRun, NativeType
  <2> QED
    BY <1>0, <1>16, <2>1, TypesKept DEF RunService
<1>17. CASE Exit
  <2>1. NativeType'
    BY <1>0, <1>17 DEF Exit, NativeType
  <2> QED
    BY <1>0, <1>17, <2>1, TypesKept DEF Exit
<1>18. ASSUME NEW t \in Threads, Assign(t) PROVE Types'
  <2>1. ServiceType'
    BY <1>0, <1>18 DEF Assign, ServiceType
  <2> QED
    BY <1>0, <1>18, <2>1, TypesKept DEF Assign
<1>19. ASSUME NEW t \in Threads, BeginBroadcast(t) PROVE Types'
  <2>1. CASE Gone("crashed")
    BY <2>1, GoneTypes
  <2>2. CASE UNCHANGED <<world, service, talk, ports, native>>
    BY <1>0, <2>2, TypesKept
  <2>3. CASE ~ Throw(t)
    <3>1. /\ broadcasting' = TRUE
          /\ telling' = [telling EXCEPT ![t] = state] \/ telling' = [telling EXCEPT ![t] = "NONE"]
          /\ UNCHANGED <<world, service, ports, native>>
      BY <1>19, <2>3 DEF BeginBroadcast
    <3>2. TalkType'
      BY <1>0, <3>1 DEF TalkType, ServiceType, States
    <3> QED
      BY <1>0, <3>1, <3>2, TypesKept
  <2> QED
    BY <2>1, <2>2, <2>3, ThrowCases
<1>20. ASSUME NEW t \in Threads, FinishBroadcast(t) PROVE Types'
  <2>1. /\ broadcasting' = FALSE /\ heard' \in {heard, telling[t]}
        /\ UNCHANGED <<android, died, stop_ended, revoked, proc, service, telling, ports, native>>
    BY <1>20 DEF FinishBroadcast
  <2>2. WorldType' /\ TalkType'
    BY <1>0, <2>1 DEF WorldType, TalkType, android
  <2> QED
    BY <1>0, <2>1, <2>2, TypesKept
<1>21. ASSUME NEW t \in Threads, Close(t) PROVE Types'
  <2>1. ServiceType'
    BY <1>0, <1>21 DEF Close, ServiceType
  <2> QED
    BY <1>0, <1>21, <2>1, TypesKept DEF Close
<1>22. ASSUME NEW t \in Threads, StopSelf(t) PROVE Types'
  <2>1. WorldType'
    BY <1>0, <1>22 DEF StopSelf, NotStarted, WorldType, history
  <2> QED
    BY <1>0, <1>22, <2>1, TypesKept DEF StopSelf
<1>23. ASSUME NEW t \in Threads, Kill(t) PROVE Types'
  BY <1>23, GoneTypes DEF Kill
<1>24. ASSUME NEW t \in Threads, JniStop(t) PROVE Types'
  BY <1>0, <1>24, TypesKept DEF JniStop
<1>25. ASSUME NEW t \in Threads, ServiceStop(t) PROVE Types'
  <2>1. CASE Gone("crashed")
    BY <2>1, GoneTypes
  <2>2. CASE ~ Gone("crashed")
    <3>1. /\ io_stopped' = (trojanService = "live" \/ io_stopped)
          /\ UNCHANGED <<world, service, talk, ports, trojanThread, trojanService, joined, trojan,
                         listen_port>>
      BY <1>25, <2>2 DEF ServiceStop
    <3>2. NativeType'
      BY <1>0, <3>1 DEF NativeType
    <3> QED
      BY <1>0, <3>1, <3>2, TypesKept
  <2> QED
    BY <2>1, <2>2
<1>26. ASSUME NEW t \in Threads, Join(t) PROVE Types'
  <2>1. CASE joined
    BY <1>26, <2>1, GoneTypes DEF Join
  <2>2. CASE ~ joined
    <3>1. /\ joined' = TRUE
          /\ UNCHANGED <<world, service, talk, ports, trojanThread, trojanService, trojan,
                         listen_port, io_stopped>>
      BY <1>26, <2>2 DEF Join
    <3>2. NativeType'
      BY <1>0, <3>1 DEF NativeType
    <3> QED
      BY <1>0, <3>1, <3>2, TypesKept
  <2> QED
    BY <2>1, <2>2
<1>27. ASSUME NEW t \in Threads, Wait(t) PROVE Types'
  BY <1>0, <1>27, TypesKept DEF Wait
<1>28. ASSUME NEW t \in Threads, Delete(t) PROVE Types'
  <2>1. NativeType'
    BY <1>0, <1>28 DEF Delete, NativeType
  <2> QED
    BY <1>0, <1>28, <2>1, TypesKept DEF Delete
<1> QED
  BY <1>1, <1>2, <1>3, <1>4, <1>5, <1>6, <1>7, <1>8, <1>9, <1>10, <1>11, <1>12, <1>13, <1>14,
     <1>15, <1>16, <1>17, <1>18, <1>19, <1>20, <1>21, <1>22, <1>23, <1>24, <1>25, <1>26, <1>27,
     <1>28, Cases

-----------------------------------------------------------------------------
(* After a stop.                                                           *)
LEMMA Waits ==
  ASSUME TypeOK, inbox # << >>, inbox[1] = "start"
  PROVE  Waiting # {}
<1>1. 1 \in DOMAIN inbox
  BY DEF TypeOK
<1> QED
  BY <1>1 DEF Waiting

(* No thread comes nearer to a start, and stopSelf is not forgotten.       *)
OffKept ==
  /\ main' # << >> => main # << >>
  /\ main' # << >> /\ In(main, "stopSelf") => In(main', "stopSelf") \/ ~ requested'
  /\ \A t \in Threads : \A x \in {"STARTING", "STARTED"} : In(todo'[t], x) => In(todo[t], x)

(* Steps that keep the requests keep OffInv.                               *)
LEMMA OffQuiet ==
  ASSUME OffInv, OffKept, UNCHANGED <<inbox, stop_ended>>, requested' => requested,
         \/ state' = state
         \/ state' \notin {"STARTING", "STARTED"}
         \/ \E t \in Threads : In(todo[t], state')
  PROVE  OffInv'
<1>1. Waiting' = Waiting
  BY DEF Waiting
<1>2. main' # << >> /\ ~ In(main', "stopSelf") /\ Waiting' = {} => ~ requested'
  BY <1>1 DEF OffInv, OffKept
<1>3. ASSUME stop_ended' = "finished"
      PROVE  /\ ~ requested' /\ Waiting' = {} /\ state' \notin {"STARTING", "STARTED"}
             /\ \A t \in Threads : ~ In(todo'[t], "STARTING") /\ ~ In(todo'[t], "STARTED")
  BY <1>1, <1>3 DEF OffInv, OffKept
<1> QED
  BY <1>2, <1>3 DEF OffInv

LEMMA OffSame ==
  ASSUME UNCHANGED todo
  PROVE  OffKept
BY DEF OffKept, main

(* Every step that only goes on is such a step.                            *)
LEMMA OffPop ==
  ASSUME TypeOK, ListInv, NEW t \in Threads, NEW x, At(t, x), Done(t), x = "stopSelf" => ~ requested'
  PROVE  OffKept
<1>1. /\ \A u \in Threads : u # t => todo'[u] = todo[u]
      /\ \A y : In(todo'[t], y) => In(todo[t], y)
      /\ \A y : In(todo[t], y) => In(todo'[t], y) \/ y = x
      /\ todo[t] # << >>
  BY PopMoves DEF At
<1>2. \A u \in Threads : \A y : In(todo'[u], y) => In(todo[u], y)
  BY <1>1
<1>3. CASE t = "main"
  BY <1>1, <1>2, <1>3 DEF OffKept, main
<1>4. CASE t # "main"
  BY <1>1, <1>2, <1>4, ThreadNames DEF OffKept, main
<1> QED
  BY <1>3, <1>4

(* So is the end of the process: what came before stopSelf counts as cut.  *)
LEMMA OffGone ==
  ASSUME TypeOK, OffInv, NEW how, Gone(how)
  PROVE  OffInv'
<1>1. /\ state' = "NONE" /\ requested' = requested /\ main' = << >>
      /\ \A t \in Threads : \A x : ~ In(todo'[t], x)
  BY FreshLists, EmptyList, ThreadNames DEF Gone, Fresh, main
<1>2. Waiting' # {} => Waiting # {}
  BY GoneInbox
<1>3. stop_ended' = "finished" => ~ requested /\ Waiting = {}
  <2>1. CASE stop_ended' = stop_ended
    BY <2>1 DEF OffInv
  <2>2. CASE stop_ended' # stop_ended /\ stop_ended' = "finished"
    <3>1. main # << >> /\ Waiting = {} /\ "stopSelf" \notin {main[i] : i \in DOMAIN main}
      BY <2>2 DEF Gone, main
    <3>2. ~ In(main, "stopSelf")
      BY <3>1 DEF In
    <3> QED
      BY <3>1, <3>2 DEF OffInv
  <2> QED
    BY <2>1, <2>2
<1> QED
  BY <1>1, <1>2, <1>3 DEF OffInv

(* Every step keeps OffInv.                                                *)
LEMMA OffStep ==
  ASSUME TypeOK, ListInv, StartInv, OffInv, Next
  PROVE  OffInv'
<1> USE ThreadNames
<1>p. ASSUME NEW t \in Threads, NEW x, At(t, x), Done(t), UNCHANGED <<inbox, stop_ended, state>>,
             requested' => requested, x = "stopSelf" => ~ requested'
      PROVE  OffInv'
  BY <1>p, OffPop, OffQuiet
<1>q. ASSUME UNCHANGED <<todo, inbox, stop_ended, requested, state>>
      PROVE  OffInv'
  BY <1>q, OffSame, OffQuiet
<1>1. CASE StartRequest
  <2>1. inbox' = Append(inbox, "start") /\ stop_ended' = "no"
    BY <1>1 DEF StartRequest
  <2>2. PICK new : Waiting' = Waiting \cup {new}
    BY <2>1, AppendInbox
  <2>3. Waiting' # {}
    BY <2>2
  <2> QED
    BY <2>1, <2>3 DEF OffInv
<1>2. CASE StopRequest
  <2>1. /\ inbox' = Append(inbox, "stop") \/ inbox' = inbox
        /\ UNCHANGED <<todo, stop_ended, requested, state>>
    BY <1>2 DEF StopRequest, java, service, history
  <2>2. Waiting' = Waiting
    BY <2>1, AppendInbox DEF Waiting
  <2>3. main' = main
    BY <2>1 DEF main
  <2> QED
    BY <2>1, <2>2, <2>3 DEF OffInv
<1>3. CASE Create
  <2>1. /\ state' = "NONE" /\ UNCHANGED <<requested, stop_ended>> /\ main' = << >>
        /\ \A t \in Threads : \A x : ~ In(todo'[t], x)
    BY <1>3, FreshLists, EmptyList DEF Create, Fresh, main
  <2>2. ~ requested => Waiting' = Waiting
    BY <1>3 DEF Create, Waiting
  <2> QED
    BY <2>1, <2>2 DEF OffInv
<1>4. CASE Unbind
  BY <1>4, <1>q DEF Unbind, java, service, history
<1>5. CASE OnRevoke
  <2>1. /\ main' = main /\ todo'["test"] = todo["test"] /\ todo'["binder"] = Stop
        /\ UNCHANGED <<inbox, stop_ended, requested, state>>
    BY <1>5, StopFacts, Update DEF OnRevoke, main, android, service
  <2>2. OffKept
    BY <2>1, StopProgram DEF OffKept, main
  <2> QED
    BY <2>1, <2>2, OffQuiet
<1>6. CASE Test
  <2>1. UNCHANGED <<inbox, stop_ended, requested, state>>
    BY <1>6 DEF Test, world, android, history, service
  <2>2. PICK x \in {"result", "refusal"} : todo' = [todo EXCEPT !["test"] = <<x, "finish">>]
    BY <1>6 DEF Test
  <2>3. PICK q : q = <<x, "finish">>
    OBVIOUS
  <2>4. q \in Seq(StepNames) /\ Len(q) = 2 /\ q[1] = x /\ q[2] = "finish"
    BY <2>3, NamesFacts, Pair
  <2>5. \A y \in {"STARTING", "STARTED"} : ~ In(q, y)
    BY <2>4 DEF In
  <2>6. todo'["test"] = q /\ \A u \in Threads : u # "test" => todo'[u] = todo[u]
    BY <2>2, <2>3, <2>4, Update
  <2>7. OffKept
    BY <2>5, <2>6 DEF OffKept, main
  <2> QED
    BY <2>1, <2>7, OffQuiet
<1>7. CASE Handle
  <2>1. /\ binder' = binder /\ todo'["test"] = todo["test"]
        /\ UNCHANGED <<inbox, stop_ended, requested, state>>
    BY <1>7, HandleMoves DEF world, android, history, service
  <2>2. Waiting' = Waiting
    BY <2>1 DEF Waiting
  <2>3. CASE inbox # << >> /\ inbox[1] = "start"
    BY <2>1, <2>2, <2>3, Waits DEF OffInv
  <2>4. CASE ~ (inbox # << >> /\ inbox[1] = "start")
    <3>1. In(main', "stopSelf") /\ ~ In(main', "STARTING") /\ ~ In(main', "STARTED")
      BY <1>7, <2>4, HandleMoves
    <3>2. \A t \in Threads : \A x \in {"STARTING", "STARTED"} : In(todo'[t], x) => In(todo[t], x)
      BY <2>1, <3>1 DEF main, binder
    <3> QED
      BY <2>1, <2>2, <3>1, <3>2 DEF OffInv
  <2> QED
    BY <2>3, <2>4
<1>8. CASE Rules
  <2>1. UNCHANGED <<inbox, stop_ended, requested, state>>
    BY <1>8 DEF Rules, world, android, history, service
  <2>2. OffKept
    BY <1>8, RulesMoves DEF OffKept, main, binder, First
  <2> QED
    BY <2>1, <2>2, OffQuiet
<1>9. CASE Establish
  <2>1. UNCHANGED <<inbox, stop_ended, requested, state>> /\ At("main", "establish")
    BY <1>9 DEF Establish, world, android, history
  <2>2. CASE Done("main")
    BY <2>1, <2>2, <1>p
  <2>3. CASE ~ Done("main")
    <3>1. OffKept
      BY <1>9, <2>1, <2>3, EstablishMoves DEF OffKept, main, binder, At
    <3> QED
      BY <2>1, <3>1, OffQuiet
  <2> QED
    BY <2>2, <2>3
<1>10. CASE ChoosePorts
  <2>1. /\ At("main", "ports") /\ Done("main")
        /\ UNCHANGED <<inbox, stop_ended, requested, state>>
    BY <1>10 DEF ChoosePorts, world, android, history, service
  <2> QED
    BY <2>1, <1>p
<1>11. CASE JniTrojan
  <2>1. /\ At("main", "trojan") /\ Done("main")
        /\ UNCHANGED <<inbox, stop_ended, requested, state>>
    BY <1>11 DEF JniTrojan, world, android, history, service
  <2> QED
    BY <2>1, <1>p
<1>12. CASE Front
  <2>1. /\ At("main", "front") /\ Done("main")
        /\ UNCHANGED <<inbox, stop_ended, requested, state>>
    BY <1>12 DEF Front, world, android, history
  <2> QED
    BY <2>1, <1>p
<1>13. CASE Return
  <2>1. /\ At("main", "return") /\ Done("main") /\ inbox' = Tail(inbox)
        /\ UNCHANGED <<stop_ended, requested, state, revoked>>
    BY <1>13 DEF Return, history, service
  <2>2. Program(main) /\ First(main, "return") /\ main \in Seq(StepNames)
    BY <2>1, Who DEF main
  <2>3. Final(main, "return") /\ main' = << >>
    <3>1. main' = Tail(main)
      BY <2>1, PopLists DEF main, At
    <3> QED
      BY <2>2, <3>1, ReturnLast
  <2>4. stop_ended' # "finished"
    BY <2>1, <2>3, Waits DEF StartInv, OffInv
  <2> QED
    BY <2>3, <2>4 DEF OffInv
<1>14. CASE Load
  BY <1>14, <1>q DEF Load, java, service, world, android, history
<1>15. CASE MakeService
  <2>1. CASE Gone("crashed")
    BY <2>1, OffGone
  <2>2. CASE ~ Gone("crashed")
    BY <1>15, <2>2, <1>q DEF MakeService, java, service, world, android, history
  <2> QED
    BY <2>1, <2>2
<1>16. CASE RunService
  BY <1>16, <1>q DEF RunService, java, service, world, android, history
<1>17. CASE Exit
  BY <1>17, <1>q DEF Exit, java, service, world, android, history
<1>18. ASSUME NEW t \in Threads, Assign(t) PROVE OffInv'
  <2>1. PICK s \in States : At(t, s) /\ Done(t) /\ state' = s
    BY <1>18 DEF Assign
  <2>2. UNCHANGED <<inbox, stop_ended, requested>>
    BY <1>18 DEF Assign, world, android, history
  <2>3. In(todo[t], state') /\ s # "stopSelf"
    BY <2>1, Who DEF States
  <2>4. OffKept
    BY <2>1, <2>3, OffPop
  <2> QED
    BY <2>2, <2>3, <2>4, OffQuiet
<1>19. ASSUME NEW t \in Threads, BeginBroadcast(t) PROVE OffInv'
  <2>1. PICK x \in {"begin", "result", "refusal"} :
          /\ At(t, x)
          /\ \/ Throw(t)
             \/ Done(t) /\ UNCHANGED <<inbox, stop_ended, requested, state>>
    BY <1>19 DEF BeginBroadcast, world, android, history, service
  <2>2. CASE Gone("crashed")
    BY <2>2, OffGone
  <2>3. CASE /\ t = "binder" \/ At(t, "refusal")
             /\ todo' = [todo EXCEPT ![t] = << >>]
             /\ UNCHANGED <<world, service, talk, ports, native>>
    <3>1. /\ t # "main" /\ main' = main /\ todo'[t] = << >>
          /\ \A u \in Threads : u # t => todo'[u] = todo[u]
      BY <2>3, ThrowKept
    <3>2. \A u \in Threads : \A y : In(todo'[u], y) => In(todo[u], y)
      BY <3>1, EmptyList
    <3>3. OffKept
      BY <3>1, <3>2 DEF OffKept
    <3> QED
      BY <2>3, <3>3, OffQuiet DEF world, android, history, service
  <2>4. CASE Done(t) /\ UNCHANGED <<inbox, stop_ended, requested, state>>
    BY <2>1, <2>4, <1>p
  <2> QED
    BY <2>1, <2>2, <2>3, <2>4, ThrowCases
<1>20. ASSUME NEW t \in Threads, FinishBroadcast(t) PROVE OffInv'
  <2>1. At(t, "finish") /\ Done(t) /\ UNCHANGED <<inbox, stop_ended, requested, state>>
    BY <1>20 DEF FinishBroadcast, android, service
  <2> QED
    BY <2>1, <1>p
<1>21. ASSUME NEW t \in Threads, Close(t) PROVE OffInv'
  <2>1. At(t, "close") /\ Done(t) /\ UNCHANGED <<inbox, stop_ended, requested, state>>
    BY <1>21 DEF Close, world, android, history
  <2> QED
    BY <2>1, <1>p
<1>22. ASSUME NEW t \in Threads, StopSelf(t) PROVE OffInv'
  <2>1. At(t, "stopSelf") /\ Done(t) /\ UNCHANGED <<inbox, stop_ended, state>> /\ ~ requested'
    BY <1>22 DEF StopSelf, NotStarted, history, service
  <2> QED
    BY <2>1, <1>p
<1>23. ASSUME NEW t \in Threads, Kill(t) PROVE OffInv'
  BY <1>23, OffGone DEF Kill
<1>24. ASSUME NEW t \in Threads, JniStop(t) PROVE OffInv'
  <2>1. UNCHANGED <<inbox, stop_ended, requested, state>> /\ todo[t] # << >>
    BY <1>24 DEF JniStop, At, world, android, history, service
  <2>2. OffKept
    <3>1. \A u \in Threads : \A y \in {"STARTING", "STARTED"} : In(todo'[u], y) => In(todo[u], y)
      BY <1>24, JniStopMoves
    <3>2. CASE t = "main"
      BY <1>24, <2>1, <3>1, <3>2, JniStopMoves DEF OffKept, main
    <3>3. CASE t # "main"
      BY <1>24, <2>1, <3>1, <3>3, JniStopMoves DEF OffKept, main
    <3> QED
      BY <3>2, <3>3
  <2> QED
    BY <2>1, <2>2, OffQuiet
<1>25. ASSUME NEW t \in Threads, ServiceStop(t) PROVE OffInv'
  <2>1. CASE Gone("crashed")
    BY <2>1, OffGone
  <2>2. CASE ~ Gone("crashed")
    <3>1. /\ At(t, "serviceStop") /\ Done(t)
          /\ UNCHANGED <<inbox, stop_ended, requested, state>>
      BY <1>25, <2>2 DEF ServiceStop, world, android, history, service
    <3> QED
      BY <3>1, <1>p
  <2> QED
    BY <2>1, <2>2
<1>26. ASSUME NEW t \in Threads, Join(t) PROVE OffInv'
  <2>1. CASE joined
    BY <1>26, <2>1, OffGone DEF Join
  <2>2. CASE ~ joined
    <3>1. UNCHANGED <<inbox, stop_ended, requested, state>> /\ todo[t] # << >>
      BY <1>26, <2>2 DEF Join, At, world, android, history, service
    <3>2. OffKept
      <4>1. \A u \in Threads : \A y \in {"STARTING", "STARTED"} : In(todo'[u], y) => In(todo[u], y)
        BY <1>26, <2>2, JoinMoves
      <4>2. CASE t = "main"
        BY <1>26, <2>2, <3>1, <4>1, <4>2, JoinMoves DEF OffKept, main
      <4>3. CASE t # "main"
        BY <1>26, <2>2, <3>1, <4>1, <4>3, JoinMoves DEF OffKept, main
      <4> QED
        BY <4>2, <4>3
    <3> QED
      BY <3>1, <3>2, OffQuiet
  <2> QED
    BY <2>1, <2>2
<1>27. ASSUME NEW t \in Threads, Wait(t) PROVE OffInv'
  <2>1. At(t, "wait") /\ Done(t) /\ UNCHANGED <<inbox, stop_ended, requested, state>>
    BY <1>27 DEF Wait, world, android, history, service
  <2> QED
    BY <2>1, <1>p
<1>28. ASSUME NEW t \in Threads, Delete(t) PROVE OffInv'
  <2>1. At(t, "delete") /\ Done(t) /\ UNCHANGED <<inbox, stop_ended, requested, state>>
    BY <1>28 DEF Delete, world, android, history, service
  <2> QED
    BY <2>1, <1>p
<1> QED
  BY <1>1, <1>2, <1>3, <1>4, <1>5, <1>6, <1>7, <1>8, <1>9, <1>10, <1>11, <1>12, <1>13, <1>14,
     <1>15, <1>16, <1>17, <1>18, <1>19, <1>20, <1>21, <1>22, <1>23, <1>24, <1>25, <1>26, <1>27,
     <1>28, Cases

-----------------------------------------------------------------------------
(* Before the process is killed.                                           *)
LEMMA KillFree ==
  ASSUME \A i \in 1 .. 3 : i \in DOMAIN main' => main'[i] # "kill"
  PROVE  KillInv'
BY DEF KillInv

LEMMA KillEmpty ==
  ASSUME main' = << >>
  PROVE  KillInv'
BY KillFree

LEMMA KillSame ==
  ASSUME KillInv, UNCHANGED <<main, state, heard>>, telling'["main"] = telling["main"],
         bound' => bound, revoked => revoked'
  PROVE  KillInv'
BY DEF KillInv

(* Only the main thread goes on while onRevoke has not been called.        *)
LEMMA KillOther ==
  ASSUME TypeOK, ListInv, KillInv, NEW t \in Threads, t # "main", NEW x, At(t, x),
         \A u \in Threads : u # t => todo'[u] = todo[u],
         t = "test" => UNCHANGED <<state, heard>> /\ telling'["main"] = telling["main"],
         UNCHANGED <<bound, revoked>>
  PROVE  KillInv'
<1>1. CASE t = "test"
  <2>1. main' = main
    BY <1>1, ThreadNames DEF main
  <2> QED
    BY <1>1, <2>1, KillSame
<1>2. CASE t = "binder"
  BY <1>2, Who DEF KillInv
<1> QED
  BY <1>1, <1>2, ThreadNames

(* The main thread comes one step nearer to its kill.                      *)
LEMMA KillPop ==
  ASSUME TypeOK, ListInv, KillInv, NEW x, At("main", x), Done("main"), UNCHANGED <<bound, revoked>>,
         x = "STOPPED" => state' = "STOPPED",
         x = "begin" => telling'["main"] = state,
         x = "finish" => (bound => heard' = telling["main"])
  PROVE  KillInv'
<1>1. /\ main \in Seq(StepNames) /\ main # << >> /\ Program(main) /\ First(main, x)
      /\ main' = Tail(main)
  BY ThreadNames, Who, PopLists DEF main
<1>2. PICK s : s = main
  OBVIOUS
<1>3. PICK q : q = main'
  OBVIOUS
<1>4. /\ Len(s) \in Nat /\ Len(s) >= 1 /\ DOMAIN s = 1 .. Len(s) /\ DOMAIN q = 1 .. Len(s) - 1
      /\ \A i \in DOMAIN q : q[i] = s[i + 1]
      /\ s[1] = x /\ 1 \in DOMAIN s
  BY <1>1, <1>2, <1>3, TailFacts DEF First
<1>5. /\ 1 \in DOMAIN q => 2 \in DOMAIN s /\ q[1] = s[2]
      /\ 2 \in DOMAIN q => 3 \in DOMAIN s /\ 2 \in DOMAIN s /\ q[2] = s[3]
      /\ 3 \in DOMAIN q => 4 \in DOMAIN s /\ 2 \in DOMAIN s /\ q[3] = s[4]
  <2>1. \A i \in DOMAIN q : i + 1 \in DOMAIN s
    BY <1>4
  <2>2. 3 \in DOMAIN q \/ 2 \in DOMAIN q => 1 \in DOMAIN q
    BY <1>4
  <2>3. 1 + 1 = 2 /\ 2 + 1 = 3 /\ 3 + 1 = 4
    OBVIOUS
  <2> QED
    BY <1>4, <2>1, <2>2, <2>3
<1>6. /\ 2 \in DOMAIN s /\ s[2] = "kill" => s[1] = "finish"
      /\ 2 \in DOMAIN s /\ 3 \in DOMAIN s /\ s[3] = "kill" => s[1] = "begin"
      /\ 2 \in DOMAIN s /\ 4 \in DOMAIN s /\ s[4] = "kill" => s[1] = "STOPPED"
  <2>1. Neighbours(s)
    BY <1>1, <1>2 DEF Program
  <2>2. 1 + 1 = 2 /\ 1 + 2 = 3 /\ 1 + 3 = 4
    OBVIOUS
  <2>3. /\ 1 + 1 \in DOMAIN s /\ s[1 + 1] = "kill" => s[1] = "finish"
        /\ 1 + 1 \in DOMAIN s /\ 1 + 2 \in DOMAIN s /\ s[1 + 2] = "kill" => s[1] = "begin"
        /\ 1 + 1 \in DOMAIN s /\ 1 + 3 \in DOMAIN s /\ s[1 + 3] = "kill" => s[1] = "STOPPED"
    BY <1>4, <2>1 DEF Neighbours
  <2> QED
    BY <2>2, <2>3
<1>7. ~ revoked =>
        /\ 2 \in DOMAIN s /\ s[2] = "kill" => telling["main"] = "STOPPED"
        /\ 3 \in DOMAIN s /\ s[3] = "kill" => state = "STOPPED"
  BY <1>2 DEF KillInv
<1>8. ASSUME ~ revoked'
      PROVE  /\ 1 \in DOMAIN q /\ q[1] = "kill" /\ bound' => heard' = "STOPPED"
             /\ 2 \in DOMAIN q /\ q[2] = "kill" => telling'["main"] = "STOPPED"
             /\ 3 \in DOMAIN q /\ q[3] = "kill" => state' = "STOPPED"
  BY <1>4, <1>5, <1>6, <1>7, <1>8
<1> QED
  BY <1>3, <1>8 DEF KillInv

LEMMA KillGone ==
  ASSUME NEW how, Gone(how)
  PROVE  KillInv'
BY FreshLists, KillEmpty, ThreadNames DEF Gone, main

(* Every step keeps KillInv.                                               *)
LEMMA KillStep ==
  ASSUME TypeOK, ListInv, KillInv, Next
  PROVE  KillInv'
<1> USE ThreadNames
<1>p. ASSUME NEW t \in Threads, NEW x, At(t, x), Done(t), UNCHANGED <<talk, heard, bound, revoked, state>>,
             x \notin {"STOPPED", "begin", "finish"}
      PROVE  KillInv'
  <2>1. CASE t = "main"
    BY <1>p, <2>1, KillPop
  <2>2. CASE t # "main"
    BY <1>p, <2>2, PopMoves, KillOther DEF talk
  <2> QED
    BY <2>1, <2>2
<1>q. ASSUME UNCHANGED <<main, state, heard, talk, revoked>>, bound' => bound
      PROVE  KillInv'
  BY <1>q, KillSame DEF talk
<1>1. CASE StartRequest
  BY <1>1, <1>q DEF StartRequest, java, service, main
<1>2. CASE StopRequest
  BY <1>2, <1>q DEF StopRequest, java, service, history, main
<1>3. CASE Create
  BY <1>3, FreshLists, KillEmpty DEF Create, main
<1>4. CASE Unbind
  BY <1>4, <1>q DEF Unbind, java, service, history, main
<1>5. CASE OnRevoke
  BY <1>5 DEF OnRevoke, KillInv
<1>6. CASE Test
  <2>1. main' = main
    BY <1>6 DEF Test, main, TypeOK
  <2> QED
    BY <1>6, <2>1, <1>q DEF Test, world, android, history, service
<1>7. CASE Handle
  <2>1. CASE Final(main', "return") /\ ~ In(main', "kill")
    BY <2>1, KillFree DEF In
  <2>2. CASE \A i \in 1 .. 3 : i \in DOMAIN main' => main'[i] # "kill"
    BY <2>2, KillFree
  <2> QED
    BY <1>7, <2>1, <2>2, HandleMoves
<1>8. CASE Rules
  <2>1. Final(main', "return") /\ ListInv' /\ TodoType'
    BY <1>8, ListStep, RulesMoves
  <2>2. main' \in Seq(StepNames) /\ Program(main')
    BY <2>1 DEF TodoType, ListInv, main
  <2>3. \A i \in DOMAIN main' : main'[i] # "kill"
    BY <2>1, <2>2, Sides
  <2> QED
    BY <2>3, KillFree
<1>9. CASE Establish
  <2>1. At("main", "establish") /\ UNCHANGED <<talk, heard, bound, revoked, state>>
    BY <1>9 DEF Establish, world, android, history
  <2>2. CASE Done("main")
    BY <2>1, <2>2, <1>p
  <2>3. CASE ~ Done("main")
    BY <1>9, <2>3, EstablishMoves, KillFree
  <2> QED
    BY <2>2, <2>3
<1>10. CASE ChoosePorts
  <2>1. /\ At("main", "ports") /\ Done("main") /\ UNCHANGED <<talk, heard, bound, revoked, state>>
    BY <1>10 DEF ChoosePorts, world, android, history, service
  <2> QED
    BY <2>1, <1>p
<1>11. CASE JniTrojan
  <2>1. /\ At("main", "trojan") /\ Done("main") /\ UNCHANGED <<talk, heard, bound, revoked, state>>
    BY <1>11 DEF JniTrojan, world, android, history, service
  <2> QED
    BY <2>1, <1>p
<1>12. CASE Front
  <2>1. /\ At("main", "front") /\ Done("main") /\ UNCHANGED <<talk, heard, bound, revoked, state>>
    BY <1>12 DEF Front, world, android, history
  <2> QED
    BY <2>1, <1>p
<1>13. CASE Return
  <2>1. /\ At("main", "return") /\ Done("main") /\ UNCHANGED <<talk, heard, bound, revoked, state>>
    BY <1>13 DEF Return, history, service
  <2> QED
    BY <2>1, <1>p
<1>14. CASE Load
  BY <1>14, <1>q DEF Load, java, service, world, android, history, main
<1>15. CASE MakeService
  <2>1. CASE Gone("crashed")
    BY <2>1, KillGone
  <2>2. CASE ~ Gone("crashed")
    <3>1. UNCHANGED <<world, java>>
      BY <1>15, <2>2 DEF MakeService
    <3> QED
      BY <3>1, <1>q DEF java, service, world, android, history, main
  <2> QED
    BY <2>1, <2>2
<1>16. CASE RunService
  BY <1>16, <1>q DEF RunService, java, service, world, android, history, main
<1>17. CASE Exit
  BY <1>17, <1>q DEF Exit, java, service, world, android, history, main
<1>18. ASSUME NEW t \in Threads, Assign(t) PROVE KillInv'
  <2>1. PICK s \in States : At(t, s) /\ Done(t) /\ state' = s
    BY <1>18 DEF Assign
  <2>2. UNCHANGED <<talk, heard, bound, revoked>>
    BY <1>18 DEF Assign, world, android, history
  <2>3. s # "begin" /\ s # "finish"
    BY DEF States
  <2>4. CASE t = "main"
    BY <2>1, <2>2, <2>3, <2>4, KillPop
  <2>5. CASE t # "main"
    <3>1. t # "test"
      BY <2>1, Who DEF States
    <3> QED
      BY <2>1, <2>2, <2>5, <3>1, PopMoves, KillOther
  <2> QED
    BY <2>4, <2>5
<1>19. ASSUME NEW t \in Threads, BeginBroadcast(t) PROVE KillInv'
  <2>1. PICK x \in {"begin", "result", "refusal"} :
          /\ At(t, x)
          /\ \/ Throw(t)
             \/ /\ Done(t) /\ UNCHANGED <<heard, bound, revoked, state>>
                /\ telling' = [telling EXCEPT ![t] = IF x = "begin" THEN state ELSE "NONE"]
    BY <1>19 DEF BeginBroadcast, world, android, history, service
  <2>2. CASE Gone("crashed")
    BY <2>2, KillGone
  <2>3. CASE /\ t = "binder" \/ At(t, "refusal")
             /\ todo' = [todo EXCEPT ![t] = << >>]
             /\ UNCHANGED <<world, service, talk, ports, native>>
    BY <2>3, ThrowKept, <1>q DEF world, android, history, service
  <2>4. CASE /\ Done(t) /\ UNCHANGED <<heard, bound, revoked, state>>
             /\ telling' = [telling EXCEPT ![t] = IF x = "begin" THEN state ELSE "NONE"]
    <3>1. CASE t = "main"
      <4>1. x = "begin" => telling'["main"] = state
        BY <2>4, <3>1 DEF TypeOK
      <4> QED
        BY <2>1, <2>4, <3>1, <4>1, KillPop
    <3>2. CASE t # "main"
      <4>1. telling'["main"] = telling["main"]
        BY <2>4, <3>2 DEF TypeOK
      <4> QED
        BY <2>1, <2>4, <3>2, <4>1, PopMoves, KillOther
    <3> QED
      BY <3>1, <3>2
  <2> QED
    BY <2>1, <2>2, <2>3, <2>4, ThrowCases
<1>20. ASSUME NEW t \in Threads, FinishBroadcast(t) PROVE KillInv'
  <2>1. /\ At(t, "finish") /\ Done(t) /\ UNCHANGED <<bound, revoked, state, telling>>
        /\ heard' = IF t = "test" \/ ~ bound THEN heard ELSE telling[t]
    BY <1>20 DEF FinishBroadcast, android, service
  <2>2. CASE t = "main"
    BY <2>1, <2>2, KillPop
  <2>3. CASE t # "main"
    BY <2>1, <2>3, PopMoves, KillOther
  <2> QED
    BY <2>2, <2>3
<1>21. ASSUME NEW t \in Threads, Close(t) PROVE KillInv'
  <2>1. /\ At(t, "close") /\ Done(t) /\ UNCHANGED <<talk, heard, bound, revoked, state>>
    BY <1>21 DEF Close, world, android, history
  <2> QED
    BY <2>1, <1>p
<1>22. ASSUME NEW t \in Threads, StopSelf(t) PROVE KillInv'
  <2>1. /\ At(t, "stopSelf") /\ Done(t) /\ UNCHANGED <<talk, heard, bound, revoked, state>>
    BY <1>22 DEF StopSelf, history, service
  <2> QED
    BY <2>1, <1>p
<1>23. ASSUME NEW t \in Threads, Kill(t) PROVE KillInv'
  BY <1>23, KillGone DEF Kill
<1>24. ASSUME NEW t \in Threads, JniStop(t) PROVE KillInv'
  <2>1. At(t, "nativeStop") /\ UNCHANGED <<talk, heard, bound, revoked, state>>
    BY <1>24 DEF JniStop, world, android, history, service
  <2>2. CASE t = "main"
    BY <1>24, <2>2, JniStopMoves, KillFree DEF main
  <2>3. CASE t # "main"
    BY <1>24, <2>1, <2>3, JniStopMoves, KillOther DEF talk
  <2> QED
    BY <2>2, <2>3
<1>25. ASSUME NEW t \in Threads, ServiceStop(t) PROVE KillInv'
  <2>1. CASE Gone("crashed")
    BY <2>1, KillGone
  <2>2. CASE ~ Gone("crashed")
    <3>1. At(t, "serviceStop") /\ Done(t) /\ UNCHANGED <<talk, heard, bound, revoked, state>>
      BY <1>25, <2>2 DEF ServiceStop, world, android, history, service
    <3> QED
      BY <3>1, <1>p
  <2> QED
    BY <2>1, <2>2
<1>26. ASSUME NEW t \in Threads, Join(t) PROVE KillInv'
  <2>1. CASE joined
    BY <1>26, <2>1, KillGone DEF Join
  <2>2. CASE ~ joined
    <3>1. At(t, "join") /\ UNCHANGED <<talk, heard, bound, revoked, state>>
      BY <1>26, <2>2 DEF Join, world, android, history, service
    <3>2. CASE t = "main"
      BY <1>26, <2>2, <3>2, JoinMoves, KillFree DEF main
    <3>3. CASE t # "main"
      BY <1>26, <2>2, <3>1, <3>3, JoinMoves, KillOther DEF talk
    <3> QED
      BY <3>2, <3>3
  <2> QED
    BY <2>1, <2>2
<1>27. ASSUME NEW t \in Threads, Wait(t) PROVE KillInv'
  <2>1. /\ At(t, "wait") /\ Done(t) /\ UNCHANGED <<talk, heard, bound, revoked, state>>
    BY <1>27 DEF Wait, world, android, history, service
  <2> QED
    BY <2>1, <1>p
<1>28. ASSUME NEW t \in Threads, Delete(t) PROVE KillInv'
  <2>1. /\ At(t, "delete") /\ Done(t) /\ UNCHANGED <<talk, heard, bound, revoked, state>>
    BY <1>28 DEF Delete, world, android, history, service
  <2> QED
    BY <2>1, <1>p
<1> QED
  BY <1>1, <1>2, <1>3, <1>4, <1>5, <1>6, <1>7, <1>8, <1>9, <1>10, <1>11, <1>12, <1>13, <1>14,
     <1>15, <1>16, <1>17, <1>18, <1>19, <1>20, <1>21, <1>22, <1>23, <1>24, <1>25, <1>26, <1>27,
     <1>28, Cases

-----------------------------------------------------------------------------
(* How the process ends.                                                   *)
LEMMA Endings ==
  ASSUME Next, proc, ~ proc'
  PROVE  \/ /\ died' = "killed" /\ \E t \in Threads : At(t, "kill")
         \/ /\ died' = "crashed"
            /\ \/ trojan = "binding" \/ broadcasting
               \/ \E t \in Threads : At(t, "serviceStop") /\ trojanService # "live"
               \/ \E t \in Threads : At(t, "join") /\ joined
<1>1. CASE Return
  BY <1>1 DEF Return
<1>2. CASE Load
  BY <1>2 DEF Load, world
<1>3. CASE MakeService
  BY <1>3 DEF MakeService, world, Gone
<1>4. CASE RunService
  BY <1>4 DEF RunService, world
<1>5. CASE Exit
  BY <1>5 DEF Exit, world
<1>6. CASE StartRequest
  BY <1>6 DEF StartRequest
<1>7. CASE StopRequest
  BY <1>7 DEF StopRequest
<1>8. CASE Create \/ Unbind \/ OnRevoke
  BY <1>8 DEF Create, Unbind, OnRevoke
<1>9. CASE Test \/ Handle
  BY <1>9 DEF Test, Handle, world
<1>10. CASE Rules \/ Establish \/ ChoosePorts
  BY <1>10 DEF Rules, Establish, ChoosePorts, world
<1>11. CASE JniTrojan \/ Front
  BY <1>11 DEF JniTrojan, Front, world
<1>12. ASSUME NEW t \in Threads, Assign(t) \/ FinishBroadcast(t) \/ Close(t) \/ StopSelf(t) PROVE FALSE
  BY <1>12 DEF Assign, FinishBroadcast, Close, StopSelf, world
<1>13. ASSUME NEW t \in Threads, JniStop(t) \/ Wait(t) \/ Delete(t) PROVE FALSE
  BY <1>13 DEF JniStop, Wait, Delete, world
<1>14. ASSUME NEW t \in Threads, Kill(t) PROVE died' = "killed" /\ At(t, "kill")
  BY <1>14 DEF Kill, Gone
<1>15. ASSUME NEW t \in Threads, BeginBroadcast(t) PROVE died' = "crashed" /\ broadcasting
  <2>1. broadcasting /\ Throw(t)
    BY <1>15 DEF BeginBroadcast, world
  <2> QED
    BY <2>1, ThrowCases DEF Gone, world
<1>16. ASSUME NEW t \in Threads, ServiceStop(t)
       PROVE  died' = "crashed" /\ At(t, "serviceStop") /\ trojanService # "live"
  BY <1>16 DEF ServiceStop, Gone, world
<1>17. ASSUME NEW t \in Threads, Join(t) PROVE died' = "crashed" /\ At(t, "join") /\ joined
  BY <1>17 DEF Join, Gone, world
<1> QED
  BY <1>1, <1>2, <1>3, <1>4, <1>5, <1>6, <1>7, <1>8, <1>9, <1>10, <1>11, <1>12, <1>13, <1>14,
     <1>15, <1>16, <1>17, Cases

(* Whom Process.killProcess cuts off has been told.                        *)
LEMMA KilledSays ==
  ASSUME TypeOK, ListInv, KillInv, [Next]_vars
  PROVE  Ends("killed") /\ bound /\ ~ revoked => heard = "STOPPED"
<1>1. SUFFICES ASSUME proc, ~ proc', died' = "killed", bound, ~ revoked
               PROVE  heard = "STOPPED"
  BY DEF Ends
<1>2. Next
  BY <1>1 DEF vars, world
<1>3. PICK t \in Threads : At(t, "kill")
  BY <1>1, <1>2, Endings
<1>4. t = "main"
  BY <1>1, <1>3, Who, ThreadNames
<1>5. main \in Seq(StepNames) /\ main # << >> /\ First(main, "kill")
  BY <1>3, <1>4, Who DEF main
<1>6. 1 \in DOMAIN main /\ main[1] = "kill"
  BY <1>5, TailFacts DEF First
<1> QED
  BY <1>1, <1>6 DEF KillInv

(* A second stop finds the Service freed, or its thread joined, only on    *)
(* the main thread and after onRevoke.                                     *)
LEMMA Crashes ==
  ASSUME TypeOK, ListInv, ThreadInv, StopInv, [Next]_vars
  PROVE  Ends("crashed") =>
           \/ trojan \in {"loading", "binding"} \/ broadcasting
           \/ Running("main", "kill") /\ revoked
<1> USE ThreadNames
<1>1. SUFFICES ASSUME proc, ~ proc', died' = "crashed"
               PROVE  \/ trojan \in {"loading", "binding"} \/ broadcasting
                      \/ Final(main, "kill") /\ revoked
  BY DEF Ends, Running, Final, main
<1>2. Next
  BY <1>1 DEF vars, world
<1>3. ASSUME NEW t \in Threads, NEW x \in Native, At(t, x), Through
      PROVE  Final(main, "kill") /\ revoked
  <2>1. /\ t # "test" /\ ~ Clear(todo[t]) /\ Final(todo[t], "kill")
        /\ t = "binder" => revoked
    BY <1>3, Who DEF Native, Closing
  <2>2. CASE t = "main"
    BY <1>3, <2>1, <2>2 DEF Through, main
  <2>3. CASE t = "binder"
    BY <1>3, <2>1, <2>3 DEF Through, binder
  <2> QED
    BY <2>1, <2>2, <2>3
<1>4. ASSUME NEW t \in Threads, At(t, "serviceStop"), trojanService # "live"
      PROVE  trojan \in {"loading", "binding"} \/ (Final(main, "kill") /\ revoked)
  <2>1. trojan # "none"
    BY <1>4, Who DEF StopInv
  <2>2. trojan = "exited" => Through
    BY <1>4 DEF ThreadInv, TypeOK
  <2>3. trojan \in {"loading", "binding", "exited"}
    BY <1>4, <2>1 DEF TypeOK
  <2> QED
    BY <1>3, <1>4, <2>2, <2>3 DEF Native
<1>5. ASSUME NEW t \in Threads, At(t, "join"), joined
      PROVE  Final(main, "kill") /\ revoked
  BY <1>3, <1>5 DEF ThreadInv, Native
<1> QED
  BY <1>1, <1>2, <1>4, <1>5, Endings

-----------------------------------------------------------------------------
(* Whoever waits for the trojan thread.                                    *)
Joiners(s) == {x \in {"join", "wait"} : First(s, x)}

(* Nobody comes to wait, and the thread of onRevoke does not go back.      *)
WaitKept ==
  /\ \A t \in Threads : Joiners(todo'[t]) \subseteq Joiners(todo[t])
  /\ trojanService = "freed" /\ trojan \in {"loading", "binding"} /\ Clear(binder) => Clear(binder')
  /\ \A x \in {"wait", "delete"} : In(binder', x) => In(binder, x) \/ ~ Clear(binder)

(* WaitInv, by who joins.                                                  *)
LEMMA WaitFacts ==
  WaitInv <=>
    /\ trojanService = "freed" /\ trojan \in {"loading", "binding"} =>
         /\ revoked /\ starts > 1
         /\ Clear(binder) /\ ~ In(binder, "wait") /\ ~ In(binder, "delete")
    /\ \A t \in Threads : Joiners(todo[t]) # {} =>
         io_stopped \/ (t = "main" /\ revoked /\ starts > 1)
BY DEF WaitInv, Joiners

(* Where nobody comes to join, WaitInv stays.                              *)
LEMMA WaitQuiet ==
  ASSUME WaitInv, WaitKept, trojanService' = trojanService,
         trojan' \in {"loading", "binding"} => trojan \in {"loading", "binding"},
         io_stopped => io_stopped', revoked => revoked', starts > 1 => starts' > 1
  PROVE  WaitInv'
<1>1. /\ trojanService = "freed" /\ trojan \in {"loading", "binding"} =>
           /\ revoked /\ starts > 1
           /\ Clear(binder) /\ ~ In(binder, "wait") /\ ~ In(binder, "delete")
      /\ \A t \in Threads : Joiners(todo[t]) # {} =>
           io_stopped \/ (t = "main" /\ revoked /\ starts > 1)
  BY WaitFacts
<1>2. trojanService' = "freed" /\ trojan' \in {"loading", "binding"} =>
        /\ revoked' /\ starts' > 1
        /\ Clear(binder') /\ ~ In(binder', "wait") /\ ~ In(binder', "delete")
  BY <1>1 DEF WaitKept
<1>3. \A t \in Threads : Joiners(todo'[t]) # {} =>
        io_stopped' \/ (t = "main" /\ revoked' /\ starts' > 1)
  BY <1>1 DEF WaitKept
<1> QED
  BY <1>2, <1>3 DEF WaitInv, Joiners

LEMMA WaitSame ==
  ASSUME UNCHANGED todo
  PROVE  WaitKept
BY DEF WaitKept, Joiners, binder

(* The steps after which nobody joins.                                     *)
LEMMA WaitPop ==
  ASSUME TypeOK, ListInv, NEW t \in Threads, NEW x, At(t, x), Done(t), x # "serviceStop"
  PROVE  WaitKept
<1>1. /\ \A u \in Threads : u # t => todo'[u] = todo[u]
      /\ \A y : In(todo'[t], y) => In(todo[t], y)
      /\ Clear(todo[t]) => Clear(todo'[t])
      /\ ~ First(todo'[t], "wait")
      /\ First(todo'[t], "join") => x = "serviceStop"
  BY PopMoves
<1>2. Joiners(todo'[t]) = {}
  BY <1>1 DEF Joiners
<1>3. \A u \in Threads : Joiners(todo'[u]) \subseteq Joiners(todo[u])
  BY <1>1, <1>2
<1>4. CASE t = "binder"
  BY <1>1, <1>3, <1>4 DEF WaitKept, binder
<1>5. CASE t # "binder"
  BY <1>1, <1>3, <1>5, ThreadNames DEF WaitKept, binder
<1> QED
  BY <1>4, <1>5

LEMMA WaitMain ==
  ASSUME binder' = binder, todo'["test"] = todo["test"],
         \A x \in {"serviceStop", "join", "wait", "delete"} : ~ First(main', x)
  PROVE  WaitKept
<1>1. Joiners(main') = {}
  BY DEF Joiners
<1> QED
  BY <1>1, ThreadNames DEF WaitKept, main, binder

LEMMA WaitFresh ==
  ASSUME Fresh
  PROVE  WaitInv'
<1>1. trojanService' = "null" /\ \A t \in Threads : \A x : ~ First(todo'[t], x)
  BY FreshLists, EmptyList DEF Fresh
<1> QED
  BY <1>1 DEF WaitInv

(* A list that is clear of joins has the last steps of a stop in front.    *)
LEMMA NoneWaiting ==
  ASSUME NEW s \in Seq(StepNames), Program(s), Clear(s), ~ First(s, "wait"), ~ First(s, "delete")
  PROVE  ~ In(s, "wait") /\ ~ In(s, "delete")
<1>1. DOMAIN s = 1 .. Len(s) /\ Len(s) \in Nat
  OBVIOUS
<1>2. ASSUME NEW i \in DOMAIN s, s[i] = "wait" PROVE FALSE
  <2>1. i = 1 \/ (1 \in DOMAIN s /\ 1 < i)
    BY <1>1
  <2>2. i # 1
    BY <1>2 DEF First
  <2> QED
    BY <1>2, <2>1, <2>2 DEF Program, Ordered
<1>3. ASSUME NEW i \in DOMAIN s, s[i] = "delete" PROVE FALSE
  <2>1. i # 1
    BY <1>3 DEF First
  <2>2. PICK j : j = i - 1
    OBVIOUS
  <2>3. j \in DOMAIN s /\ j + 1 = i
    BY <1>1, <2>1, <2>2
  <2>4. s[j] \in {"join", "wait"}
    BY <1>3, <2>3 DEF Program, Neighbours
  <2> QED
    BY <1>2, <2>3, <2>4 DEF Clear, Native
<1> QED
  BY <1>2, <1>3 DEF In

(* A thread that is made after the Service was freed is that of a second   *)
(* start.                                                                  *)
LEMMA WaitTrojan ==
  ASSUME TypeOK, ListInv, ThreadInv, StopInv, StartInv, WaitInv, JniTrojan
  PROVE  WaitInv'
<1> USE ThreadNames
<1>1. /\ At("main", "trojan") /\ Done("main")
      /\ UNCHANGED <<trojanService, io_stopped, revoked, starts, inbox>>
  BY DEF JniTrojan, world, history, android, native
<1>2. WaitKept
  BY <1>1, WaitPop
<1>3. CASE trojanThread
  BY <1>1, <1>2, <1>3, WaitQuiet DEF JniTrojan, native
<1>4. CASE ~ trojanThread
  <2>1. binder' = binder
    BY <1>1, PopMoves DEF binder
  <2>2. Final(main, "return") /\ In(main, "trojan") /\ ~ Final(main, "kill")
    BY <1>1, Who, OneFinal DEF main, Opening
  <2>3. ASSUME trojanService = "freed"
        PROVE  /\ revoked /\ starts > 1
               /\ Clear(binder) /\ ~ In(binder, "wait") /\ ~ In(binder, "delete")
    <3>1. revoked /\ Clear(binder)
      BY <2>2, <2>3 DEF ThreadInv, Through
    <3>2. trojan # "none"
      BY <2>3 DEF ThreadInv
    <3>3. Waiting # {}
      BY <2>2, Waits DEF StartInv
    <3>4. starts > 1
      BY <2>2, <3>2, <3>3 DEF StartInv
    <3>5. ~ First(binder, "wait") /\ ~ First(binder, "delete")
      BY <1>4 DEF StopInv, binder
    <3>6. binder \in Seq(StepNames) /\ Program(binder)
      BY Lists DEF ListInv
    <3> QED
      BY <3>1, <3>4, <3>5, <3>6, NoneWaiting
  <2>4. \A t \in Threads : Joiners(todo'[t]) # {} =>
          io_stopped' \/ (t = "main" /\ revoked' /\ starts' > 1)
    BY <1>1, <1>2, WaitFacts DEF WaitKept
  <2> QED
    BY <1>1, <2>1, <2>3, <2>4 DEF WaitInv, Joiners
<1> QED
  BY <1>3, <1>4

(* Who comes to join has stopped the io_context, or is the main thread     *)
(* with a Service that onRevoke has freed.                                 *)
LEMMA WaitServiceStop ==
  ASSUME TypeOK, ListInv, ThreadInv, StopInv, WaitInv, NEW t \in Threads, ServiceStop(t),
         ~ Gone("crashed")
  PROVE  WaitInv'
<1> USE ThreadNames
<1>1. /\ At(t, "serviceStop") /\ Done(t) /\ trojanService # "null"
      /\ io_stopped' = (trojanService = "live" \/ io_stopped)
      /\ UNCHANGED <<trojan, trojanService, revoked, starts>>
  BY DEF ServiceStop, world, history, android
<1>2. /\ \A u \in Threads : u # t => todo'[u] = todo[u]
      /\ \A y : In(todo'[t], y) => In(todo[t], y)
      /\ Clear(todo[t]) => Clear(todo'[t])
  BY <1>1, PopMoves
<1>3. /\ t # "test" /\ ~ Clear(todo[t]) /\ First(todo[t], "serviceStop")
  BY <1>1, Who DEF Native
<1>4. io_stopped' \/ (t = "main" /\ revoked /\ starts > 1)
  <2>1. CASE trojanService = "live"
    BY <1>1, <2>1
  <2>2. CASE trojanService = "freed"
    <3>1. trojan # "none"
      BY <1>3 DEF StopInv
    <3>2. trojan \in {"loading", "binding", "exited"}
      BY <2>2, <3>1 DEF TypeOK, ThreadInv
    <3>3. CASE trojan = "exited"
      BY <1>1, <3>3 DEF ThreadInv
    <3>4. CASE trojan \in {"loading", "binding"}
      <4>1. revoked /\ starts > 1 /\ Clear(binder)
        BY <2>2, <3>4 DEF WaitInv
      <4> QED
        BY <1>3, <4>1 DEF binder
    <3> QED
      BY <3>2, <3>3, <3>4
  <2> QED
    BY <1>1, <2>1, <2>2 DEF TypeOK
<1>5. ASSUME NEW u \in Threads, Joiners(todo'[u]) # {}
      PROVE  io_stopped' \/ (u = "main" /\ revoked' /\ starts' > 1)
  <2>1. CASE u = t
    BY <1>1, <1>4, <2>1
  <2>2. CASE u # t
    BY <1>1, <1>2, <1>5, <2>2, WaitFacts
  <2> QED
    BY <2>1, <2>2
<1>6. trojanService' = "freed" /\ trojan' \in {"loading", "binding"} =>
        /\ revoked' /\ starts' > 1
        /\ Clear(binder') /\ ~ In(binder', "wait") /\ ~ In(binder', "delete")
  BY <1>1, <1>2, <1>3 DEF WaitInv, binder
<1> QED
  BY <1>5, <1>6 DEF WaitInv, Joiners

(* Every step keeps WaitInv.                                               *)
LEMMA WaitStep ==
  ASSUME TypeOK, ListInv, ThreadInv, StopInv, StartInv, WaitInv, Next
  PROVE  WaitInv'
<1> USE ThreadNames
<1>p. ASSUME NEW t \in Threads, NEW x, At(t, x), Done(t), x # "serviceStop",
             UNCHANGED <<trojanService, trojan, io_stopped, revoked, starts>>
      PROVE  WaitInv'
  BY <1>p, WaitPop, WaitQuiet
<1>1. CASE StartRequest
  <2>1. UNCHANGED <<todo, trojanService, trojan, io_stopped, revoked>> /\ starts' = starts + 1
    BY <1>1 DEF StartRequest, java, native
  <2>2. starts > 1 => starts' > 1
    BY <2>1 DEF TypeOK
  <2> QED
    BY <2>1, <2>2, WaitSame, WaitQuiet
<1>2. CASE StopRequest
  BY <1>2, WaitSame, WaitQuiet DEF StopRequest, java, native, history
<1>3. CASE Create
  BY <1>3, WaitFresh DEF Create
<1>4. CASE Unbind
  BY <1>4, WaitSame, WaitQuiet DEF Unbind, java, native, history
<1>5. CASE OnRevoke
  <2>1. /\ ~ revoked /\ revoked' = TRUE /\ todo' = [todo EXCEPT !["binder"] = Stop]
        /\ UNCHANGED <<trojanService, trojan, io_stopped, starts>>
    BY <1>5 DEF OnRevoke, native, android
  <2>2. main' = main /\ binder' = Stop /\ todo'["test"] = todo["test"]
    BY <2>1, StopFacts, Update DEF main, binder
  <2>3. Joiners(binder') = {}
    BY <2>2, StopProgram DEF Joiners
  <2>4. \A t \in Threads : Joiners(todo'[t]) \subseteq Joiners(todo[t])
    BY <2>2, <2>3 DEF main, binder
  <2>5. ~ (trojanService = "freed" /\ trojan \in {"loading", "binding"})
    BY <2>1 DEF WaitInv
  <2>6. \A t \in Threads : Joiners(todo'[t]) # {} =>
          io_stopped' \/ (t = "main" /\ revoked' /\ starts' > 1)
    BY <2>1, <2>4, WaitFacts
  <2> QED
    BY <2>1, <2>5, <2>6 DEF WaitInv, Joiners
<1>6. CASE Test
  <2>1. UNCHANGED <<trojanService, trojan, io_stopped, revoked, starts>>
    BY <1>6 DEF Test, world, android, history, native
  <2>2. PICK x \in {"result", "refusal"} : todo' = [todo EXCEPT !["test"] = <<x, "finish">>]
    BY <1>6 DEF Test
  <2>3. PICK q : q = <<x, "finish">>
    OBVIOUS
  <2>4. q \in Seq(StepNames) /\ Len(q) = 2 /\ q[1] = x /\ q[2] = "finish"
    BY <2>3, NamesFacts, Pair
  <2>5. Joiners(q) = {}
    BY <2>4 DEF Joiners, First
  <2>6. todo'["test"] = q /\ \A u \in Threads : u # "test" => todo'[u] = todo[u]
    BY <2>2, <2>3, <2>4, Update
  <2>7. WaitKept
    BY <2>5, <2>6 DEF WaitKept, binder
  <2> QED
    BY <2>1, <2>7, WaitQuiet
<1>7. CASE Handle
  <2>1. UNCHANGED <<trojanService, trojan, io_stopped, revoked, starts>>
    BY <1>7 DEF Handle, world, android, history, native
  <2> QED
    BY <1>7, <2>1, HandleMoves, WaitMain, WaitQuiet
<1>8. CASE Rules
  <2>1. UNCHANGED <<trojanService, trojan, io_stopped, revoked, starts>>
    BY <1>8 DEF Rules, world, android, history, native
  <2> QED
    BY <1>8, <2>1, RulesMoves, WaitMain, WaitQuiet
<1>9. CASE Establish
  <2>1. /\ At("main", "establish")
        /\ UNCHANGED <<trojanService, trojan, io_stopped, revoked, starts>>
    BY <1>9 DEF Establish, world, android, history, native
  <2>2. CASE Done("main")
    BY <2>1, <2>2, <1>p
  <2>3. CASE ~ Done("main")
    BY <1>9, <2>1, <2>3, EstablishMoves, WaitMain, WaitQuiet
  <2> QED
    BY <2>2, <2>3
<1>10. CASE ChoosePorts
  <2>1. /\ At("main", "ports") /\ Done("main")
        /\ UNCHANGED <<trojanService, trojan, io_stopped, revoked, starts>>
    BY <1>10 DEF ChoosePorts, world, android, history, native
  <2> QED
    BY <2>1, <1>p
<1>11. CASE JniTrojan
  BY <1>11, WaitTrojan
<1>12. CASE Front
  <2>1. /\ At("main", "front") /\ Done("main")
        /\ UNCHANGED <<trojanService, trojan, io_stopped, revoked, starts>>
    BY <1>12 DEF Front, world, android, history, native
  <2> QED
    BY <2>1, <1>p
<1>13. CASE Return
  <2>1. /\ At("main", "return") /\ Done("main")
        /\ UNCHANGED <<trojanService, trojan, io_stopped, revoked, starts>>
    BY <1>13 DEF Return, history, native
  <2> QED
    BY <2>1, <1>p
<1>14. CASE Load
  <2>1. /\ trojan = "loading"
        /\ UNCHANGED <<todo, trojanService, io_stopped, revoked, starts>>
    BY <1>14 DEF Load, java, world, android, history
  <2> QED
    BY <2>1, WaitSame, WaitQuiet
<1>15. CASE MakeService
  <2>1. CASE Gone("crashed")
    BY <2>1, GoneFresh, WaitFresh
  <2>2. CASE ~ Gone("crashed")
    <3>1. /\ trojan = "binding" /\ trojan' = "made" /\ UNCHANGED <<todo, revoked, starts>>
      BY <1>15, <2>2 DEF MakeService, java, world, android, history
    <3>2. ASSUME NEW t \in Threads, NEW x \in {"join", "wait"}, First(todo[t], x)
          PROVE  t = "main" /\ revoked /\ starts > 1
      <4>1. trojanService = "freed"
        BY <3>1, <3>2 DEF StopInv, ThreadInv, TypeOK
      <4>2. revoked /\ starts > 1 /\ Clear(binder) /\ ~ In(binder, "wait")
        BY <3>1, <4>1 DEF WaitInv
      <4>3. todo[t] \in Seq(StepNames) /\ todo[t] # << >>
        BY <3>2, Lists DEF First
      <4>4. 1 \in DOMAIN todo[t] /\ todo[t][1] = x /\ In(todo[t], x)
        BY <3>2, <4>3, TailFacts DEF First, In
      <4>5. t # "test"
        BY <4>4 DEF ListInv
      <4>6. t # "binder"
        BY <4>2, <4>4 DEF Clear, Native, binder
      <4> QED
        BY <4>2, <4>5, <4>6
    <3> QED
      BY <3>1, <3>2 DEF WaitInv
  <2> QED
    BY <2>1, <2>2
<1>16. CASE RunService
  <2>1. /\ trojan' = "running"
        /\ UNCHANGED <<todo, trojanService, io_stopped, revoked, starts>>
    BY <1>16 DEF RunService, ServiceRun, java, world, android, history
  <2> QED
    BY <2>1, WaitSame, WaitQuiet
<1>17. CASE Exit
  <2>1. /\ trojan' = "exited"
        /\ UNCHANGED <<todo, trojanService, io_stopped, revoked, starts>>
    BY <1>17 DEF Exit, java, world, android, history
  <2> QED
    BY <2>1, WaitSame, WaitQuiet
<1>18. ASSUME NEW t \in Threads, Assign(t) PROVE WaitInv'
  <2>1. PICK s \in States : At(t, s) /\ Done(t)
    BY <1>18 DEF Assign
  <2>2. UNCHANGED <<trojanService, trojan, io_stopped, revoked, starts>>
    BY <1>18 DEF Assign, world, android, history, native
  <2>3. s # "serviceStop"
    BY DEF States
  <2> QED
    BY <2>1, <2>2, <2>3, <1>p
<1>19. ASSUME NEW t \in Threads, BeginBroadcast(t) PROVE WaitInv'
  <2>1. PICK x \in {"begin", "result", "refusal"} :
          /\ At(t, x)
          /\ \/ Throw(t)
             \/ Done(t) /\ UNCHANGED <<trojanService, trojan, io_stopped, revoked, starts>>
    BY <1>19 DEF BeginBroadcast, world, android, history, native
  <2>2. CASE Gone("crashed")
    BY <2>2, GoneFresh, WaitFresh
  <2>3. CASE /\ t = "binder" \/ At(t, "refusal")
             /\ todo' = [todo EXCEPT ![t] = << >>]
             /\ UNCHANGED <<world, service, talk, ports, native>>
    <3>1. /\ todo'[t] = << >> /\ \A u \in Threads : u # t => todo'[u] = todo[u]
      BY <2>3, ThrowKept
    <3>2. \A u \in Threads : Joiners(todo'[u]) \subseteq Joiners(todo[u])
      BY <3>1, EmptyList DEF Joiners
    <3>3. binder' = binder \/ (Clear(binder') /\ \A y : ~ In(binder', y))
      BY <3>1, EmptyList DEF binder
    <3>4. WaitKept
      BY <3>2, <3>3 DEF WaitKept
    <3> QED
      BY <2>3, <3>4, WaitQuiet DEF world, android, history, native
  <2>4. CASE Done(t) /\ UNCHANGED <<trojanService, trojan, io_stopped, revoked, starts>>
    BY <2>1, <2>4, <1>p
  <2> QED
    BY <2>1, <2>2, <2>3, <2>4, ThrowCases
<1>20. ASSUME NEW t \in Threads, FinishBroadcast(t) PROVE WaitInv'
  <2>1. /\ At(t, "finish") /\ Done(t)
        /\ UNCHANGED <<trojanService, trojan, io_stopped, revoked, starts>>
    BY <1>20 DEF FinishBroadcast, android, native
  <2> QED
    BY <2>1, <1>p
<1>21. ASSUME NEW t \in Threads, Close(t) PROVE WaitInv'
  <2>1. /\ At(t, "close") /\ Done(t)
        /\ UNCHANGED <<trojanService, trojan, io_stopped, revoked, starts>>
    BY <1>21 DEF Close, world, android, history, native
  <2> QED
    BY <2>1, <1>p
<1>22. ASSUME NEW t \in Threads, StopSelf(t) PROVE WaitInv'
  <2>1. /\ At(t, "stopSelf") /\ Done(t)
        /\ UNCHANGED <<trojanService, trojan, io_stopped, revoked, starts>>
    BY <1>22 DEF StopSelf, history, native
  <2> QED
    BY <2>1, <1>p
<1>23. ASSUME NEW t \in Threads, Kill(t) PROVE WaitInv'
  BY <1>23, GoneFresh, WaitFresh DEF Kill
<1>24. ASSUME NEW t \in Threads, JniStop(t) PROVE WaitInv'
  <2>1. /\ At(t, "nativeStop")
        /\ UNCHANGED <<trojanService, trojan, io_stopped, revoked, starts>>
    BY <1>24 DEF JniStop, world, android, history, native
  <2>2. /\ \A u \in Threads : u # t => todo'[u] = todo[u]
        /\ ~ Clear(todo[t]) /\ ~ First(todo'[t], "join") /\ ~ First(todo'[t], "wait")
    BY <1>24, JniStopMoves
  <2>3. \A u \in Threads : Joiners(todo'[u]) \subseteq Joiners(todo[u])
    BY <2>2 DEF Joiners
  <2>4. binder' = binder \/ ~ Clear(binder)
    BY <2>2 DEF binder
  <2>5. WaitKept
    BY <2>3, <2>4 DEF WaitKept
  <2> QED
    BY <2>1, <2>5, WaitQuiet
<1>25. ASSUME NEW t \in Threads, ServiceStop(t) PROVE WaitInv'
  <2>1. CASE Gone("crashed")
    BY <2>1, GoneFresh, WaitFresh
  <2>2. CASE ~ Gone("crashed")
    BY <1>25, <2>2, WaitServiceStop
  <2> QED
    BY <2>1, <2>2
<1>26. ASSUME NEW t \in Threads, Join(t) PROVE WaitInv'
  <2>1. CASE joined
    BY <1>26, <2>1, GoneFresh, WaitFresh DEF Join
  <2>2. CASE ~ joined
    <3>1. UNCHANGED <<trojanService, trojan, io_stopped, revoked, starts>>
      BY <1>26, <2>2 DEF Join, world, android, history
    <3>2. /\ \A u \in Threads : u # t => todo'[u] = todo[u]
          /\ First(todo[t], "join") /\ ~ Clear(todo[t])
      BY <1>26, <2>2, JoinMoves
    <3>3. \A u \in Threads : Joiners(todo'[u]) # {} => Joiners(todo[u]) # {}
      BY <3>2 DEF Joiners
    <3>4. binder' = binder \/ ~ Clear(binder)
      BY <3>2 DEF binder
    <3>5. \A u \in Threads : Joiners(todo'[u]) # {} =>
            io_stopped' \/ (u = "main" /\ revoked' /\ starts' > 1)
      BY <3>1, <3>3, WaitFacts
    <3>6. trojanService' = "freed" /\ trojan' \in {"loading", "binding"} =>
            /\ revoked' /\ starts' > 1
            /\ Clear(binder') /\ ~ In(binder', "wait") /\ ~ In(binder', "delete")
      BY <3>1, <3>4 DEF WaitInv
    <3> QED
      BY <3>5, <3>6 DEF WaitInv, Joiners
  <2> QED
    BY <2>1, <2>2
<1>27. ASSUME NEW t \in Threads, Wait(t) PROVE WaitInv'
  <2>1. /\ At(t, "wait") /\ Done(t)
        /\ UNCHANGED <<trojanService, trojan, io_stopped, revoked, starts>>
    BY <1>27 DEF Wait, world, android, history, native
  <2> QED
    BY <2>1, <1>p
<1>28. ASSUME NEW t \in Threads, Delete(t) PROVE WaitInv'
  <2>1. /\ At(t, "delete") /\ Done(t) /\ UNCHANGED <<trojan, io_stopped, revoked, starts>>
    BY <1>28 DEF Delete, world, android, history
  <2>2. trojan = "exited"
    BY <2>1, Who DEF StopInv
  <2>3. WaitKept
    BY <2>1, WaitPop
  <2>4. \A u \in Threads : Joiners(todo'[u]) # {} =>
          io_stopped' \/ (u = "main" /\ revoked' /\ starts' > 1)
    BY <2>1, <2>3, WaitFacts DEF WaitKept
  <2> QED
    BY <2>1, <2>2, <2>4 DEF WaitInv, Joiners
<1> QED
  BY <1>1, <1>2, <1>3, <1>4, <1>5, <1>6, <1>7, <1>8, <1>9, <1>10, <1>11, <1>12, <1>13, <1>14,
     <1>15, <1>16, <1>17, <1>18, <1>19, <1>20, <1>21, <1>22, <1>23, <1>24, <1>25, <1>26, <1>27,
     <1>28, Cases

-----------------------------------------------------------------------------
(* The port of trojan.                                                     *)

(* A start does not forget its ports, trojan, or what is in front of it,   *)
(* and does not become one under STARTED.                                  *)
PortKept ==
  /\ Final(main', "return") => Final(main, "return")
  /\ \A x \in {"ports", "trojan", "front"} :
       Final(main', "return") /\ In(main, x) => In(main', x)
  /\ Final(main', "return") /\ In(main', "front") /\ ~ First(main', "STARTING") =>
       state' # "STARTED" \/ (In(main, "front") /\ ~ First(main, "STARTING"))

(* Where a start forgets nothing, PortInv stays.                           *)
LEMMA PortQuiet ==
  ASSUME PortInv, PortKept, UNCHANGED <<ports, listen_port>>,
         trojan' = "none" <=> trojan = "none",
         trojan' \in {"binding", "made", "running", "exited"} =>
           trojan \in {"binding", "made", "running", "exited"},
         state' = "STARTED" => state = "STARTED"
  PROVE  PortInv'
BY DEF PortInv, PortKept, ports

LEMMA PortSame ==
  ASSUME UNCHANGED main
  PROVE  PortKept
BY DEF PortKept

(* The steps that forget nothing.                                          *)
LEMMA PortPop ==
  ASSUME TypeOK, ListInv, NEW t \in Threads, NEW x, At(t, x), Done(t),
         x \notin {"ports", "trojan", "front"}, x = "STARTING" => state' # "STARTED"
  PROVE  PortKept
<1>1. CASE t = "main"
  <2>1. First(main, x)
    BY <1>1, Who DEF main
  <2>2. First(main, "STARTING") => x = "STARTING"
    BY <2>1 DEF First
  <2> QED
    BY <1>1, <2>2, PopMoves DEF PortKept, main
<1>2. CASE t # "main"
  BY <1>2, PopMoves, PortSame, ThreadNames DEF main
<1> QED
  BY <1>1, <1>2

LEMMA PortEmpty ==
  ASSUME Fresh
  PROVE  PortInv'
<1>1. trojan' = "none" /\ state' = "NONE" /\ \A x : ~ Final(main', x)
  BY FreshLists, EmptyList, ThreadNames DEF Fresh, main
<1> QED
  BY <1>1 DEF PortInv

LEMMA PortMain ==
  ASSUME ~ Final(main', "return")
  PROVE  PortKept
BY DEF PortKept

(* After the step, a start has only what comes behind it in the program.   *)
LEMMA Behind ==
  ASSUME NEW s \in Seq(StepNames), Program(s)
  PROVE  /\ First(s, "ports") => In(s, "trojan") /\ In(Tail(s), "trojan") /\ In(Tail(s), "front")
         /\ First(s, "trojan") => ~ In(s, "ports")
         /\ First(s, "STARTED") => ~ In(s, "ports") /\ ~ In(s, "trojan") /\ ~ In(s, "front")
<1>1. ASSUME s # << >>
      PROVE  /\ Len(s) \in Nat /\ DOMAIN s = 1 .. Len(s) /\ DOMAIN Tail(s) = 1 .. Len(s) - 1
             /\ \A i \in DOMAIN Tail(s) : Tail(s)[i] = s[i + 1]
             /\ 1 \in DOMAIN s
  BY <1>1, TailFacts
<1>2. ASSUME First(s, "ports")
      PROVE  In(s, "trojan") /\ In(Tail(s), "trojan") /\ In(Tail(s), "front")
  <2>1. s # << >> /\ s[1] = "ports"
    BY <1>2 DEF First
  <2>2. PICK j, k \in DOMAIN s : 1 < j /\ s[j] = "trojan" /\ 1 < k /\ s[k] = "front"
    BY <1>1, <2>1 DEF Program, Ahead
  <2>3. /\ j - 1 \in DOMAIN Tail(s) /\ (j - 1) + 1 = j
        /\ k - 1 \in DOMAIN Tail(s) /\ (k - 1) + 1 = k
    BY <1>1, <2>1, <2>2
  <2>4. Tail(s)[j - 1] = "trojan" /\ Tail(s)[k - 1] = "front"
    BY <1>1, <2>1, <2>2, <2>3
  <2> QED
    BY <2>2, <2>3, <2>4 DEF In
<1>3. ASSUME NEW i \in DOMAIN s, s # << >>
      PROVE  /\ s[1] = "trojan" => s[i] # "ports"
             /\ s[1] = "STARTED" => s[i] \notin {"ports", "trojan", "front"}
  <2>1. i = 1 \/ 1 < i
    BY <1>1, <1>3
  <2>2. 1 \in DOMAIN s
    BY <1>1, <1>3
  <2>3. CASE i = 1
    BY <2>3
  <2>4. CASE 1 < i
    BY <1>3, <2>2, <2>4 DEF Program, Ordered
  <2> QED
    BY <2>1, <2>3, <2>4
<1> QED
  BY <1>2, <1>3 DEF First, In

(* The choice of the ports comes before trojan, its front, and STARTED.    *)
LEMMA PortChoose ==
  ASSUME TypeOK, ListInv, PortInv, ChoosePorts
  PROVE  PortInv'
<1> USE ThreadNames
<1>1. /\ At("main", "ports") /\ Done("main") /\ config_port' = trojan_port'
      /\ UNCHANGED <<trojan, state, kept, revoked>>
  BY DEF ChoosePorts, world, history, service, native
<1>2. /\ main \in Seq(StepNames) /\ Program(main) /\ First(main, "ports") /\ Final(main, "return")
      /\ todo["main"] # << >>
  BY <1>1, Who DEF main, Opening
<1>3. main' = Tail(main)
  BY <1>1, <1>2, PopLists DEF main
<1>4. In(main', "trojan") /\ In(main', "front")
  BY <1>2, <1>3, Behind
<1>5. In(main, "front")
  BY <1>1, <1>4, PopMoves DEF main
<1>6. ~ First(main, "STARTING")
  BY <1>2 DEF First
<1>7. state # "STARTED"
  BY <1>2, <1>5, <1>6 DEF PortInv
<1> QED
  BY <1>1, <1>4, <1>7 DEF PortInv

(* Trojan is made with the ports chosen, or the start knows that it kept   *)
(* an earlier one.                                                         *)
LEMMA PortTrojan ==
  ASSUME TypeOK, ListInv, ThreadInv, PortInv, JniTrojan
  PROVE  PortInv'
<1> USE ThreadNames
<1>1. /\ At("main", "trojan") /\ Done("main") /\ kept' = trojanThread
      /\ UNCHANGED <<trojan_port, upstream, config_port, state, listen_port>>
      /\ trojan' = IF trojanThread THEN trojan ELSE "loading"
  BY DEF JniTrojan, service, native
<1>2. main \in Seq(StepNames) /\ Program(main) /\ First(main, "trojan") /\ Final(main, "return")
  BY <1>1, Who DEF main, Opening
<1>3. ~ In(main, "ports") /\ ~ First(main, "STARTING")
  BY <1>2, Behind DEF First
<1>4. /\ Final(main', "return") => Final(main, "return")
      /\ \A y : In(main, y) => In(main', y) \/ y = "trojan"
      /\ \A y : In(main', y) => In(main, y)
  BY <1>1, PopMoves DEF main
<1>5. trojan' # "none" /\ config_port' = trojan_port'
  BY <1>1, <1>2, <1>3 DEF PortInv, ThreadInv
<1>6. trojan' \in {"binding", "made", "running", "exited"} => kept'
  BY <1>1
<1> QED
  BY <1>1, <1>2, <1>3, <1>4, <1>5, <1>6 DEF PortInv

(* Its front is given its port.                                            *)
LEMMA PortFront ==
  ASSUME TypeOK, ListInv, PortInv, Front
  PROVE  PortInv'
<1> USE ThreadNames
<1>1. /\ At("main", "front") /\ Done("main") /\ upstream' = trojan_port
      /\ UNCHANGED <<state, listen_port, trojan_port, config_port, kept, trojan>>
  BY DEF Front, native
<1>2. /\ Final(main', "return") => Final(main, "return")
      /\ \A y : In(main, y) => In(main', y) \/ y = "front"
      /\ \A y : In(main', y) => In(main, y)
  BY <1>1, PopMoves DEF main
<1>3. First(main, "front") /\ ~ First(main, "STARTING")
  BY <1>1, Who DEF main, First
<1> QED
  BY <1>1, <1>2, <1>3 DEF PortInv

(* STARTED is said after that.                                             *)
LEMMA PortAssign ==
  ASSUME TypeOK, ListInv, PortInv, NEW t \in Threads, Assign(t)
  PROVE  PortInv'
<1> USE ThreadNames
<1>1. PICK s \in States : At(t, s) /\ Done(t) /\ state' = s
  BY DEF Assign
<1>2. UNCHANGED <<ports, listen_port, trojan>>
  BY DEF Assign, native
<1>3. PortKept
  BY <1>1, PortPop DEF States
<1>4. CASE s = "STARTED"
  <2>1. /\ t = "main" /\ main \in Seq(StepNames) /\ Program(main) /\ First(main, "STARTED")
        /\ Final(main, "return")
    BY <1>1, <1>4, Who DEF Opening, main
  <2>2. ~ In(main, "ports") /\ ~ In(main, "trojan") /\ ~ In(main, "front")
    BY <2>1, Behind
  <2> QED
    BY <1>2, <1>3, <2>1, <2>2 DEF PortInv, PortKept, ports
<1>5. CASE s # "STARTED"
  BY <1>1, <1>2, <1>3, <1>5, PortQuiet
<1> QED
  BY <1>4, <1>5

(* Every step keeps PortInv.                                               *)
LEMMA PortStep ==
  ASSUME TypeOK, ListInv, ThreadInv, PortInv, Next
  PROVE  PortInv'
<1> USE ThreadNames
<1>p. ASSUME NEW t \in Threads, NEW x, At(t, x), Done(t),
             x \notin {"ports", "trojan", "front", "STARTING"},
             UNCHANGED <<ports, listen_port, trojan, state>>
      PROVE  PortInv'
  BY <1>p, PortPop, PortQuiet
<1>1. CASE StartRequest
  BY <1>1, PortSame, PortQuiet DEF StartRequest, java, service, native, main
<1>2. CASE StopRequest
  BY <1>2, PortSame, PortQuiet DEF StopRequest, java, service, native, main
<1>3. CASE Create
  BY <1>3, PortEmpty DEF Create
<1>4. CASE Unbind
  BY <1>4, PortSame, PortQuiet DEF Unbind, java, service, native, main
<1>5. CASE OnRevoke
  <2>1. main' = main
    BY <1>5, StopFacts, Update DEF OnRevoke, main
  <2> QED
    BY <1>5, <2>1, PortSame, PortQuiet DEF OnRevoke, android, service, native
<1>6. CASE Test
  <2>1. main' = main
    BY <1>6 DEF Test, main, TypeOK
  <2> QED
    BY <1>6, <2>1, PortSame, PortQuiet DEF Test, service, native
<1>7. CASE Handle
  <2>1. UNCHANGED <<ports, listen_port, trojan, state>>
    BY <1>7 DEF Handle, service, native
  <2>2. \/ /\ In(main', "ports") /\ In(main', "trojan") /\ In(main', "front")
           /\ First(main', "STARTING")
        \/ ~ Final(main', "return")
    BY <1>7, HandleMoves
  <2> QED
    BY <2>1, <2>2 DEF PortInv, ports
<1>8. CASE Rules
  <2>1. PortKept
    BY <1>8, RulesMoves DEF PortKept, First
  <2> QED
    BY <1>8, <2>1, PortQuiet DEF Rules, service, native
<1>9. CASE Establish
  <2>1. /\ At("main", "establish")
        /\ UNCHANGED <<ports, listen_port, trojan, state>>
    BY <1>9 DEF Establish, native
  <2>2. CASE Done("main")
    BY <2>1, <2>2, <1>p
  <2>3. CASE ~ Done("main")
    BY <1>9, <2>1, <2>3, EstablishMoves, PortMain, PortQuiet
  <2> QED
    BY <2>2, <2>3
<1>10. CASE ChoosePorts
  BY <1>10, PortChoose
<1>11. CASE JniTrojan
  BY <1>11, PortTrojan
<1>12. CASE Front
  BY <1>12, PortFront
<1>13. CASE Return
  <2>1. /\ At("main", "return") /\ Done("main")
        /\ UNCHANGED <<ports, listen_port, trojan, state>>
    BY <1>13 DEF Return, service, native
  <2> QED
    BY <2>1, <1>p
<1>14. CASE Load
  <2>1. /\ trojan = "loading" /\ trojan' = "binding" /\ listen_port' = config_port
        /\ UNCHANGED <<todo, ports, state>>
    BY <1>14 DEF Load, java, service, world, android
  <2> QED
    BY <2>1 DEF PortInv, ports, main
<1>15. CASE MakeService
  <2>1. CASE Gone("crashed")
    BY <2>1, GoneFresh, PortEmpty
  <2>2. CASE ~ Gone("crashed")
    <3>1. /\ trojan = "binding" /\ trojan' = "made"
          /\ UNCHANGED <<todo, ports, listen_port, state>>
      BY <1>15, <2>2 DEF MakeService, java, service, world, android
    <3> QED
      BY <3>1, PortSame, PortQuiet DEF main
  <2> QED
    BY <2>1, <2>2
<1>16. CASE RunService
  <2>1. /\ trojan = "made" /\ trojan' = "running"
        /\ UNCHANGED <<todo, ports, listen_port, state>>
    BY <1>16 DEF RunService, ServiceRun, java, service, world, android
  <2> QED
    BY <2>1, PortSame, PortQuiet DEF main
<1>17. CASE Exit
  <2>1. /\ trojan = "running" /\ trojan' = "exited"
        /\ UNCHANGED <<todo, ports, listen_port, state>>
    BY <1>17 DEF Exit, java, service, world, android
  <2> QED
    BY <2>1, PortSame, PortQuiet DEF main
<1>18. ASSUME NEW t \in Threads, Assign(t) PROVE PortInv'
  BY <1>18, PortAssign
<1>19. ASSUME NEW t \in Threads, BeginBroadcast(t) PROVE PortInv'
  <2>1. PICK x \in {"begin", "result", "refusal"} :
          /\ At(t, x)
          /\ \/ Throw(t)
             \/ Done(t) /\ UNCHANGED <<ports, listen_port, trojan, state>>
    BY <1>19 DEF BeginBroadcast, service, native
  <2>2. CASE Gone("crashed")
    BY <2>2, GoneFresh, PortEmpty
  <2>3. CASE /\ t = "binder" \/ At(t, "refusal")
             /\ todo' = [todo EXCEPT ![t] = << >>]
             /\ UNCHANGED <<world, service, talk, ports, native>>
    BY <2>3, ThrowKept, PortSame, PortQuiet DEF service, native
  <2>4. CASE Done(t) /\ UNCHANGED <<ports, listen_port, trojan, state>>
    BY <2>1, <2>4, <1>p
  <2> QED
    BY <2>1, <2>2, <2>3, <2>4, ThrowCases
<1>20. ASSUME NEW t \in Threads, FinishBroadcast(t) PROVE PortInv'
  <2>1. At(t, "finish") /\ Done(t) /\ UNCHANGED <<ports, listen_port, trojan, state>>
    BY <1>20 DEF FinishBroadcast, android, service, native
  <2> QED
    BY <2>1, <1>p
<1>21. ASSUME NEW t \in Threads, Close(t) PROVE PortInv'
  <2>1. At(t, "close") /\ Done(t) /\ UNCHANGED <<ports, listen_port, trojan, state>>
    BY <1>21 DEF Close, native
  <2> QED
    BY <2>1, <1>p
<1>22. ASSUME NEW t \in Threads, StopSelf(t) PROVE PortInv'
  <2>1. At(t, "stopSelf") /\ Done(t) /\ UNCHANGED <<ports, listen_port, trojan, state>>
    BY <1>22 DEF StopSelf, service, native
  <2> QED
    BY <2>1, <1>p
<1>23. ASSUME NEW t \in Threads, Kill(t) PROVE PortInv'
  BY <1>23, GoneFresh, PortEmpty DEF Kill
<1>24. ASSUME NEW t \in Threads, JniStop(t) PROVE PortInv'
  <2>1. UNCHANGED <<ports, listen_port, trojan, state>>
    BY <1>24 DEF JniStop, service, native
  <2>2. CASE t = "main"
    <3>1. ~ Final(main', "return")
      BY <1>24, <2>2, JniStopMoves, OneFinal DEF main
    <3> QED
      BY <2>1, <3>1, PortMain, PortQuiet
  <2>3. CASE t # "main"
    BY <1>24, <2>1, <2>3, JniStopMoves, PortSame, PortQuiet DEF main
  <2> QED
    BY <2>2, <2>3
<1>25. ASSUME NEW t \in Threads, ServiceStop(t) PROVE PortInv'
  <2>1. CASE Gone("crashed")
    BY <2>1, GoneFresh, PortEmpty
  <2>2. CASE ~ Gone("crashed")
    <3>1. At(t, "serviceStop") /\ Done(t) /\ UNCHANGED <<ports, listen_port, trojan, state>>
      BY <1>25, <2>2 DEF ServiceStop, service
    <3> QED
      BY <3>1, <1>p
  <2> QED
    BY <2>1, <2>2
<1>26. ASSUME NEW t \in Threads, Join(t) PROVE PortInv'
  <2>1. CASE joined
    BY <1>26, <2>1, GoneFresh, PortEmpty DEF Join
  <2>2. CASE ~ joined
    <3>1. UNCHANGED <<ports, listen_port, trojan, state>>
      BY <1>26, <2>2 DEF Join, service
    <3>2. CASE t = "main"
      <4>1. ~ Final(main', "return")
        BY <1>26, <2>2, <3>2, JoinMoves, OneFinal DEF main
      <4> QED
        BY <3>1, <4>1, PortMain, PortQuiet
    <3>3. CASE t # "main"
      BY <1>26, <2>2, <3>1, <3>3, JoinMoves, PortSame, PortQuiet DEF main
    <3> QED
      BY <3>2, <3>3
  <2> QED
    BY <2>1, <2>2
<1>27. ASSUME NEW t \in Threads, Wait(t) PROVE PortInv'
  <2>1. At(t, "wait") /\ Done(t) /\ UNCHANGED <<ports, listen_port, trojan, state>>
    BY <1>27 DEF Wait, service, native
  <2> QED
    BY <2>1, <1>p
<1>28. ASSUME NEW t \in Threads, Delete(t) PROVE PortInv'
  <2>1. At(t, "delete") /\ Done(t) /\ UNCHANGED <<ports, listen_port, trojan, state>>
    BY <1>28 DEF Delete, service
  <2> QED
    BY <2>1, <1>p
<1> QED
  BY <1>1, <1>2, <1>3, <1>4, <1>5, <1>6, <1>7, <1>8, <1>9, <1>10, <1>11, <1>12, <1>13, <1>14,
     <1>15, <1>16, <1>17, <1>18, <1>19, <1>20, <1>21, <1>22, <1>23, <1>24, <1>25, <1>26, <1>27,
     <1>28, Cases

(* Only the choice of the ports, and the end of the process, touch them.   *)
LEMMA PortsSame ==
  ASSUME Next
  PROVE  ChoosePorts \/ clash_port' = NoPort \/ UNCHANGED <<trojan_port, clash_port>>
<1>1. CASE StartRequest \/ StopRequest \/ Unbind \/ OnRevoke \/ Test \/ Handle
  BY <1>1 DEF StartRequest, StopRequest, Unbind, OnRevoke, Test, Handle, ports
<1>2. CASE Create
  BY <1>2 DEF Create, Fresh
<1>3. CASE Rules \/ Establish \/ JniTrojan \/ Front \/ Return
  BY <1>3 DEF Rules, Establish, JniTrojan, Front, Return, ports
<1>4. CASE Load \/ RunService \/ Exit
  BY <1>4 DEF Load, RunService, Exit, ports
<1>5. ASSUME NEW how, Gone(how) PROVE clash_port' = NoPort
  BY <1>5 DEF Gone, Fresh
<1>6. CASE MakeService
  BY <1>5, <1>6 DEF MakeService, ports
<1>7. ASSUME NEW t \in Threads,
             \/ Assign(t) \/ FinishBroadcast(t) \/ Close(t) \/ StopSelf(t)
             \/ JniStop(t) \/ Wait(t) \/ Delete(t)
      PROVE  UNCHANGED <<trojan_port, clash_port>>
  BY <1>7 DEF Assign, FinishBroadcast, Close, StopSelf, JniStop, Wait, Delete, ports
<1>8. ASSUME NEW t \in Threads, Kill(t) \/ ServiceStop(t) \/ Join(t)
      PROVE  clash_port' = NoPort \/ UNCHANGED <<trojan_port, clash_port>>
  BY <1>5, <1>8 DEF Kill, ServiceStop, Join, ports
<1>9. ASSUME NEW t \in Threads, BeginBroadcast(t)
      PROVE  clash_port' = NoPort \/ UNCHANGED <<trojan_port, clash_port>>
  BY <1>5, <1>9, ThrowCases DEF BeginBroadcast, ports
<1> QED
  BY <1>1, <1>2, <1>3, <1>4, <1>6, <1>7, <1>8, <1>9, Cases

(* Only the choice of the ports could make them equal.                     *)
LEMMA DifferStep ==
  ASSUME ~ FreeportFails, PortsDiffer, Next
  PROVE  PortsDiffer'
<1>1. CASE ChoosePorts
  <2>1. PICK s \in Settings : \E p \in TrojanPorts(s) : \E c \in ClashPorts(s, p) :
          trojan_port' = p /\ clash_port' = c
    BY <1>1 DEF ChoosePorts
  <2>2. \A p \in TrojanPorts(s) : \A c \in ClashPorts(s, p) : c = NoPort \/ c # p
    <3>1. \A n : Leftover(FallbackClash, n) = {}
      BY DEF Leftover
    <3> QED
      BY <3>1 DEF TrojanPorts, ClashPorts, FreeExcept
  <2> QED
    BY <2>1, <2>2 DEF PortsDiffer
<1>2. CASE ~ ChoosePorts
  BY <1>2, PortsSame DEF PortsDiffer
<1> QED
  BY <1>1, <1>2

-----------------------------------------------------------------------------
(* The inductive invariant.                                                *)
SafetyInv ==
  TypeOK /\ ListInv /\ ThreadInv /\ StopInv /\ WaitInv /\ StartInv /\ OffInv /\ KillInv /\ PortInv

(* It holds in the beginning,                                              *)
LEMMA InitInv ==
  ASSUME Init
  PROVE  SafetyInv /\ PortsDiffer
<1>1. /\ \A t \in Threads : todo[t] = << >>
      /\ main = << >> /\ binder = << >> /\ inbox = << >> /\ Waiting = {}
  BY ThreadNames DEF Init, Idle, main, binder, Waiting
<1>2. \A t \in Threads : \A x : ~ In(todo[t], x) /\ ~ First(todo[t], x) /\ ~ Final(todo[t], x)
  BY <1>1, EmptyList
<1>3. \A x : ~ In(main, x) /\ ~ First(main, x) /\ ~ Final(main, x)
  BY <1>2, ThreadNames DEF main
<1>4. trojan = "none" /\ trojanService = "null" /\ ~ joined /\ ~ trojanThread
      /\ ~ requested /\ starts = 0 /\ stop_ended = "no" /\ state = "NONE" /\ ~ revoked
  BY DEF Init
<1>5. TypeOK
  <2>1. todo \in [Threads -> Seq(StepNames)] /\ inbox \in Seq({"start", "stop"})
    BY DEF Init, Idle
  <2>2. telling \in [Threads -> States]
    BY DEF Init, States
  <2>3. WorldType
    <3>1. starts \in 0 .. MaxStarts /\ stops \in 0 .. MaxStops
      BY SettingsAssumption DEF Init
    <3>2. /\ requested = FALSE /\ bound = TRUE /\ proc = FALSE /\ died = "no" /\ stop_ended = "no"
          /\ revoked = FALSE /\ heard = "NONE"
      BY DEF Init
    <3> QED
      BY <2>1, <3>1, <3>2 DEF WorldType, States
  <2>4. ServiceType /\ PortsType /\ NativeType
    BY DEF Init, ServiceType, PortsType, NativeType, States
  <2>5. TalkType
    BY <2>2 DEF Init, TalkType
  <2> QED
    BY <1>4, <2>1, <2>3, <2>4, <2>5, TypeParts DEF TodoType
<1>6. ListInv
  BY <1>1, <1>2, <1>3, EmptyList, ThreadNames DEF ListInv
<1>7. ThreadInv
  BY <1>4 DEF ThreadInv
<1>8. StopInv
  BY <1>2, <1>3 DEF StopInv
<1>9. WaitInv
  BY <1>2, <1>4 DEF WaitInv
<1>10. StartInv
  BY <1>1, <1>3, <1>4 DEF StartInv
<1>11. OffInv
  BY <1>1, <1>4 DEF OffInv
<1>12. KillInv
  BY <1>1 DEF KillInv
<1>13. PortInv
  BY <1>3, <1>4 DEF PortInv
<1>14. PortsDiffer
  BY DEF Init, PortsDiffer
<1> QED
  BY <1>5, <1>6, <1>7, <1>8, <1>9, <1>10, <1>11, <1>12, <1>13, <1>14 DEF SafetyInv

(* where nothing changes,                                                  *)
LEMMA QuietInv ==
  ASSUME SafetyInv, UNCHANGED vars
  PROVE  SafetyInv'
<1>1. UNCHANGED <<world, service, talk, todo, ports, native>>
  BY DEF vars, java
<1>2. UNCHANGED <<android, history, proc, main, binder, Waiting>>
  BY <1>1 DEF world, android, main, binder, Waiting
<1>3. TypeOK'
  BY <1>1, <1>2 DEF SafetyInv, TypeOK, android, history, service, talk, ports, native
<1>4. ListInv' /\ ThreadInv' /\ StopInv'
  BY <1>1, <1>2 DEF SafetyInv, ListInv, ThreadInv, StopInv, Through, history, native
<1>5. WaitInv' /\ StartInv'
  BY <1>1, <1>2 DEF SafetyInv, WaitInv, StartInv, android, history, native
<1>6. OffInv' /\ KillInv' /\ PortInv'
  BY <1>1, <1>2 DEF SafetyInv, OffInv, KillInv, PortInv, android, history, service, talk, ports, native
<1> QED
  BY <1>3, <1>4, <1>5, <1>6 DEF SafetyInv

(* and after every step.                                                   *)
LEMMA StepInv ==
  ASSUME SafetyInv, [Next]_vars
  PROVE  SafetyInv'
<1>1. CASE Next
  <2>1. TypeOK /\ ListInv /\ ThreadInv /\ StopInv /\ WaitInv /\ StartInv
        /\ OffInv /\ KillInv /\ PortInv
    BY DEF SafetyInv
  <2>2. ListInv' /\ TodoType'
    BY <1>1, <2>1, ListStep
  <2>3. ThreadInv' /\ StopInv'
    BY <1>1, <2>1, ThreadStep
  <2>4. TypeOK'
    BY <1>1, <2>1, <2>2, <2>3, TypeStep
  <2>5. WaitInv' /\ StartInv'
    BY <1>1, <2>1, WaitStep, StartStep
  <2>6. OffInv' /\ KillInv' /\ PortInv'
    BY <1>1, <2>1, OffStep, KillStep, PortStep
  <2> QED
    BY <2>2, <2>3, <2>4, <2>5, <2>6 DEF SafetyInv
<1>2. CASE UNCHANGED vars
  BY <1>2, QuietInv
<1> QED
  BY <1>1, <1>2

(* So it always holds.                                                     *)
LEMMA Safety == Spec => []SafetyInv
<1>1. Init => SafetyInv
  BY InitInv
<1>2. SafetyInv /\ [Next]_vars => SafetyInv'
  BY StepInv
<1> QED
  BY <1>1, <1>2, PTL DEF Spec

-----------------------------------------------------------------------------
(* The results.                                                            *)

(* Every variable keeps its type, through crashes and restarts; while      *)
(* trojan is made or runs, the glue holds its Service.                     *)
THEOREM TypeCorrect == Spec => []TypeOK
<1>1. SafetyInv => TypeOK
  BY DEF SafetyInv
<1> QED
  BY <1>1, Safety, PTL

(* A stop that got as far as stopSelf is final: no sticky restart, no      *)
(* start delivered again and no thread brings the proxy back before the    *)
(* user's next request.                                                    *)
THEOREM StaysOff == Spec => []OffOnceStopped
<1>1. SafetyInv => OffOnceStopped
  BY DEF SafetyInv, OffInv, OffOnceStopped
<1> QED
  BY <1>1, Safety, PTL

(* Whoever joins the trojan thread in stop() has stopped its io_context,   *)
(* so the join ends, but for the one exception that WaitEnds names.        *)
THEOREM WaitsEnd == Spec => []WaitEnds
<1>1. SafetyInv => WaitEnds
  <2>1. SUFFICES ASSUME SafetyInv, NEW t \in Threads, At(t, "wait")
                 PROVE  io_stopped \/ (t = "main" /\ revoked /\ starts > 1)
    BY DEF WaitEnds
  <2>2. First(todo[t], "wait")
    BY <2>1, Who DEF SafetyInv
  <2> QED
    BY <2>1, <2>2 DEF SafetyInv, WaitInv
<1> QED
  BY <1>1, Safety, PTL

(* The process crashes for one of the causes that CrashCauses lists and no *)
(* other, whatever the settings, the tests and the revocations.            *)
THEOREM CrashesKnown == Spec => CrashCauses
<1>1. SafetyInv /\ [Next]_vars =>
        [Ends("crashed") =>
           \/ trojan \in {"loading", "binding"} \/ broadcasting
           \/ Running("main", "kill") /\ revoked]_vars
  BY Crashes DEF SafetyInv
<1> QED
  BY <1>1, Safety, PTL DEF Spec, CrashCauses

(* A bound client has heard STOPPED last when the process kills itself,    *)
(* unless onRevoke was called in it.                                       *)
THEOREM StoppedIsHeard == Spec => KilledSaysStopped
<1>1. SafetyInv /\ [Next]_vars =>
        [Ends("killed") /\ bound /\ ~ revoked => heard = "STOPPED"]_vars
  BY KilledSays DEF SafetyInv
<1> QED
  BY <1>1, Safety, PTL DEF Spec, KilledSaysStopped

(* Clash or tun2socks is given the port that trojan listens on, whatever   *)
(* Freeport draws and the user sets, in every start that makes a trojan    *)
(* thread, however many came before it in this process or another.         *)
THEOREM PortsAgree == Spec => []PortReached
<1>1. SafetyInv => PortReached
  BY DEF SafetyInv, PortInv, PortReached
<1> QED
  BY <1>1, Safety, PTL

(* While Freeport does not fail, clash and trojan never share a port.      *)
THEOREM PortsDifferAlways ==
  ASSUME ~ FreeportFails
  PROVE  Spec => []PortsDiffer
<1>1. Init => PortsDiffer
  BY InitInv
<1>2. PortsDiffer /\ [Next]_vars => PortsDiffer'
  <2>1. PortsDiffer /\ UNCHANGED vars => PortsDiffer'
    BY DEF PortsDiffer, vars, ports
  <2> QED
    BY <2>1, DifferStep
<1> QED
  BY <1>1, <1>2, PTL DEF Spec

-----------------------------------------------------------------------------
(* The refinement of ProxyStates. First, what a client sees of a list: the *)
(* function Outline, and what it makes of the programs.                    *)
Name(x) == IF x = "finish" THEN "tell" ELSE x
Shown(x) == IF x \in Told THEN <<Name(x)>> ELSE << >>
Names == StepNames \cup {"tell"}

(* Induction over the numbers, by the pigeonhole principle: had it a gap x,*)
(* the successor would map the members up to x into, but not onto, them.   *)
LEMMA Induction ==
  ASSUME NEW S, 0 \in S, \A n \in Nat : n \in S => n + 1 \in S
  PROVE  Nat \subseteq S
<1>1. SUFFICES ASSUME NEW x \in Nat, x \notin S PROVE FALSE
  OBVIOUS
<1> DEFINE A == {y \in 0 .. x : y \in S}
           f == [y \in A |-> y + 1]
<1>2. \A y \in A : y + 1 \in A
  BY <1>1
<1>3. IsFiniteSet(A) /\ 0 \in A
  <2>1. IsFiniteSet(0 .. x) /\ A \subseteq 0 .. x /\ 0 \in A
    BY FS_Interval
  <2> HIDE DEF A
  <2> QED
    BY <2>1, FS_Subset
<1>4. f \in [A -> A] /\ \A y \in A : f[y] = y + 1
  BY <1>2
<1>5. \A y \in A : y \in Nat
  OBVIOUS
<1> HIDE DEF A, f
<1>6. f \in Injection(A, A)
  BY <1>4, <1>5 DEF Injection, IsInjective
<1>7. f \in Surjection(A, A)
  BY <1>3, <1>6, FS_Injection
<1>8. PICK y \in A : f[y] = 0
  BY <1>3, <1>7, ZenonT(30) DEF Surjection
<1> QED
  BY <1>4, <1>5, <1>8

(* What is seen of a list, step by step: the function that Outline names   *)
(* exists.                                                                 *)
LEMMA OutlineFunction ==
  ASSUME NEW s \in Seq(StepNames)
  PROVE  \E g : /\ g = [n \in 0 .. Len(s) |->
                          IF n = 0 THEN << >>
                          ELSE IF s[n] \notin Told THEN g[n - 1]
                          ELSE Append(g[n - 1], IF s[n] = "finish" THEN "tell" ELSE s[n])]
                /\ Outline(s) = g[Len(s)]
<1> DEFINE Of(g, k) == [n \in 0 .. k |->
                          IF n = 0 THEN << >>
                          ELSE IF s[n] \notin Told THEN g[n - 1]
                          ELSE Append(g[n - 1], IF s[n] = "finish" THEN "tell" ELSE s[n])]
           N == {k \in Nat : \E g : g = Of(g, k)}
<1>1. 0 \in N
  <2> DEFINE g == [n \in 0 .. 0 |-> << >>]
  <2>1. g = Of(g, 0)
    OBVIOUS
  <2>2. QED BY <2>1
<1>2. ASSUME NEW k \in Nat, k \in N PROVE k + 1 \in N
  <2>1. PICK g : g = Of(g, k)
    BY <1>2
  <2> DEFINE v == IF s[k + 1] \notin Told THEN g[k]
                  ELSE Append(g[k], IF s[k + 1] = "finish" THEN "tell" ELSE s[k + 1])
             h == [n \in 0 .. k + 1 |-> IF n = k + 1 THEN v ELSE g[n]]
  <2>2. ASSUME NEW n \in 0 .. k + 1
        PROVE  h[n] = Of(h, k + 1)[n]
    <3>1. CASE n = k + 1
      <4>1. h[n - 1] = g[k]
        BY <3>1
      <4>2. QED BY <3>1, <4>1
    <3>2. CASE n # k + 1
      <4>1. n \in 0 .. k /\ h[n] = g[n] /\ (n # 0 => h[n - 1] = g[n - 1])
        BY <3>2
      <4>2. g[n] = Of(g, k)[n]
        BY <2>1
      <4> QED BY <4>1, <4>2
    <3>3. QED BY <3>1, <3>2
  <2>3. h = Of(h, k + 1)
    BY <2>2
  <2> HIDE DEF h, Of
  <2>4. k + 1 \in Nat /\ \E f : f = Of(f, k + 1)
    BY <2>3
  <2>5. QED BY <2>4
<1>3. Len(s) \in N
  <2> HIDE DEF N
  <2>1. Nat \subseteq N
    BY <1>1, <1>2, Induction, ZenonT(30)
  <2>2. QED BY <2>1
<1> DEFINE rest == CHOOSE g : g = Of(g, Len(s))
<1>4. rest = Of(rest, Len(s))
  BY <1>3
<1>5. Outline(s) = rest[Len(s)]
  BY Zenon DEF Outline
<1>6. QED BY <1>4, <1>5

(* A list and what is seen of its first n steps.                           *)
Unfolds(g, s) ==
  /\ g[0] = << >>
  /\ \A n \in 1 .. Len(s) : g[n] = g[n - 1] \o Shown(s[n])
  /\ \A n \in 0 .. Len(s) : g[n] \in Seq(Names)

LEMMA ShownFacts ==
  ASSUME NEW x \in StepNames
  PROVE  Shown(x) \in Seq(Names)
<1>1. PICK y \in Names : y = Name(x)
  BY DEF Name, Names
<1>2. << >> \in Seq(Names) /\ <<y>> \in Seq(Names)
  OBVIOUS
<1> QED
  BY <1>1, <1>2 DEF Shown

LEMMA OutlineUnfolds ==
  ASSUME NEW s \in Seq(StepNames)
  PROVE  \E g : Unfolds(g, s) /\ Outline(s) = g[Len(s)]
<1>1. PICK g : /\ g = [n \in 0 .. Len(s) |->
                          IF n = 0 THEN << >>
                          ELSE IF s[n] \notin Told THEN g[n - 1]
                          ELSE Append(g[n - 1], IF s[n] = "finish" THEN "tell" ELSE s[n])]
               /\ Outline(s) = g[Len(s)]
  BY OutlineFunction
<1>2. g[0] = << >>
  BY <1>1
<1>3. ASSUME NEW n \in 1 .. Len(s)
      PROVE  g[n] = IF s[n] \notin Told THEN g[n - 1] ELSE Append(g[n - 1], Name(s[n]))
  <2>1. n \in 0 .. Len(s) /\ n # 0
    OBVIOUS
  <2>2. QED BY <1>1, <2>1 DEF Name
<1>4. ASSUME NEW n \in 1 .. Len(s), g[n - 1] \in Seq(Names)
      PROVE  g[n] \in Seq(Names) /\ g[n] = g[n - 1] \o Shown(s[n])
  <2>1. s[n] \in StepNames /\ Name(s[n]) \in Names
    BY DEF Name, Names
  <2>2. CASE s[n] \in Told
    <3>1. g[n] = Append(g[n - 1], Name(s[n])) /\ Shown(s[n]) = <<Name(s[n])>>
      BY <1>3, <2>2 DEF Shown
    <3>2. Append(g[n - 1], Name(s[n])) = g[n - 1] \o <<Name(s[n])>>
      BY <1>4, <2>1, AppendIsConcat
    <3> QED
      BY <1>4, <2>1, <3>1, <3>2
  <2>3. CASE s[n] \notin Told
    <3>1. g[n] = g[n - 1] /\ Shown(s[n]) = << >>
      BY <1>3, <2>3 DEF Shown
    <3> QED
      BY <1>4, <3>1, ConcatEmptySeq
  <2> QED
    BY <2>2, <2>3
<1> DEFINE N == {n \in Nat : n <= Len(s) => g[n] \in Seq(Names)}
<1>5. 0 \in N
  <2>1. << >> \in Seq(Names)
    OBVIOUS
  <2> QED
    BY <1>2, <2>1
<1>6. ASSUME NEW n \in Nat, n \in N PROVE n + 1 \in N
  <2>1. SUFFICES ASSUME n + 1 <= Len(s) PROVE g[n + 1] \in Seq(Names)
    OBVIOUS
  <2>2. n + 1 \in 1 .. Len(s) /\ (n + 1) - 1 = n /\ g[n] \in Seq(Names)
    BY <1>6, <2>1
  <2> QED
    BY <1>4, <2>2
<1> HIDE DEF N
<1>7. Nat \subseteq N
  BY <1>5, <1>6, Induction
<1>8. \A n \in 0 .. Len(s) : g[n] \in Seq(Names)
  BY <1>7 DEF N
<1>9. \A n \in 1 .. Len(s) : g[n] = g[n - 1] \o Shown(s[n])
  <2> TAKE n \in 1 .. Len(s)
  <2>1. n - 1 \in 0 .. Len(s)
    OBVIOUS
  <2> QED
    BY <1>4, <1>8, <2>1
<1> QED
  BY <1>1, <1>2, <1>8, <1>9 DEF Unfolds

LEMMA OutlineType ==
  ASSUME NEW s \in Seq(StepNames)
  PROVE  Outline(s) \in Seq(Names)
<1>1. PICK g : Unfolds(g, s) /\ Outline(s) = g[Len(s)]
  BY OutlineUnfolds
<1>2. Len(s) \in 0 .. Len(s)
  OBVIOUS
<1> QED
  BY <1>1, <1>2 DEF Unfolds

(* Two sequences that grow by the same pieces, one of them from nothing.   *)
Grow(a, b, c, p, l) ==
  /\ l \in Nat /\ p \in Seq(Names) /\ a[0] = p /\ b[0] = << >>
  /\ \A n \in 0 .. l : b[n] \in Seq(Names)
  /\ \A n \in 1 .. l : /\ c[n] \in Seq(Names)
                        /\ a[n] = a[n - 1] \o c[n]
                        /\ b[n] = b[n - 1] \o c[n]

LEMMA SameGrowth ==
  ASSUME NEW l, NEW p, NEW a, NEW b, NEW c, Grow(a, b, c, p, l)
  PROVE  a[l] = p \o b[l]
<1>0. /\ l \in Nat /\ p \in Seq(Names) /\ a[0] = p /\ b[0] = << >>
      /\ \A n \in 0 .. l : b[n] \in Seq(Names)
      /\ \A n \in 1 .. l : /\ c[n] \in Seq(Names)
                            /\ a[n] = a[n - 1] \o c[n]
                            /\ b[n] = b[n - 1] \o c[n]
  BY DEF Grow
<1> DEFINE N == {n \in Nat : n <= l => a[n] = p \o b[n]}
<1>1. 0 \in N
  <2>1. p \o << >> = p
    BY <1>0, ConcatEmptySeq
  <2> QED
    BY <1>0, <2>1
<1>2. ASSUME NEW n \in Nat, n \in N PROVE n + 1 \in N
  <2> DEFINE k == n + 1
  <2>1. k \in Nat /\ k - 1 = n
    OBVIOUS
  <2>2. CASE k <= l
    <3>1. k \in 1 .. l /\ n \in 0 .. l /\ n <= l
      BY <1>0, <2>2
    <3>2. a[n] = p \o b[n]
      BY <1>2, <3>1
    <3> HIDE DEF k, N
    <3>3. a[k] = (p \o b[n]) \o c[k]
      BY <1>0, <2>1, <3>1, <3>2
    <3>4. b[k] = b[n] \o c[k] /\ b[n] \in Seq(Names) /\ c[k] \in Seq(Names)
      BY <1>0, <2>1, <3>1
    <3>5. (p \o b[n]) \o c[k] = p \o (b[n] \o c[k])
      <4>1. \A x, y, z \in Seq(Names) : (x \o y) \o z = x \o (y \o z)
        BY ConcatAssociative
      <4> QED
        BY <1>0, <3>4, <4>1
    <3>6. a[k] = p \o b[k]
      BY <3>3, <3>4, <3>5
    <3> QED
      BY <2>1, <3>6 DEF k, N
  <2> QED
    BY <2>1, <2>2
<1> HIDE DEF N
<1>3. l \in N
  BY <1>0, <1>1, <1>2, Induction
<1> QED
  BY <1>0, <1>3 DEF N

(* Of two lists in a row, what is seen of one and of the other.            *)
LEMMA OutlineConcat ==
  ASSUME NEW u \in Seq(StepNames), NEW v \in Seq(StepNames)
  PROVE  Outline(u \o v) = Outline(u) \o Outline(v)
<1>1. PICK w \in Seq(StepNames) : Joined(u, v, w)
  BY Concatenation
<1>2. PICK m \in Nat, l \in Nat : m = Len(u) /\ l = Len(v)
  OBVIOUS
<1>3. /\ w = u \o v /\ Len(w) = m + l
      /\ \A i \in 1 .. m : w[i] = u[i] /\ u[i] \in StepNames
      /\ \A i \in 1 .. l : w[m + i] = v[i] /\ v[i] \in StepNames
  BY <1>1, <1>2 DEF Joined
<1>4. PICK g : Unfolds(g, u) /\ Outline(u) = g[m]
  BY <1>2, OutlineUnfolds
<1>5. PICK h : Unfolds(h, v) /\ Outline(v) = h[l]
  BY <1>2, OutlineUnfolds
<1>6. PICK k : Unfolds(k, w) /\ Outline(w) = k[m + l]
  BY <1>3, OutlineUnfolds
<1>7. /\ g[0] = << >> /\ \A n \in 1 .. m : g[n] = g[n - 1] \o Shown(u[n])
      /\ \A n \in 0 .. m : g[n] \in Seq(Names)
  BY <1>2, <1>4 DEF Unfolds
<1>8. /\ h[0] = << >> /\ \A n \in 1 .. l : h[n] = h[n - 1] \o Shown(v[n])
      /\ \A n \in 0 .. l : h[n] \in Seq(Names)
  BY <1>2, <1>5 DEF Unfolds
<1>9. k[0] = << >> /\ \A n \in 1 .. m + l : k[n] = k[n - 1] \o Shown(w[n])
  BY <1>3, <1>6 DEF Unfolds
<1>10. k[m] = g[m]
  <2> DEFINE c == [n \in 1 .. m |-> Shown(u[n])]
  <2>1. \A n \in 1 .. m : c[n] = Shown(u[n]) /\ c[n] \in Seq(Names)
    BY <1>3, ShownFacts
  <2>2. \A n \in 1 .. m : n \in 1 .. m + l
    OBVIOUS
  <2>3. \A n \in 1 .. m : /\ c[n] \in Seq(Names)
                          /\ k[n] = k[n - 1] \o c[n]
                          /\ g[n] = g[n - 1] \o c[n]
    BY <1>3, <1>7, <1>9, <2>1, <2>2
  <2>4. << >> \in Seq(Names) /\ m \in 0 .. m
    OBVIOUS
  <2> HIDE DEF c
  <2>5. Grow(k, g, c, << >>, m)
    BY <1>7, <1>9, <2>3, <2>4 DEF Grow
  <2>6. k[m] = << >> \o g[m]
    BY <2>5, SameGrowth
  <2> QED
    BY <1>7, <2>4, <2>6, ConcatEmptySeq
<1>11. k[m + l] = g[m] \o h[l]
  <2> DEFINE c == [n \in 1 .. l |-> Shown(v[n])]
             a == [n \in 0 .. l |-> k[m + n]]
  <2>1. \A n \in 1 .. l : c[n] = Shown(v[n]) /\ c[n] \in Seq(Names)
    BY <1>3, ShownFacts
  <2>2. ASSUME NEW n \in 1 .. l
        PROVE  a[n] = a[n - 1] \o c[n] /\ h[n] = h[n - 1] \o c[n]
    <3>1. PICK x : x = m + n
      OBVIOUS
    <3>2. x \in 1 .. m + l /\ x - 1 = m + (n - 1) /\ n \in 0 .. l /\ n - 1 \in 0 .. l
      BY <3>1
    <3>3. a[n] = k[x] /\ a[n - 1] = k[x - 1] /\ w[x] = v[n]
      BY <1>3, <3>1, <3>2
    <3> HIDE DEF a, c
    <3> QED
      BY <1>8, <1>9, <2>1, <3>2, <3>3
  <2>3. a[0] = k[m] /\ a[l] = k[m + l] /\ m \in 0 .. m
    OBVIOUS
  <2> HIDE DEF a, c
  <2>4. a[0] = g[m] /\ g[m] \in Seq(Names)
    BY <1>7, <1>10, <2>3
  <2>5. Grow(a, h, c, g[m], l)
    BY <1>8, <2>1, <2>2, <2>4 DEF Grow
  <2>6. a[l] = g[m] \o h[l]
    BY <2>5, SameGrowth
  <2> QED
    BY <2>3, <2>6
<1> QED
  BY <1>3, <1>4, <1>5, <1>6, <1>11

LEMMA OutlineOne ==
  /\ Outline(<< >>) = << >>
  /\ \A x \in StepNames : Outline(<<x>>) = Shown(x)
<1>1. Outline(<< >>) = << >>
  <2>1. PICK s \in Seq(StepNames) : s = << >> /\ Len(s) = 0
    <3>1. << >> \in Seq(StepNames) /\ Len(<< >>) = 0
      OBVIOUS
    <3> QED
      BY <3>1
  <2>2. PICK g : Unfolds(g, s) /\ Outline(s) = g[Len(s)]
    BY OutlineUnfolds
  <2> QED
    BY <2>1, <2>2 DEF Unfolds
<1>2. ASSUME NEW x \in StepNames PROVE Outline(<<x>>) = Shown(x)
  <2>1. PICK s \in Seq(StepNames) : s = <<x>> /\ Len(s) = 1 /\ s[1] = x
    BY Single
  <2>2. PICK g : Unfolds(g, s) /\ Outline(s) = g[Len(s)]
    BY OutlineUnfolds
  <2>3. g[0] = << >> /\ 1 \in 1 .. Len(s) /\ 1 - 1 = 0
    BY <2>1, <2>2 DEF Unfolds
  <2>4. g[1] = g[0] \o Shown(x)
    BY <2>1, <2>2, <2>3 DEF Unfolds
  <2>5. << >> \o Shown(x) = Shown(x)
    BY ShownFacts, ConcatEmptySeq
  <2> QED
    BY <2>1, <2>2, <2>3, <2>4, <2>5
<1> QED
  BY <1>1, <1>2

(* What is seen of a list is seen of its first step, then of the others.   *)
LEMMA OutlineTail ==
  ASSUME NEW s \in Seq(StepNames), s # << >>
  PROVE  /\ Tail(s) \in Seq(StepNames)
         /\ s[1] \notin Told => Outline(Tail(s)) = Outline(s)
         /\ s[1] \in Told => /\ Outline(s) # << >> /\ Head(Outline(s)) = Name(s[1])
                             /\ Outline(Tail(s)) = Tail(Outline(s))
<1>1. PICK q \in Seq(StepNames) : q = Tail(s)
  BY TailFacts
<1>2. PICK x \in StepNames : x = s[1]
  BY TailFacts
<1>3. s = <<x>> \o q
  BY <1>1, <1>2, HeadTailProperties
<1>4. Outline(s) = Shown(x) \o Outline(q)
  BY <1>3, Single, OutlineConcat, OutlineOne
<1>5. PICK o \in Seq(Names) : o = Outline(q)
  BY OutlineType
<1>6. CASE x \notin Told
  <2>1. Shown(x) = << >>
    BY <1>6 DEF Shown
  <2>2. << >> \o o = o
    BY ConcatEmptySeq
  <2> QED
    BY <1>1, <1>2, <1>4, <1>5, <1>6, <2>1, <2>2
<1>7. CASE x \in Told
  <2>1. Shown(x) = <<Name(x)>> /\ Name(x) \in Names
    BY <1>7 DEF Shown, Name, Names
  <2>2. PICK y \in Names : y = Name(x)
    BY <2>1
  <2>3. <<y>> \o o # << >> /\ Head(<<y>> \o o) = y /\ Tail(<<y>> \o o) = o
    OBVIOUS
  <2> QED
    BY <1>1, <1>2, <1>4, <1>5, <1>7, <2>1, <2>2, <2>3
<1> QED
  BY <1>6, <1>7

(* What is seen of the programs.                                           *)
LEMMA OutlineSetState ==
  ASSUME NEW x \in States
  PROVE  Outline(SetState(x)) = <<x, "tell">>
<1>1. x \in StepNames /\ "begin" \in StepNames /\ "finish" \in StepNames
  BY NamesFacts
<1>2. x \in Told /\ x # "finish" /\ "finish" \in Told /\ "begin" \notin Told
  BY DEF Told, States
<1>3. SetState(x) = (<<x>> \o <<"begin">>) \o <<"finish">>
  BY <1>1 DEF SetState
<1>4. /\ <<x>> \in Seq(StepNames) /\ <<"begin">> \in Seq(StepNames) /\ <<"finish">> \in Seq(StepNames)
      /\ <<x>> \o <<"begin">> \in Seq(StepNames)
  BY <1>1, Single, Concat
<1>5. Outline(SetState(x)) = (Shown(x) \o Shown("begin")) \o Shown("finish")
  <2>1. Outline((<<x>> \o <<"begin">>) \o <<"finish">>)
          = Outline(<<x>> \o <<"begin">>) \o Outline(<<"finish">>)
    BY <1>4, OutlineConcat
  <2>2. Outline(<<x>> \o <<"begin">>) = Outline(<<x>>) \o Outline(<<"begin">>)
    BY <1>4, OutlineConcat
  <2>3. /\ Outline(<<x>>) = Shown(x) /\ Outline(<<"begin">>) = Shown("begin")
        /\ Outline(<<"finish">>) = Shown("finish")
    BY <1>1, OutlineOne
  <2> QED
    BY <1>3, <2>1, <2>2, <2>3
<1>6. Shown(x) = <<x>> /\ Shown("begin") = << >> /\ Shown("finish") = <<"tell">>
  BY <1>2 DEF Shown, Name
<1>7. (<<x>> \o << >>) \o <<"tell">> = <<x, "tell">>
  <2>1. <<x>> \o << >> = <<x>>
    BY <1>4, ConcatEmptySeq
  <2>2. <<x, "tell">> = <<x>> \o <<"tell">>
    OBVIOUS
  <2> QED
    BY <2>1, <2>2
<1> QED
  BY <1>5, <1>6, <1>7

LEMMA OutlineStop ==
  /\ Outline(Stop) = Process!Stop
  /\ Outline(Destruction) = <<"STOPPED", "tell">> \o Process!Stop
<1>1. /\ <<"close">> \in Seq(StepNames) /\ <<"nativeStop">> \in Seq(StepNames)
      /\ <<"stopSelf">> \in Seq(StepNames) /\ <<"kill">> \in Seq(StepNames)
      /\ "close" \in StepNames /\ "nativeStop" \in StepNames
      /\ "stopSelf" \in StepNames /\ "kill" \in StepNames
  BY NamesFacts
<1>2. "STOPPING" \in States /\ "STOPPED" \in States
  BY DEF States
<1> DEFINE a == SetState("STOPPING")  c == SetState("STOPPED")
           b == <<"close", "nativeStop", "stopSelf">>
<1>3. a \in Seq(StepNames) /\ c \in Seq(StepNames)
  BY <1>2, SetStateFacts
<1>4. b \in Seq(StepNames) /\ Outline(b) = <<"stopSelf">>
  <2>1. b = (<<"close">> \o <<"nativeStop">>) \o <<"stopSelf">>
    OBVIOUS
  <2>2. <<"close">> \o <<"nativeStop">> \in Seq(StepNames) /\ b \in Seq(StepNames)
    BY <1>1
  <2>3. Outline(b) = (Outline(<<"close">>) \o Outline(<<"nativeStop">>)) \o Outline(<<"stopSelf">>)
    <3>1. Outline(<<"close">> \o <<"nativeStop">>) = Outline(<<"close">>) \o Outline(<<"nativeStop">>)
      BY <1>1, OutlineConcat
    <3>2. Outline((<<"close">> \o <<"nativeStop">>) \o <<"stopSelf">>)
            = Outline(<<"close">> \o <<"nativeStop">>) \o Outline(<<"stopSelf">>)
      BY <1>1, <2>2, OutlineConcat
    <3> QED
      BY <2>1, <3>1, <3>2
  <2>4. /\ Outline(<<"close">>) = << >> /\ Outline(<<"nativeStop">>) = << >>
        /\ Outline(<<"stopSelf">>) = <<"stopSelf">>
    BY <1>1, OutlineOne DEF Shown, Name, Told, States
  <2> QED
    BY <2>2, <2>3, <2>4
<1>5. Outline(<<"kill">>) = <<"kill">>
  BY <1>1, OutlineOne DEF Shown, Name, Told, States
<1>6. Outline(a) = <<"STOPPING", "tell">> /\ Outline(c) = <<"STOPPED", "tell">>
  BY <1>2, OutlineSetState
<1>7. Stop = ((a \o b) \o c) \o <<"kill">> /\ Stop \in Seq(StepNames)
  BY StopFacts DEF Stop, Shutdown
<1> HIDE DEF a, b, c
<1>8. a \o b \in Seq(StepNames) /\ (a \o b) \o c \in Seq(StepNames)
  BY <1>3, <1>4
<1>9. Outline(Stop) = ((Outline(a) \o Outline(b)) \o Outline(c)) \o Outline(<<"kill">>)
  <2>1. Outline(Stop) = Outline((a \o b) \o c) \o Outline(<<"kill">>)
    BY <1>1, <1>7, <1>8, OutlineConcat
  <2>2. Outline((a \o b) \o c) = Outline(a \o b) \o Outline(c)
    BY <1>3, <1>8, OutlineConcat
  <2>3. Outline(a \o b) = Outline(a) \o Outline(b)
    BY <1>3, <1>4, OutlineConcat
  <2> QED
    BY <2>1, <2>2, <2>3
<1>10. Outline(Stop) = ((<<"STOPPING", "tell">> \o <<"stopSelf">>) \o <<"STOPPED", "tell">>) \o <<"kill">>
  BY <1>4, <1>5, <1>6, <1>9
<1>11. Outline(Stop) = <<"STOPPING", "tell", "stopSelf", "STOPPED", "tell", "kill">>
  <2>1. <<"STOPPING", "tell", "stopSelf">> = <<"STOPPING", "tell">> \o <<"stopSelf">>
    OBVIOUS
  <2>2. <<"STOPPING", "tell", "stopSelf", "STOPPED", "tell">> =
    <<"STOPPING", "tell", "stopSelf">> \o <<"STOPPED", "tell">>
    OBVIOUS
  <2>3. <<"STOPPING", "tell", "stopSelf", "STOPPED", "tell", "kill">> =
    <<"STOPPING", "tell", "stopSelf", "STOPPED", "tell">> \o <<"kill">>
    OBVIOUS
  <2> QED
    BY <1>10, <2>1, <2>2, <2>3
<1>12. Process!Stop = <<"STOPPING", "tell", "stopSelf", "STOPPED", "tell", "kill">>
  <2>1. <<"STOPPING", "tell", "stopSelf", "STOPPED", "tell", "kill">> =
    <<"STOPPING", "tell", "stopSelf">> \o <<"STOPPED", "tell", "kill">>
    OBVIOUS
  <2> QED
    BY <2>1 DEF Process!Stop, Process!Ended
<1>13. Outline(Destruction) = <<"STOPPED", "tell">> \o Outline(Stop)
  BY <1>3, <1>6, <1>7, OutlineConcat DEF Destruction, c
<1> QED
  BY <1>11, <1>12, <1>13

(* Nothing is seen of JNIHelper.stop.                                      *)
LEMMA OutlineNative == NativeStop \in Seq(StepNames) /\ Outline(NativeStop) = << >>
<1>1. /\ "serviceStop" \in StepNames /\ "join" \in StepNames /\ "delete" \in StepNames
  BY NamesFacts
<1>2. PICK a \in Seq(StepNames), b \in Seq(StepNames), c \in Seq(StepNames) :
        a = <<"serviceStop">> /\ b = <<"join">> /\ c = <<"delete">>
  BY <1>1, Single
<1>3. Outline(a) = << >> /\ Outline(b) = << >> /\ Outline(c) = << >>
  BY <1>1, <1>2, OutlineOne DEF Shown, Told, States
<1>4. PICK ab \in Seq(StepNames) : ab = a \o b
  BY Concat
<1>5. NativeStop = ab \o c
  BY <1>2, <1>4 DEF NativeStop
<1>6. Outline(NativeStop) = (<< >> \o << >>) \o << >>
  <2>1. Outline(ab) = Outline(a) \o Outline(b)
    BY <1>4, OutlineConcat
  <2>2. Outline(ab \o c) = Outline(ab) \o Outline(c)
    BY OutlineConcat
  <2> QED
    BY <1>3, <1>5, <2>1, <2>2
<1>7. << >> \o << >> = << >>
  BY <1>3, OutlineType, ConcatEmptySeq
<1> QED
  BY <1>5, <1>6, <1>7, Concat

(* What is left of a start from the rules on, and from establish on.       *)
Remainder == <<"ports", "trojan", "front">> \o SetState("STARTED") \o <<"return">>

(* Concatenation as an operator of which only these facts are used.        *)
Cat(p, q) == p \o q

LEMMA CatFacts ==
  /\ \A p, q \in Seq(StepNames) : Cat(p, q) \in Seq(StepNames)
  /\ \A p, q, s \in Seq(StepNames) : Cat(Cat(p, q), s) = Cat(p, Cat(q, s))
<1>1. ASSUME NEW p \in Seq(StepNames), NEW q \in Seq(StepNames)
      PROVE  Cat(p, q) \in Seq(StepNames)
  BY <1>1, Concat DEF Cat
<1>2. ASSUME NEW p \in Seq(StepNames), NEW q \in Seq(StepNames), NEW s \in Seq(StepNames)
      PROVE  Cat(Cat(p, q), s) = Cat(p, Cat(q, s))
  BY <1>2, ConcatAssociative DEF Cat
<1> QED
  BY <1>1, <1>2

(* The parts of a start may be joined from the left or from the right.     *)
LEMMA Regroup ==
  ASSUME NEW a \in Seq(StepNames), NEW b \in Seq(StepNames), NEW c \in Seq(StepNames),
         NEW x \in Seq(StepNames), NEW y \in Seq(StepNames), NEW z \in Seq(StepNames)
  PROVE  Cat(Cat(Cat(a, Cat(x, Cat(y, b))), c), z) = Cat(a, Cat(x, Cat(y, Cat(Cat(b, c), z))))
<1>1. /\ Cat(y, b) \in Seq(StepNames) /\ Cat(x, Cat(y, b)) \in Seq(StepNames)
      /\ Cat(a, Cat(x, Cat(y, b))) \in Seq(StepNames) /\ Cat(c, z) \in Seq(StepNames)
  BY CatFacts
<1>2. Cat(Cat(Cat(a, Cat(x, Cat(y, b))), c), z) = Cat(Cat(a, Cat(x, Cat(y, b))), Cat(c, z))
  BY <1>1, CatFacts
<1>3. Cat(Cat(a, Cat(x, Cat(y, b))), Cat(c, z)) = Cat(a, Cat(Cat(x, Cat(y, b)), Cat(c, z)))
  BY <1>1, CatFacts
<1>4. Cat(Cat(x, Cat(y, b)), Cat(c, z)) = Cat(x, Cat(Cat(y, b), Cat(c, z)))
  BY <1>1, CatFacts
<1>5. Cat(Cat(y, b), Cat(c, z)) = Cat(y, Cat(b, Cat(c, z)))
  BY <1>1, CatFacts
<1>6. Cat(b, Cat(c, z)) = Cat(Cat(b, c), z)
  BY CatFacts
<1> QED
  BY <1>2, <1>3, <1>4, <1>5, <1>6

LEMMA OutlineStart ==
  /\ Outline(Remainder) = Process!Begun /\ Remainder \in Seq(StepNames)
  /\ OnStartCommand =
       SetState("STARTING") \o (<<"rules">> \o (<<"establish">> \o Remainder))
  /\ Outline(<<"establish">> \o Remainder) = Process!Begun
  /\ Outline(<<"rules">> \o (<<"establish">> \o Remainder)) = Process!Begun
  /\ Outline(OnStartCommand) = Process!Start
  /\ Outline(SetState("STOPPED") \o (<<"establish">> \o Remainder))
       = <<"STOPPED", "tell">> \o Process!Begun
<1> DEFINE a == SetState("STARTING")  c == SetState("STARTED")
           b == <<"ports", "trojan", "front">>
<1>1. /\ "rules" \in StepNames /\ "establish" \in StepNames /\ "ports" \in StepNames
      /\ "trojan" \in StepNames /\ "front" \in StepNames /\ "return" \in StepNames
  BY NamesFacts
<1>2. /\ <<"rules">> \in Seq(StepNames) /\ <<"establish">> \in Seq(StepNames)
      /\ <<"ports">> \in Seq(StepNames) /\ <<"trojan">> \in Seq(StepNames)
      /\ <<"front">> \in Seq(StepNames) /\ <<"return">> \in Seq(StepNames)
      /\ b \in Seq(StepNames)
  BY <1>1
<1>3. a \in Seq(StepNames) /\ c \in Seq(StepNames) /\ SetState("STOPPED") \in Seq(StepNames)
  BY SetStateFacts DEF States
<1>4. /\ Outline(a) = <<"STARTING", "tell">> /\ Outline(c) = <<"STARTED", "tell">>
      /\ Outline(SetState("STOPPED")) = <<"STOPPED", "tell">>
  BY OutlineSetState DEF States
<1>5. /\ Outline(<<"rules">>) = << >> /\ Outline(<<"establish">>) = << >>
      /\ Outline(<<"ports">>) = << >> /\ Outline(<<"trojan">>) = << >>
      /\ Outline(<<"front">>) = << >> /\ Outline(<<"return">>) = <<"return">>
  BY <1>1, OutlineOne DEF Shown, Name, Told, States
<1>6. Outline(b) = << >>
  <2>1. b = (<<"ports">> \o <<"trojan">>) \o <<"front">>
    OBVIOUS
  <2>2. <<"ports">> \o <<"trojan">> \in Seq(StepNames)
    BY <1>2
  <2>3. Outline(b) = (Outline(<<"ports">>) \o Outline(<<"trojan">>)) \o Outline(<<"front">>)
    BY <1>2, <2>1, <2>2, OutlineConcat
  <2> QED
    BY <1>5, <2>3
<1>7. Remainder = (b \o c) \o <<"return">>
  BY DEF Remainder
<1>8. OnStartCommand = ((a \o <<"rules", "establish", "ports", "trojan", "front">>) \o c) \o <<"return">>
  BY DEF OnStartCommand
<1>9. <<"rules", "establish", "ports", "trojan", "front">> = <<"rules">> \o (<<"establish">> \o b)
  OBVIOUS
<1> HIDE DEF a, b, c
<1>10. b \o c \in Seq(StepNames) /\ Remainder \in Seq(StepNames)
  BY <1>2, <1>3, <1>7
<1>11. Outline(Remainder) = Process!Begun
  <2>1. Outline(Remainder) = (Outline(b) \o Outline(c)) \o Outline(<<"return">>)
    <3>1. Outline((b \o c) \o <<"return">>) = Outline(b \o c) \o Outline(<<"return">>)
      BY <1>2, <1>10, OutlineConcat
    <3>2. Outline(b \o c) = Outline(b) \o Outline(c)
      BY <1>2, <1>3, OutlineConcat
    <3> QED
      BY <1>7, <3>1, <3>2
  <2>2. (<< >> \o <<"STARTED", "tell">>) \o <<"return">> = <<"STARTED", "tell", "return">>
    <3>1. <<"STARTED", "tell">> \in Seq(Names)
      BY <1>3, <1>4, OutlineType
    <3>2. << >> \o <<"STARTED", "tell">> = <<"STARTED", "tell">>
      BY <3>1, ConcatEmptySeq
    <3>3. <<"STARTED", "tell", "return">> = <<"STARTED", "tell">> \o <<"return">>
      OBVIOUS
    <3> QED
      BY <3>2, <3>3
  <2> QED
    BY <1>4, <1>5, <1>6, <2>1, <2>2 DEF Process!Begun
<1> DEFINE e == <<"establish">> \o Remainder  r == <<"rules">> \o e
<1>12. e \in Seq(StepNames) /\ r \in Seq(StepNames)
  BY <1>2, <1>10
<1>13. Outline(e) = Process!Begun /\ Outline(r) = Process!Begun
  <2>1. Outline(e) = Outline(<<"establish">>) \o Outline(Remainder)
    BY <1>2, <1>10, OutlineConcat
  <2>2. Outline(r) = Outline(<<"rules">>) \o Outline(e)
    BY <1>2, <1>12, OutlineConcat
  <2>3. << >> \o Outline(Remainder) = Outline(Remainder)
    BY <1>10, OutlineType, ConcatEmptySeq
  <2> QED
    BY <1>5, <1>11, <2>1, <2>2, <2>3
<1>14. OnStartCommand = a \o r
  <2> DEFINE x == <<"rules">>  y == <<"establish">>  z == <<"return">>
  <2>1. x \in Seq(StepNames) /\ y \in Seq(StepNames) /\ z \in Seq(StepNames)
    BY <1>2
  <2>2. OnStartCommand = ((a \o (x \o (y \o b))) \o c) \o z /\ r = x \o (y \o ((b \o c) \o z))
    BY <1>7, <1>8, <1>9
  <2> HIDE DEF x, y, z, r, e
  <2>3. a \in Seq(StepNames) /\ b \in Seq(StepNames) /\ c \in Seq(StepNames)
    BY <1>2, <1>3
  <2>4. Cat(Cat(Cat(a, Cat(x, Cat(y, b))), c), z) = Cat(a, Cat(x, Cat(y, Cat(Cat(b, c), z))))
    BY <2>1, <2>3, Regroup, SMTT(30)
  <2>5. ((a \o (x \o (y \o b))) \o c) \o z = a \o (x \o (y \o ((b \o c) \o z)))
    BY <2>4 DEF Cat
  <2> QED
    BY <2>2, <2>5
<1>15. Outline(OnStartCommand) = Process!Start
  <2>1. Outline(OnStartCommand) = Outline(a) \o Outline(r)
    BY <1>3, <1>12, <1>14, OutlineConcat
  <2> QED
    BY <1>4, <1>13, <2>1 DEF Process!Start
<1>16. Outline(SetState("STOPPED") \o e) = <<"STOPPED", "tell">> \o Process!Begun
  BY <1>3, <1>4, <1>12, <1>13, OutlineConcat
<1> QED
  BY <1>10, <1>11, <1>13, <1>14, <1>15, <1>16 DEF a

-----------------------------------------------------------------------------
(* The lists of a start from the rules on, and from establish on.          *)
FromEstablish == <<"establish">> \o Remainder
FromRules     == <<"rules">> \o FromEstablish
Telling(q)    == {<<"begin">> \o (<<"finish">> \o q), <<"finish">> \o q, q}
Stopped       == <<"STOPPED">> \o (<<"begin">> \o (<<"finish">> \o FromEstablish))
AtRules       == {OnStartCommand} \cup Telling(FromRules)
AtEstablish   == {Stopped} \cup Telling(FromEstablish)

StartList(s) ==
  /\ In(s, "rules") => s \in AtRules
  /\ In(s, "establish") => s \in AtRules \cup AtEstablish

(* Which lists still have the rules or establish in them; a start that has *)
(* not come to the rules yet is STARTING; a dead process has no list.      *)
OutlineInv ==
  /\ StartList(main) /\ (main \in Telling(FromRules) => state = "STARTING")
  /\ ~ proc => state = "NONE" /\ main = << >>
  /\ ~ revoked

(* A step in front of a list.                                              *)
LEMMA ConsFacts ==
  ASSUME NEW x \in StepNames, NEW q \in Seq(StepNames)
  PROVE  /\ <<x>> \o q \in Seq(StepNames) /\ <<x>> \o q # << >>
         /\ Tail(<<x>> \o q) = q
         /\ \A y : First(<<x>> \o q, y) <=> y = x
         /\ \A y : In(<<x>> \o q, y) <=> y = x \/ In(q, y)
<1>1. PICK s \in Seq(StepNames) : s = <<x>> \o q
  BY Single, Concat
<1>2. s # << >> /\ Tail(s) = q /\ s[1] = x
  BY <1>1
<1>3. /\ DOMAIN s = 1 .. Len(s) /\ DOMAIN q = 1 .. Len(s) - 1 /\ Len(s) \in Nat /\ Len(s) >= 1
      /\ \A i \in DOMAIN q : q[i] = s[i + 1]
  BY <1>2, TailFacts
<1>4. ASSUME NEW y, In(s, y) PROVE y = x \/ In(q, y)
  <2>1. PICK i \in DOMAIN s : s[i] = y
    BY <1>4 DEF In
  <2>2. i # 1 => i - 1 \in DOMAIN q /\ (i - 1) + 1 = i
    BY <1>3
  <2> QED
    BY <1>2, <1>3, <2>1, <2>2 DEF In
<1>5. ASSUME NEW y, y = x \/ In(q, y) PROVE In(s, y)
  <2>1. 1 \in DOMAIN s /\ \A i \in DOMAIN q : i + 1 \in DOMAIN s
    BY <1>3
  <2> QED
    BY <1>2, <1>3, <1>5, <2>1 DEF In
<1> QED
  BY <1>1, <1>2, <1>4, <1>5 DEF First

(* The steps of these lists.                                               *)
LEMMA ListsFacts ==
  /\ Remainder \in Seq(StepNames) /\ FromEstablish \in Seq(StepNames)
  /\ FromRules \in Seq(StepNames)
  /\ ~ In(Remainder, "rules") /\ ~ In(Remainder, "establish")
  /\ ~ In(FromEstablish, "rules") /\ In(FromRules, "rules")
  /\ In(FromEstablish, "establish")
  /\ Tail(FromEstablish) = Remainder /\ Tail(FromRules) = FromEstablish
  /\ \A y : First(FromEstablish, y) <=> y = "establish"
  /\ \A y : First(FromRules, y) <=> y = "rules"
  /\ FromEstablish # << >> /\ FromRules # << >>
<1>1. /\ "rules" \in StepNames /\ "establish" \in StepNames
      /\ "ports" \in StepNames /\ "trojan" \in StepNames /\ "front" \in StepNames
      /\ "begin" \in StepNames /\ "finish" \in StepNames /\ "return" \in StepNames
      /\ "STARTED" \in StepNames
  BY NamesFacts DEF States
<1>2. Remainder \in Seq(StepNames)
  BY OutlineStart
<1>3. ~ In(Remainder, "rules") /\ ~ In(Remainder, "establish")
  <2> DEFINE b == <<"ports", "trojan", "front">>  c == SetState("STARTED")  d == <<"return">>
  <2>1. /\ b \in Seq(StepNames) /\ Len(b) = 3
        /\ b[1] = "ports" /\ b[2] = "trojan" /\ b[3] = "front"
    BY <1>1, Triple
  <2>2. /\ c \in Seq(StepNames) /\ Len(c) = 3
        /\ c[1] = "STARTED" /\ c[2] = "begin" /\ c[3] = "finish"
    BY SetStateFacts DEF States
  <2>3. d \in Seq(StepNames) /\ Len(d) = 1 /\ d[1] = "return"
    BY <1>1, Single
  <2>4. Remainder = (b \o c) \o d
    BY DEF Remainder
  <2> HIDE DEF b, c, d
  <2>5. PICK e \in Seq(StepNames) : Joined(b, c, e)
    BY <2>1, <2>2, Concatenation
  <2>6. PICK g \in Seq(StepNames) : Joined(e, d, g)
    BY <2>3, Concatenation
  <2>7. Remainder = g
    BY <2>4, <2>5, <2>6 DEF Joined
  <2>8. \A i \in DOMAIN e : e[i] \notin {"rules", "establish"}
    <3>1. /\ DOMAIN e = 1 .. 6
          /\ \A i \in 1 .. 3 : e[i] = b[i]
          /\ \A i \in 1 .. 3 : e[3 + i] = c[i]
      BY <2>1, <2>2, <2>5 DEF Joined
    <3>2. e[3 + 1] = c[1] /\ e[3 + 2] = c[2] /\ e[3 + 3] = c[3]
      BY <3>1
    <3> QED
      BY <2>1, <2>2, <3>1, <3>2
  <2>9. \A i \in DOMAIN g : g[i] \notin {"rules", "establish"}
    <3>1. Len(e) = 6 /\ DOMAIN e = 1 .. 6
      BY <2>1, <2>2, <2>5 DEF Joined
    <3>2. /\ DOMAIN g = 1 .. 7
          /\ \A i \in 1 .. 6 : g[i] = e[i]
          /\ \A i \in 1 .. 1 : g[6 + i] = d[i]
      <4>1. /\ DOMAIN g = 1 .. Len(e) + Len(d)
            /\ \A i \in 1 .. Len(e) : g[i] = e[i]
            /\ \A i \in 1 .. Len(d) : g[Len(e) + i] = d[i]
        BY <2>6 DEF Joined
      <4>2. Len(e) + Len(d) = 7
        BY <2>3, <3>1
      <4> QED
        BY <2>3, <3>1, <4>1, <4>2
    <3>3. g[6 + 1] = "return"
      BY <2>3, <3>2
    <3> QED
      BY <2>8, <3>1, <3>2, <3>3
  <2> QED
    BY <2>7, <2>9 DEF In
<1>4. /\ FromEstablish \in Seq(StepNames) /\ FromEstablish # << >>
      /\ Tail(FromEstablish) = Remainder
      /\ \A y : First(FromEstablish, y) <=> y = "establish"
      /\ ~ In(FromEstablish, "rules") /\ In(FromEstablish, "establish")
  BY <1>1, <1>2, <1>3, ConsFacts DEF FromEstablish
<1>5. /\ FromRules \in Seq(StepNames) /\ FromRules # << >>
      /\ Tail(FromRules) = FromEstablish
      /\ \A y : First(FromRules, y) <=> y = "rules"
      /\ In(FromRules, "rules")
  BY <1>1, <1>4, ConsFacts DEF FromRules
<1> QED
  BY <1>2, <1>3, <1>4, <1>5

(* A list while a state is told in front of it.                            *)
LEMMA TellingFacts ==
  ASSUME NEW q \in Seq(StepNames), NEW s \in Telling(q)
  PROVE  /\ s \in Seq(StepNames)
         /\ \A y : In(q, y) => In(s, y)
         /\ \A y : In(s, y) => In(q, y) \/ y = "begin" \/ y = "finish"
         /\ \/ s = q
            \/ Tail(s) \in Telling(q) /\ \A y : First(s, y) => y = "begin" \/ y = "finish"
<1>1. "begin" \in StepNames /\ "finish" \in StepNames
  BY NamesFacts
<1>2. PICK f \in Seq(StepNames) : f = <<"finish">> \o q
  BY <1>1, ConsFacts
<1>3. PICK b \in Seq(StepNames) : b = <<"begin">> \o f
  BY <1>1, ConsFacts
<1>4. Telling(q) = {b, f, q}
  BY <1>2, <1>3 DEF Telling
<1>5. Tail(f) = q /\ Tail(b) = f
  BY <1>1, <1>2, <1>3, ConsFacts
<1>6. /\ \A y : In(f, y) <=> y = "finish" \/ In(q, y)
      /\ \A y : First(f, y) <=> y = "finish"
  BY <1>1, <1>2, ConsFacts
<1>7. /\ \A y : In(b, y) <=> y = "begin" \/ In(f, y)
      /\ \A y : First(b, y) <=> y = "begin"
  BY <1>1, <1>3, ConsFacts
<1> QED
  BY <1>4, <1>5, <1>6, <1>7

(* What these lists begin and go on with.                                  *)
LEMMA StartLists ==
  /\ \A s \in AtRules :
       /\ In(s, "rules") /\ s \in Seq(StepNames) /\ s # << >>
       /\ First(s, "rules") => s = FromRules
       /\ ~ First(s, "establish")
       /\ s = FromRules \/ Tail(s) \in Telling(FromRules)
       /\ s = OnStartCommand <=> First(s, "STARTING")
  /\ \A s \in AtEstablish :
       /\ ~ In(s, "rules") /\ s \in Seq(StepNames) /\ s # << >>
       /\ First(s, "establish") => s = FromEstablish
       /\ s = FromEstablish \/ Tail(s) \in Telling(FromEstablish)
  /\ ~ First(OnStartCommand, "rules") /\ OnStartCommand \notin Telling(FromRules)
  /\ Stopped = SetState("STOPPED") \o FromEstablish
<1>1. /\ "begin" \in StepNames /\ "finish" \in StepNames
      /\ "STARTING" \in StepNames /\ "STOPPED" \in StepNames
  BY NamesFacts DEF States
<1>2. ASSUME NEW x \in States, NEW q \in Seq(StepNames)
      PROVE  SetState(x) \o q = <<x>> \o (<<"begin">> \o (<<"finish">> \o q))
  <2>1. x \in StepNames
    BY NamesFacts
  <2>2. SetState(x) = (<<x>> \o <<"begin">>) \o <<"finish">>
    BY DEF SetState
  <2>3. PICK a \in Seq(StepNames), b \in Seq(StepNames), c \in Seq(StepNames) :
          a = <<x>> /\ b = <<"begin">> /\ c = <<"finish">>
    BY <1>1, <2>1, Single
  <2>4. PICK ab \in Seq(StepNames) : ab = a \o b
    BY Concat
  <2>5. PICK cq \in Seq(StepNames) : cq = c \o q
    BY Concat
  <2>6. Cat(Cat(ab, c), q) = Cat(ab, Cat(c, q))
    BY CatFacts
  <2>7. Cat(Cat(a, b), cq) = Cat(a, Cat(b, cq))
    BY CatFacts
  <2>8. (ab \o c) \o q = ab \o (c \o q) /\ (a \o b) \o cq = a \o (b \o cq)
    BY <2>6, <2>7 DEF Cat
  <2> QED
    BY <2>2, <2>3, <2>4, <2>5, <2>8
<1> DEFINE r == <<"begin">> \o (<<"finish">> \o FromRules)
           e == <<"begin">> \o (<<"finish">> \o FromEstablish)
<1>3. r \in Telling(FromRules) /\ r \in Seq(StepNames) /\ e \in Telling(FromEstablish)
      /\ e \in Seq(StepNames)
  BY ListsFacts, TellingFacts DEF Telling
<1>4. OnStartCommand = <<"STARTING">> \o r
  <2>1. OnStartCommand = SetState("STARTING") \o FromRules
    BY OutlineStart DEF FromRules, FromEstablish
  <2> QED
    BY <1>2, <2>1, ListsFacts DEF States
<1>5. Stopped = <<"STOPPED">> \o e /\ Stopped = SetState("STOPPED") \o FromEstablish
  BY <1>2, ListsFacts DEF States, Stopped
<1> HIDE DEF r, e
<1>6. /\ OnStartCommand \in Seq(StepNames) /\ Tail(OnStartCommand) = r
      /\ \A y : First(OnStartCommand, y) <=> y = "STARTING"
      /\ OnStartCommand # << >> /\ \A y : In(r, y) => In(OnStartCommand, y)
  BY <1>1, <1>3, <1>4, ConsFacts
<1>7. /\ Stopped \in Seq(StepNames) /\ Tail(Stopped) = e
      /\ \A y : First(Stopped, y) <=> y = "STOPPED"
      /\ Stopped # << >> /\ \A y : In(Stopped, y) <=> y = "STOPPED" \/ In(e, y)
  BY <1>1, <1>3, <1>5, ConsFacts
<1>8. \A s \in Seq(StepNames) : In(s, "rules") \/ First(s, "establish") => s # << >>
  BY EmptyList
<1>9. \A s \in Telling(FromRules) :
       /\ In(s, "rules") /\ s \in Seq(StepNames) /\ s # << >>
       /\ First(s, "rules") => s = FromRules
       /\ ~ First(s, "establish") /\ ~ First(s, "STARTING")
       /\ s = FromRules \/ Tail(s) \in Telling(FromRules)
  <2> TAKE s \in Telling(FromRules)
  <2>1. s \in Seq(StepNames) /\ In(s, "rules") /\ s # << >>
    BY <1>8, ListsFacts, TellingFacts
  <2>2. CASE s = FromRules
    BY <2>1, <2>2, ListsFacts
  <2>3. CASE s # FromRules
    <3>1. Tail(s) \in Telling(FromRules) /\ \A y : First(s, y) => y = "begin" \/ y = "finish"
      BY <2>3, ListsFacts, TellingFacts
    <3> QED
      BY <2>1, <3>1
  <2> QED
    BY <2>2, <2>3
<1>10. \A s \in Telling(FromEstablish) :
       /\ ~ In(s, "rules") /\ s \in Seq(StepNames) /\ s # << >>
       /\ First(s, "establish") => s = FromEstablish
       /\ s = FromEstablish \/ Tail(s) \in Telling(FromEstablish)
  <2> TAKE s \in Telling(FromEstablish)
  <2>1. s \in Seq(StepNames) /\ ~ In(s, "rules")
    BY ListsFacts, TellingFacts
  <2>2. CASE s = FromEstablish
    BY <2>1, <2>2, ListsFacts
  <2>3. CASE s # FromEstablish
    <3>1. Tail(s) \in Telling(FromEstablish) /\ \A y : First(s, y) => y = "begin" \/ y = "finish"
      BY <2>3, ListsFacts, TellingFacts
    <3>2. s # << >>
      <4>1. In(FromEstablish, "establish") /\ FromEstablish \in Seq(StepNames)
        BY ListsFacts
      <4>2. In(s, "establish")
        BY <4>1, TellingFacts
      <4> QED
        BY <4>2, EmptyList
    <3> QED
      BY <2>1, <3>1, <3>2
  <2> QED
    BY <2>2, <2>3
<1>11. \A s \in AtRules : s = OnStartCommand \/ s \in Telling(FromRules)
  BY DEF AtRules
<1>12. \A s \in AtEstablish : s = Stopped \/ s \in Telling(FromEstablish)
  BY DEF AtEstablish
<1>13. In(OnStartCommand, "rules") /\ ~ In(Stopped, "rules")
  BY <1>3, <1>6, <1>7, <1>9, <1>10
<1> QED
  BY <1>3, <1>5, <1>6, <1>7, <1>9, <1>10, <1>11, <1>12, <1>13

(* A list that goes on.                                                    *)
LEMMA StartTail ==
  ASSUME NEW s \in Seq(StepNames), s # << >>, StartList(s)
  PROVE  /\ StartList(Tail(s))
         /\ Tail(s) \in Telling(FromRules) => s \in Telling(FromRules) \/ First(s, "STARTING")
<1>1. PICK q \in Seq(StepNames) : q = Tail(s)
  BY TailFacts
<1>2. \A y : In(q, y) => In(s, y)
  BY <1>1, TailPopped DEF Popped
<1>3. \A y : First(FromRules, y) <=> y = "rules"
  BY ListsFacts
<1>4. In(q, "rules") => q \in Telling(FromRules) /\ s \in AtRules
  <2>1. SUFFICES ASSUME In(q, "rules") PROVE q \in Telling(FromRules) /\ s \in AtRules
    OBVIOUS
  <2>2. s \in AtRules
    BY <1>2, <2>1 DEF StartList
  <2>3. s # FromRules
    BY <1>1, <2>1, ListsFacts
  <2> QED
    BY <1>1, <2>2, <2>3, StartLists
<1>5. In(q, "establish") => q \in Telling(FromRules) \cup Telling(FromEstablish)
  <2>1. SUFFICES ASSUME In(q, "establish")
                 PROVE  q \in Telling(FromRules) \cup Telling(FromEstablish)
    OBVIOUS
  <2>2. s \in AtRules \cup AtEstablish
    BY <1>2, <2>1 DEF StartList
  <2>3. s # FromEstablish
    BY <1>1, <2>1, ListsFacts
  <2>4. s = FromRules => q \in Telling(FromEstablish)
    BY <1>1, ListsFacts DEF Telling
  <2> QED
    BY <1>1, <2>2, <2>3, <2>4, StartLists
<1>6. q \in Telling(FromRules) => In(q, "rules")
  BY StartLists DEF AtRules
<1>7. s \in AtRules => s \in Telling(FromRules) \/ First(s, "STARTING")
  BY StartLists DEF AtRules
<1> QED
  BY <1>1, <1>4, <1>5, <1>6, <1>7 DEF StartList, AtRules, AtEstablish

(* A list without them.                                                    *)
LEMMA NoStart ==
  ASSUME NEW s, ~ In(s, "rules"), ~ In(s, "establish")
  PROVE  StartList(s) /\ s \notin Telling(FromRules)
BY StartLists DEF StartList, AtRules

(* What the abstract process does, in terms of the list of the main thread *)
LEMMA Views ==
  /\ \A q : main' = q => Outline(todo["main"])' = Outline(q)
  /\ Outline(todo["main"]) = Outline(main)
  /\ main' = main => Outline(todo["main"])' = Outline(main)
BY DEF main

(* Nothing that is seen changes.                                           *)
LEMMA Stutters ==
  ASSUME OutlineInv, UNCHANGED <<proc, bound, requested, inbox, state, revoked>>, main' = main
  PROVE  OutlineInv' /\ UNCHANGED Process!proxy
<1>1. OutlineInv'
  BY DEF OutlineInv
<1>2. UNCHANGED Process!proxy
  BY DEF Process!proxy, main
<1> QED
  BY <1>1, <1>2

(* The process ends.                                                       *)
LEMMA Ending ==
  ASSUME proc, NEW how, Gone(how)
  PROVE  OutlineInv' /\ Process!Crash
<1>1. /\ main' = << >> /\ state' = "NONE" /\ ~ revoked' /\ proc' = FALSE
  BY GoneFresh, FreshLists, ThreadNames DEF Fresh, main
<1>2. OutlineInv'
  BY <1>1, NoStart, EmptyList DEF OutlineInv
<1>3. Outline(todo["main"])' = << >>
  BY <1>1, Views, OutlineOne
<1>4. /\ \E n \in 0 .. Cardinality({i \in DOMAIN inbox : inbox[i] = "start"}) :
           inbox' = [i \in 1 .. n |-> "start"]
      /\ UNCHANGED <<bound, requested>>
  BY DEF Gone, Waiting
<1> QED
  <2>1. proc /\ proc' = FALSE /\ state' = "NONE" /\ Outline(todo["main"])' = << >>
    BY <1>1, <1>3
  <2>2. Process!Gone
    <3>1. \A S : Process!Cardinality(S) = Cardinality(S)
      BY Zenon DEF Cardinality, Process!Cardinality
    <3>2. \E n \in 0 .. Process!Cardinality({i \in DOMAIN inbox : inbox[i] = "start"}) :
            inbox' = [i \in 1 .. n |-> "start"]
      BY <1>4, <3>1
    <3> QED
      BY <1>4, <2>1, <3>2, Zenon DEF Process!Gone
  <2> QED
    BY <1>2, <2>2 DEF Process!Crash

(* The main thread goes on.                                                *)
LEMMA Going ==
  ASSUME TypeOK, ListInv, OutlineInv, NEW x, At("main", x), Done("main"),
         UNCHANGED <<proc, revoked>>, x = "STARTING" => state' = "STARTING",
         state' = state \/ x \in States
  PROVE  /\ OutlineInv'
         /\ x \notin Told => Outline(todo["main"])' = Outline(todo["main"])
         /\ x \in Told => Process!Next1(Name(x))
<1>1. /\ main \in Seq(StepNames) /\ main # << >> /\ First(main, x) /\ proc
      /\ main' = Tail(main) /\ main[1] = x
  <2>1. todo["main"] # << >>
    BY ThreadNames, Who
  <2>2. todo'["main"] = Tail(todo["main"])
    BY <2>1, ThreadNames, PopLists DEF OutlineInv
  <2> QED
    BY <2>2, ThreadNames, Who DEF main, First
<1>2. /\ StartList(main')
      /\ main' \in Telling(FromRules) => main \in Telling(FromRules) \/ x = "STARTING"
  BY <1>1, StartTail DEF OutlineInv, First
<1>3. x \in States /\ x # "STARTING" => main \notin Telling(FromRules)
  <2>1. \A s \in Telling(FromRules) : s = FromRules \/ \A y : First(s, y) => y = "begin" \/ y = "finish"
    BY ListsFacts, TellingFacts
  <2>2. \A y : First(FromRules, y) <=> y = "rules"
    BY ListsFacts
  <2> QED
    BY <1>1, <2>1, <2>2 DEF States
<1>4. OutlineInv'
  BY <1>1, <1>2, <1>3 DEF OutlineInv
<1>5. /\ x \notin Told => Outline(main') = Outline(main)
      /\ x \in Told => /\ Outline(main) # << >> /\ Head(Outline(main)) = Name(x)
                       /\ Outline(main') = Tail(Outline(main))
  BY <1>1, OutlineTail
<1>6. Outline(todo["main"])' = Outline(main')
  BY DEF main
<1> QED
  BY <1>1, <1>4, <1>5, <1>6 DEF Process!Next1, main

(* The steps that the clients see nothing of.                              *)
LEMMA HiddenStep ==
  ASSUME TypeOK, ListInv, OutlineInv, NEW x, At("main", x), Done("main"), x \notin Told,
         UNCHANGED <<proc, bound, requested, inbox, state, revoked>>
  PROVE  OutlineInv' /\ UNCHANGED Process!proxy
<1>1. OutlineInv' /\ Outline(todo["main"])' = Outline(todo["main"])
  <2>1. x # "STARTING"
    BY DEF Told, States
  <2> QED
    BY <2>1, Going
<1> QED
  BY <1>1 DEF Process!proxy

(* Other threads than the main one have no step to make but those of a     *)
(* test, as nobody revokes.                                                *)
LEMMA Testing ==
  ASSUME TypeOK, ListInv, OutlineInv, NEW t \in Threads, t # "main", NEW x, At(t, x)
  PROVE  t = "test" /\ x \in {"result", "refusal", "finish"}
BY ThreadNames, Who DEF OutlineInv

(* The requests and Android.                                               *)
LEMMA OutsideSteps ==
  ASSUME TypeOK, ListInv, OutlineInv,
         StartRequest \/ StopRequest \/ Create \/ Unbind \/ Test
  PROVE  OutlineInv' /\ (Process!ProxyNext \/ UNCHANGED Process!proxy)
<1>1. CASE StartRequest
  <2>1. /\ requested' = TRUE /\ inbox' = Append(inbox, "start")
        /\ UNCHANGED <<proc, bound, revoked, state, todo, main>>
    BY <1>1 DEF StartRequest, java, service, main
  <2>2. OutlineInv'
    BY <2>1 DEF OutlineInv
  <2>3. Process!StartRequest
    BY <2>1 DEF Process!StartRequest
  <2> QED
    BY <2>2, <2>3 DEF Process!ProxyNext
<1>2. CASE StopRequest
  <2>1. /\ inbox' = IF proc THEN Append(inbox, "stop") ELSE inbox
        /\ UNCHANGED <<proc, bound, requested, revoked, state, todo, main>>
    BY <1>2 DEF StopRequest, history, java, service, main
  <2>2. OutlineInv'
    BY <2>1 DEF OutlineInv
  <2>3. Process!StopRequest
    BY <2>1 DEF Process!StopRequest
  <2> QED
    BY <2>2, <2>3 DEF Process!ProxyNext
<1>3. CASE Create
  <2>1. /\ ~ proc /\ (bound \/ requested \/ inbox # << >>)
        /\ proc' = TRUE /\ state' = "NONE" /\ ~ revoked'
        /\ inbox' = IF requested /\ inbox = << >> THEN <<"start">> ELSE inbox
        /\ UNCHANGED <<requested, bound>>
    BY <1>3 DEF Create, Fresh
  <2>2. main' = << >> /\ main = << >> /\ state = "NONE"
    BY <1>3, <2>1, FreshLists, ThreadNames DEF Create, OutlineInv, main
  <2>3. OutlineInv'
    BY <2>1, <2>2, NoStart, EmptyList DEF OutlineInv
  <2>4. Outline(todo["main"])' = Outline(todo["main"])
    BY <2>2 DEF main
  <2>5. Process!Create
    BY <2>1, <2>2, <2>4 DEF Process!Create
  <2> QED
    BY <2>3, <2>5 DEF Process!ProxyNext
<1>4. CASE Unbind
  <2>1. /\ bound' = FALSE
        /\ UNCHANGED <<proc, inbox, requested, revoked, state, todo, main>>
    BY <1>4 DEF Unbind, history, java, service, main
  <2>2. OutlineInv'
    BY <2>1 DEF OutlineInv
  <2>3. Process!Bind(FALSE)
    BY <2>1 DEF Process!Bind
  <2> QED
    BY <2>2, <2>3 DEF Process!ProxyNext
<1>5. CASE Test
  <2>1. PICK x \in {"result", "refusal"} : todo' = [todo EXCEPT !["test"] = <<x, "finish">>]
    BY <1>5 DEF Test
  <2>2. main' = main
    BY <2>1 DEF main, TypeOK, Threads
  <2>3. UNCHANGED <<proc, bound, requested, inbox, state, revoked>>
    BY <1>5 DEF Test, world, android, history, service
  <2> QED
    BY <2>2, <2>3, Stutters
<1> QED
  BY <1>1, <1>2, <1>3, <1>4, <1>5

(* The main thread takes a message, or destroys the service.               *)
LEMMA HandleStep ==
  ASSUME TypeOK, ListInv, OutlineInv, Handle
  PROVE  OutlineInv' /\ Process!Handle
<1>1. proc /\ main = << >> /\ UNCHANGED <<proc, bound, requested, inbox, state, revoked>>
  BY DEF Handle, main, world, android, history, service
<1>2. PICK q \in {OnStartCommand, Stop, Destruction} :
        /\ todo' = [todo EXCEPT !["main"] = q]
        /\ \/ inbox # << >> /\ q = IF Head(inbox) = "start" THEN OnStartCommand ELSE Stop
           \/ inbox = << >> /\ ~ requested /\ ~ bound /\ q = Destruction
  BY DEF Handle, Destruction
<1>3. q \in Seq(StepNames)
  BY StopFacts, StartFacts, DestructionFacts
<1>4. main' = q
  BY <1>2, <1>3, Update, ThreadNames DEF main
<1>5. StartList(q) /\ q \notin Telling(FromRules)
  <2>1. CASE q = OnStartCommand
    BY <2>1, StartLists DEF StartList, AtRules
  <2>2. CASE q # OnStartCommand
    <3>1. Program(q) /\ Final(q, "kill")
      BY <1>2, <2>2, StopProgram, DestructionProgram
    <3>2. ~ In(q, "rules") /\ ~ In(q, "establish")
      BY <1>3, <3>1, Sides DEF In, Opening
    <3> QED
      BY <3>2, NoStart
  <2> QED
    BY <2>1, <2>2
<1>6. OutlineInv'
  BY <1>1, <1>4, <1>5 DEF OutlineInv
<1>7. Outline(todo["main"]) = << >> /\ Outline(todo["main"])' = Outline(q)
  BY <1>1, <1>4, Views, OutlineOne
<1>8. /\ Outline(OnStartCommand) = Process!Start /\ Outline(Stop) = Process!Stop
      /\ Outline(Destruction) = <<"STOPPED", "tell">> \o Process!Stop
  BY OutlineStart, OutlineStop
<1>9. Process!Handle
  <2>1. CASE inbox # << >> /\ q = IF Head(inbox) = "start" THEN OnStartCommand ELSE Stop
    <3>1. Outline(todo["main"])' = IF Head(inbox) = "start" THEN Process!Start ELSE Process!Stop
      BY <1>7, <1>8, <2>1
    <3> QED
      BY <1>1, <1>7, <2>1, <3>1, Zenon DEF Process!Handle
  <2>2. CASE inbox = << >> /\ ~ requested /\ ~ bound /\ q = Destruction
    <3>1. Outline(todo["main"])' = <<"STOPPED", "tell">> \o Process!Stop
      BY <1>7, <1>8, <2>2
    <3> QED
      BY <1>1, <1>7, <2>2, <3>1, Zenon DEF Process!Handle
  <2> QED
    BY <1>2, <2>1, <2>2
<1> QED
  BY <1>6, <1>9

(* A start goes on from the rules, in spite of a missing application.      *)
LEMMA RulesStep ==
  ASSUME TypeOK, ListInv, OutlineInv, Rules
  PROVE  OutlineInv' /\ (Process!ProxyNext \/ UNCHANGED Process!proxy)
<1> USE ThreadNames
<1>1. At("main", "rules") /\ UNCHANGED <<proc, bound, requested, inbox, state, revoked>>
  BY DEF Rules, world, android, history, service
<1>2. /\ main \in Seq(StepNames) /\ First(main, "rules") /\ In(main, "rules") /\ proc
  BY <1>1, Who DEF main
<1>3. main = FromRules
  BY <1>2, StartLists DEF OutlineInv, StartList
<1>4. state = "STARTING"
  BY <1>3 DEF OutlineInv, Telling
<1>5. PICK missing \in BOOLEAN : todo' = [todo EXCEPT !["main"] =
        (IF missing THEN SetState("STOPPED") ELSE << >>) \o FromEstablish]
  <2>1. Tail(todo["main"]) = FromEstablish
    BY <1>3, ListsFacts DEF main
  <2> QED
    BY <2>1 DEF Rules
<1>6. Outline(todo["main"]) = Process!Begun
  BY <1>3, Views, OutlineStart DEF FromRules, FromEstablish
<1>7. CASE missing
  <2>1. Stopped \in Seq(StepNames) /\ Stopped \in AtEstablish /\ ~ In(Stopped, "rules")
        /\ todo' = [todo EXCEPT !["main"] = Stopped]
    BY <1>5, <1>7, StartLists DEF AtEstablish
  <2>2. main' = Stopped
    BY <2>1, Update DEF main
  <2>3. Stopped \notin Telling(FromRules)
    BY <2>1, StartLists DEF AtRules
  <2>4. OutlineInv'
    BY <1>1, <1>2, <2>1, <2>2, <2>3 DEF OutlineInv, StartList
  <2>5. Outline(todo["main"])' = <<"STOPPED", "tell">> \o Process!Begun
    BY <2>2, Views, StartLists, OutlineStart DEF FromEstablish
  <2>6. Process!Detour
    BY <1>1, <1>2, <1>4, <1>6, <2>5 DEF Process!Detour
  <2> QED
    BY <2>4, <2>6 DEF Process!ProxyNext
<1>8. CASE ~ missing
  <2>1. << >> \o FromEstablish = FromEstablish
    BY ListsFacts, ConcatEmptySeq
  <2>2. todo' = [todo EXCEPT !["main"] = Tail(todo["main"])]
    BY <1>3, <1>5, <1>8, <2>1, ListsFacts DEF main
  <2>3. Done("main")
    BY <2>2 DEF Done
  <2>4. "rules" \notin Told
    BY DEF Told, States
  <2> QED
    BY <1>1, <2>3, <2>4, HiddenStep
<1> QED
  BY <1>7, <1>8

(* There is a tun device, or the proxy stops.                              *)
LEMMA EstablishStep ==
  ASSUME TypeOK, ListInv, OutlineInv, Establish
  PROVE  OutlineInv' /\ (Process!ProxyNext \/ UNCHANGED Process!proxy)
<1> USE ThreadNames
<1>1. At("main", "establish") /\ UNCHANGED <<proc, bound, requested, inbox, state, revoked>>
  BY DEF Establish, world, android, history
<1>2. /\ main \in Seq(StepNames) /\ First(main, "establish") /\ In(main, "establish") /\ proc
  BY <1>1, Who DEF main
<1>3. main = FromEstablish
  BY <1>2, StartLists DEF OutlineInv, StartList
<1>4. CASE Done("main")
  <2>1. "establish" \notin Told
    BY DEF Told, States
  <2> QED
    BY <1>1, <1>4, <2>1, HiddenStep
<1>5. CASE todo' = [todo EXCEPT !["main"] = Stop]
  <2>1. main' = Stop
    BY <1>5, StopFacts, Update DEF main
  <2>2. ~ In(Stop, "rules") /\ ~ In(Stop, "establish")
    BY StopFacts, StopProgram, Sides DEF In, Opening
  <2>3. OutlineInv'
    BY <1>1, <1>2, <2>1, <2>2, NoStart DEF OutlineInv
  <2>4. Outline(todo["main"]) = Process!Begun /\ Outline(todo["main"])' = Process!Stop
    BY <1>3, <2>1, Views, OutlineStart, OutlineStop DEF FromEstablish
  <2>5. Process!Detour
    BY <1>1, <1>2, <2>4 DEF Process!Detour
  <2> QED
    BY <2>3, <2>5 DEF Process!ProxyNext
<1> QED
  BY <1>4, <1>5 DEF Establish

(* The other steps of the main thread, and those of the trojan thread.     *)
LEMMA MainSteps ==
  ASSUME TypeOK, ListInv, OutlineInv,
         ChoosePorts \/ JniTrojan \/ Front \/ Return
           \/ Load \/ MakeService \/ RunService \/ Exit
  PROVE  OutlineInv' /\ (Process!ProxyNext \/ UNCHANGED Process!proxy)
<1> USE ThreadNames
<1>1. CASE ChoosePorts
  <2>1. /\ At("main", "ports") /\ Done("main")
        /\ UNCHANGED <<proc, bound, requested, inbox, state, revoked>>
    BY <1>1 DEF ChoosePorts, world, android, history, service
  <2>2. "ports" \notin Told
    BY DEF Told, States
  <2> QED
    BY <2>1, <2>2, HiddenStep
<1>2. CASE JniTrojan
  <2>1. /\ At("main", "trojan") /\ Done("main")
        /\ UNCHANGED <<proc, bound, requested, inbox, state, revoked>>
    BY <1>2 DEF JniTrojan, world, android, history, service
  <2>2. "trojan" \notin Told
    BY DEF Told, States
  <2> QED
    BY <2>1, <2>2, HiddenStep
<1>3. CASE Front
  <2>1. /\ At("main", "front") /\ Done("main")
        /\ UNCHANGED <<proc, bound, requested, inbox, state, revoked>>
    BY <1>3 DEF Front, world, android, history
  <2>2. "front" \notin Told
    BY DEF Told, States
  <2> QED
    BY <2>1, <2>2, HiddenStep
<1>4. CASE Return
  <2>1. /\ At("main", "return") /\ Done("main") /\ inbox' = Tail(inbox)
        /\ UNCHANGED <<proc, bound, requested, state, revoked>>
    BY <1>4 DEF Return, history, service
  <2>2. "return" \in Told /\ Name("return") = "return"
    BY DEF Told, Name
  <2>3. OutlineInv' /\ Process!Next1("return")
    BY <2>1, <2>2, Going
  <2>4. Process!Return
    BY <2>1, <2>3 DEF Process!Return
  <2> QED
    BY <2>3, <2>4 DEF Process!ProxyNext
<1>5. CASE Load
  <2>1. main' = main /\ UNCHANGED <<proc, bound, requested, inbox, state, revoked>>
    BY <1>5 DEF Load, world, android, history, java, service, main
  <2> QED
    BY <2>1, Stutters
<1>6. CASE MakeService
  <2>1. CASE Gone("crashed")
    <3>1. proc
      BY <1>6 DEF MakeService
    <3> QED
      BY <2>1, <3>1, Ending DEF Process!ProxyNext
  <2>2. CASE UNCHANGED <<world, java>>
    <3>1. main' = main /\ UNCHANGED <<proc, bound, requested, inbox, state, revoked>>
      BY <2>2 DEF world, android, history, java, service, main
    <3> QED
      BY <3>1, Stutters
  <2> QED
    BY <1>6, <2>1, <2>2 DEF MakeService
<1>7. CASE RunService
  <2>1. main' = main /\ UNCHANGED <<proc, bound, requested, inbox, state, revoked>>
    BY <1>7 DEF RunService, world, android, history, java, service, main
  <2> QED
    BY <2>1, Stutters
<1>8. CASE Exit
  <2>1. main' = main /\ UNCHANGED <<proc, bound, requested, inbox, state, revoked>>
    BY <1>8 DEF Exit, world, android, history, java, service, main
  <2> QED
    BY <2>1, Stutters
<1> QED
  BY <1>1, <1>2, <1>3, <1>4, <1>5, <1>6, <1>7, <1>8

(* The main thread assigns and tells a state.                              *)
LEMMA TellingSteps ==
  ASSUME TypeOK, ListInv, OutlineInv, NEW t \in Threads,
         Assign(t) \/ BeginBroadcast(t) \/ FinishBroadcast(t)
  PROVE  OutlineInv' /\ (Process!ProxyNext \/ UNCHANGED Process!proxy)
<1> USE ThreadNames
<1>1. CASE Assign(t)
  <2>1. PICK s \in States : At(t, s) /\ state' = s /\ Done(t) /\ UNCHANGED world
    BY <1>1 DEF Assign
  <2>2. t = "main"
    BY <2>1, Testing DEF States
  <2>3. UNCHANGED <<proc, bound, requested, inbox, revoked>>
    BY <2>1 DEF world, android, history
  <2>4. s \in Told /\ Name(s) = s
    BY DEF Told, Name, States
  <2>5. OutlineInv' /\ Process!Next1(s)
    BY <2>1, <2>2, <2>3, <2>4, Going
  <2>6. s \in Process!ProxyState
    BY DEF Process!ProxyState, States
  <2>7. Process!Assign
    BY <2>1, <2>3, <2>5, <2>6 DEF Process!Assign
  <2> QED
    BY <2>5, <2>7 DEF Process!ProxyNext
<1>2. CASE BeginBroadcast(t)
  <2>1. PICK name \in {"begin", "result", "refusal"} :
          /\ At(t, name)
          /\ IF broadcasting THEN Throw(t)
             ELSE Done(t) /\ UNCHANGED <<world, service>>
    BY <1>2 DEF BeginBroadcast
  <2>2. proc /\ todo[t] # << >>
    BY <2>1, Who
  <2>3. CASE ~ broadcasting
    <3>1. UNCHANGED <<proc, bound, requested, inbox, state, revoked>>
      BY <2>1, <2>3 DEF world, android, history, service
    <3>2. CASE t = "main"
      <4>1. name \notin Told
        BY DEF Told, States
      <4> QED
        BY <2>1, <2>2, <2>3, <3>1, <3>2, <4>1, HiddenStep
    <3>3. CASE t # "main"
      <4>1. main' = main
        BY <2>1, <2>2, <2>3, <3>1, <3>3, PopLists DEF main
      <4> QED
        BY <3>1, <4>1, Stutters
    <3> QED
      BY <3>2, <3>3
  <2>4. CASE broadcasting
    <3>1. CASE Gone("crashed")
      BY <2>2, <3>1, Ending DEF Process!ProxyNext
    <3>2. CASE /\ t = "binder" \/ At(t, "refusal")
               /\ todo' = [todo EXCEPT ![t] = << >>]
               /\ UNCHANGED <<world, service>>
      <4>1. t # "main"
        BY <3>2, Who DEF ListInv, main
      <4>2. main' = main
        BY <3>2, <4>1 DEF main, TypeOK
      <4>3. UNCHANGED <<proc, bound, requested, inbox, state, revoked>>
        BY <3>2 DEF world, android, history, service
      <4> QED
        BY <4>2, <4>3, Stutters
    <3> QED
      BY <2>1, <2>4, <3>1, <3>2, ThrowCases
  <2> QED
    BY <2>3, <2>4
<1>3. CASE FinishBroadcast(t)
  <2>1. /\ At(t, "finish") /\ Done(t)
        /\ UNCHANGED <<proc, bound, requested, inbox, state, revoked>>
    BY <1>3 DEF FinishBroadcast, android, service
  <2>2. CASE t = "main"
    <3>1. "finish" \in Told /\ Name("finish") = "tell" /\ "finish" # "STARTING"
      BY DEF Told, Name
    <3>2. OutlineInv' /\ Process!Next1("tell")
      BY <2>1, <2>2, <3>1, Going
    <3>3. Process!Tell
      BY <2>1, <3>2 DEF Process!Tell
    <3> QED
      BY <3>2, <3>3 DEF Process!ProxyNext
  <2>3. CASE t # "main"
    <3>1. todo[t] # << >>
      BY <2>1, Who
    <3>2. main' = main
      BY <2>1, <2>3, <3>1, PopLists DEF main
    <3> QED
      BY <2>1, <3>2, Stutters
  <2> QED
    BY <2>2, <2>3
<1> QED
  BY <1>1, <1>2, <1>3

(* Closing, stopping and the end.                                          *)
LEMMA StoppingSteps ==
  ASSUME TypeOK, ListInv, OutlineInv, NEW t \in Threads,
         \/ Close(t) \/ StopSelf(t) \/ Kill(t) \/ JniStop(t) \/ ServiceStop(t) \/ Join(t)
         \/ Wait(t) \/ Delete(t)
  PROVE  OutlineInv' /\ (Process!ProxyNext \/ UNCHANGED Process!proxy)
<1> USE ThreadNames
<1>1. ASSUME NEW x, At(t, x), x \notin {"result", "refusal", "finish"}
      PROVE  t = "main" /\ proc /\ main \in Seq(StepNames) /\ First(main, x)
  BY <1>1, Testing, Who DEF main
<1>2. ASSUME NEW x, At(t, x), x \in {"close", "serviceStop", "wait", "delete"}, Done(t),
             UNCHANGED <<proc, bound, requested, inbox, state, revoked>>
      PROVE  OutlineInv' /\ UNCHANGED Process!proxy
  <2>1. t = "main" /\ x \notin Told
    BY <1>1, <1>2 DEF Told, States
  <2> QED
    BY <1>2, <2>1, HiddenStep
<1>3. ASSUME NEW how, Gone(how), proc PROVE OutlineInv' /\ Process!ProxyNext
  BY <1>3, Ending DEF Process!ProxyNext
<1>4. CASE Close(t)
  <2>1. /\ At(t, "close") /\ Done(t)
        /\ UNCHANGED <<proc, bound, requested, inbox, state, revoked>>
    BY <1>4 DEF Close, world, android, history
  <2> QED
    BY <1>2, <2>1
<1>5. CASE StopSelf(t)
  <2>1. /\ At(t, "stopSelf") /\ Done(t) /\ requested' = FALSE
        /\ UNCHANGED <<proc, bound, inbox, state, revoked>>
    BY <1>5 DEF StopSelf, NotStarted, history, service
  <2>2. t = "main"
    BY <1>1, <2>1
  <2>3. "stopSelf" \in Told /\ Name("stopSelf") = "stopSelf"
    BY DEF Told, Name
  <2>4. OutlineInv' /\ Process!Next1("stopSelf")
    BY <2>1, <2>2, <2>3, Going
  <2>5. Process!StopSelf
    BY <2>1, <2>4 DEF Process!StopSelf
  <2> QED
    BY <2>4, <2>5 DEF Process!ProxyNext
<1>6. CASE Kill(t)
  <2>1. At(t, "kill") /\ Gone("killed")
    BY <1>6 DEF Kill
  <2> QED
    BY <1>1, <1>3, <2>1
<1>7. ASSUME t = "main", ~ In(main, "rules"), ~ In(main, "establish"),
             NEW q \in Seq(StepNames), todo' = [todo EXCEPT !["main"] = q],
             ~ In(q, "rules"), ~ In(q, "establish"), Outline(q) = Outline(main),
             UNCHANGED <<proc, bound, requested, inbox, state, revoked>>, proc
      PROVE  OutlineInv' /\ UNCHANGED Process!proxy
  <2>1. main' = q
    BY <1>7, Update DEF main
  <2>2. OutlineInv'
    BY <1>7, <2>1, NoStart DEF OutlineInv
  <2>3. Outline(todo["main"])' = Outline(todo["main"])
    BY <1>7, <2>1, Views
  <2> QED
    BY <1>7, <2>2, <2>3 DEF Process!proxy
<1>8. CASE JniStop(t)
  <2>1. /\ At(t, "nativeStop")
        /\ todo' = [todo EXCEPT ![t] = (IF HasThread THEN NativeStop ELSE << >>) \o Tail(todo[t])]
        /\ UNCHANGED <<proc, bound, requested, inbox, state, revoked>>
    BY <1>8 DEF JniStop, world, android, history, service
  <2>2. /\ t = "main" /\ proc /\ main \in Seq(StepNames) /\ First(main, "nativeStop")
        /\ Program(main) /\ Final(main, "kill") /\ main # << >> /\ main[1] = "nativeStop"
    BY <1>1, <2>1, Who DEF main, Closing, First
  <2>3. ~ In(main, "rules") /\ ~ In(main, "establish")
    BY <2>2, Sides DEF In, Opening
  <2>4. "nativeStop" \notin Told
    BY DEF Told, States
  <2>5. CASE HasThread
    <3>1. PICK r \in Seq(StepNames) :
            /\ r = NativeStop \o Tail(main)
            /\ \A x : In(r, x) => In(main, x) \/ x \in {"serviceStop", "join", "delete"}
      BY <2>2, JniStopList
    <3>2. Tail(main) \in Seq(StepNames) /\ Outline(Tail(main)) = Outline(main)
      BY <2>2, <2>4, OutlineTail
    <3>3. Outline(r) = << >> \o Outline(Tail(main))
      BY <3>1, <3>2, OutlineNative, OutlineConcat
    <3>4. << >> \o Outline(Tail(main)) = Outline(Tail(main))
      BY <3>2, OutlineType, ConcatEmptySeq
    <3>5. todo' = [todo EXCEPT !["main"] = r]
      BY <2>1, <2>2, <2>5, <3>1 DEF main
    <3>6. ~ In(r, "rules") /\ ~ In(r, "establish")
      <4>1. \A x : In(r, x) => In(main, x) \/ x \in {"serviceStop", "join", "delete"}
        BY <3>1
      <4> QED
        BY <2>3, <4>1
    <3>7. Outline(r) = Outline(main)
      BY <3>2, <3>3, <3>4
    <3> QED
      BY <1>7, <2>1, <2>2, <2>3, <3>5, <3>6, <3>7
  <2>6. CASE ~ HasThread
    <3>1. << >> \o Tail(main) = Tail(main)
      BY <2>2, TailFacts, ConcatEmptySeq
    <3>2. Done("main")
      BY <2>1, <2>2, <2>6, <3>1 DEF main, Done
    <3> QED
      BY <2>1, <2>2, <2>4, <3>2, HiddenStep
  <2> QED
    BY <2>5, <2>6
<1>9. CASE ServiceStop(t)
  <2>1. At(t, "serviceStop")
    BY <1>9 DEF ServiceStop
  <2>2. CASE Gone("crashed")
    BY <1>1, <1>3, <2>1, <2>2
  <2>3. CASE Done(t) /\ UNCHANGED <<world, service>>
    <3>1. UNCHANGED <<proc, bound, requested, inbox, state, revoked>>
      BY <2>3 DEF world, android, history, service
    <3> QED
      BY <1>2, <2>1, <2>3, <3>1
  <2> QED
    BY <1>9, <2>2, <2>3 DEF ServiceStop
<1>10. CASE Join(t)
  <2>1. At(t, "join")
    BY <1>10 DEF Join
  <2>2. CASE joined
    BY <1>1, <1>3, <1>10, <2>1, <2>2 DEF Join
  <2>3. CASE ~ joined
    <3>1. /\ todo' = [todo EXCEPT ![t][1] = "wait"]
          /\ UNCHANGED <<proc, bound, requested, inbox, state, revoked>>
      BY <1>10, <2>3 DEF Join, world, android, history, service
    <3>2. /\ t = "main" /\ proc /\ main \in Seq(StepNames) /\ First(main, "join")
          /\ Program(main) /\ Final(main, "kill") /\ main # << >> /\ main[1] = "join"
      BY <1>1, <2>1, Who DEF main, Closing, First
    <3>3. ~ In(main, "rules") /\ ~ In(main, "establish")
      BY <3>2, Sides DEF In, Opening
    <3>4. PICK r : r = [main EXCEPT ![1] = "wait"]
      OBVIOUS
    <3>5. /\ r \in Seq(StepNames) /\ \A x : In(r, x) => In(main, x) \/ x = "wait"
          /\ r # << >> /\ r[1] = "wait"
      <4>1. /\ r \in Seq(StepNames) /\ \A x : In(r, x) => In(main, x) \/ x = "wait"
            /\ Final(r, "kill")
        BY <3>2, <3>4, JoinList
      <4>2. 1 \in DOMAIN main
        BY <3>2, TailFacts
      <4> QED
        BY <3>4, <4>1, <4>2 DEF Final
    <3>6. Tail(r) = Tail(main)
      BY <3>2, <3>4, <3>5
    <3>7. "join" \notin Told /\ "wait" \notin Told
      BY DEF Told, States
    <3>8. Outline(r) = Outline(main)
      <4>1. Outline(Tail(r)) = Outline(r)
        BY <3>5, <3>7, OutlineTail
      <4>2. Outline(Tail(main)) = Outline(main)
        BY <3>2, <3>7, OutlineTail
      <4> QED
        BY <3>6, <4>1, <4>2
    <3>9. todo' = [todo EXCEPT !["main"] = r]
      BY <3>1, <3>2, <3>4 DEF main
    <3> QED
      BY <1>7, <3>1, <3>2, <3>3, <3>5, <3>8, <3>9
  <2> QED
    BY <2>2, <2>3
<1>11. CASE Wait(t)
  <2>1. /\ At(t, "wait") /\ Done(t)
        /\ UNCHANGED <<proc, bound, requested, inbox, state, revoked>>
    BY <1>11 DEF Wait, world, android, history, service
  <2> QED
    BY <1>2, <2>1
<1>12. CASE Delete(t)
  <2>1. /\ At(t, "delete") /\ Done(t)
        /\ UNCHANGED <<proc, bound, requested, inbox, state, revoked>>
    BY <1>12 DEF Delete, world, android, history, service
  <2> QED
    BY <1>2, <2>1
<1> QED
  BY <1>4, <1>5, <1>6, <1>8, <1>9, <1>10, <1>11, <1>12

(* Every step, while nobody revokes.                                       *)
LEMMA OutlineStep ==
  ASSUME ~ Revokes, SafetyInv, OutlineInv, [Next]_vars
  PROVE  OutlineInv' /\ [Process!ProxyNext]_Process!proxy
<1>1. TypeOK /\ ListInv
  BY DEF SafetyInv
<1>2. ASSUME NEW t \in Threads,
             \/ Assign(t) \/ BeginBroadcast(t) \/ FinishBroadcast(t) \/ Close(t)
             \/ StopSelf(t) \/ Kill(t) \/ JniStop(t) \/ ServiceStop(t) \/ Join(t)
             \/ Wait(t) \/ Delete(t)
      PROVE  OutlineInv' /\ (Process!ProxyNext \/ UNCHANGED Process!proxy)
  BY <1>1, <1>2, TellingSteps, StoppingSteps
<1>3. CASE OnRevoke
  BY <1>3 DEF OnRevoke
<1>4. CASE Handle
  BY <1>1, <1>4, HandleStep DEF Process!ProxyNext
<1>5. CASE Next
  BY <1>1, <1>2, <1>3, <1>4, <1>5, Cases, OutsideSteps, RulesStep, EstablishStep, MainSteps
<1>6. CASE UNCHANGED vars
  <2>1. main' = main /\ UNCHANGED <<proc, bound, requested, inbox, state, revoked>>
    BY <1>6 DEF vars, world, android, history, java, service, main
  <2> QED
    BY <2>1, Stutters
<1> QED
  BY <1>5, <1>6

(* In the beginning.                                                       *)
LEMMA OutlineInit ==
  ASSUME Init
  PROVE  OutlineInv /\ Process!ProxyInit
<1>1. main = << >> /\ state = "NONE" /\ proc = FALSE /\ revoked = FALSE
  BY ThreadNames DEF Init, Idle, main
<1>2. OutlineInv
  BY <1>1, NoStart, EmptyList DEF OutlineInv
<1>3. Outline(todo["main"]) = << >>
  BY <1>1, Views, OutlineOne
<1>4. requested = FALSE /\ bound = TRUE /\ inbox = << >>
  BY DEF Init
<1> QED
  BY <1>1, <1>2, <1>3, <1>4 DEF Process!ProxyInit

(* While no other VPN revokes the proxy, the service, its threads and the  *)
(* JNI glue implement ProxyStates, through crashes and restarts.           *)
THEOREM ProxyImplements ==
  ASSUME ~ Revokes
  PROVE  Spec => ImplementsProxyStates
<1>1. Init => OutlineInv /\ Process!ProxyInit
  BY OutlineInit
<1>2. SafetyInv /\ OutlineInv /\ [Next]_vars => OutlineInv' /\ [Process!ProxyNext]_Process!proxy
  BY OutlineStep
<1> QED
  BY <1>1, <1>2, Safety, PTL DEF Spec, ImplementsProxyStates, Process!ProxySpec
=============================================================================
