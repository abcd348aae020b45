---------------------------- MODULE ProxyService ----------------------------
(***************************************************************************)
(* The process ":proxy": ProxyService, its threads, the JNI glue and the   *)
(* thread that runs the trojan Service, with what Android does around them *)
(* (start requests, broadcasts, restart of a process that died) and the    *)
(* last state a bound client has heard.                                    *)
(*                                                                         *)
(* A Java thread is the list of what it still has to do, one name for each *)
(* step that another thread can see; Step(t) does the first of them.       *)
(***************************************************************************)
EXTENDS Integers, Sequences, FiniteSets

CONSTANTS
  Ports,          \* what Freeport chooses from
  Settings,       \* records of enable_clash, allowLan and the fixed port
  FreeportFails,  \* Freeport.getFreePort() may throw
  BindFails,      \* the port may be in use when trojan binds it
  Revokes,        \* another VPN may take over: onRevoke
  Tests,          \* a client calls testConnection
  MaxStarts,      \* bound: requests to start
  MaxStops        \* bound: broadcasts to stop

NoPort == -1
FallbackTrojan == 1081
FallbackClash  == 1080

ASSUME SettingsAssumption ==
  /\ Ports \subseteq Nat
  /\ Settings \subseteq [clash : BOOLEAN, lan : BOOLEAN, fixed : Nat \cup {NoPort}]
  /\ {FreeportFails, BindFails, Revokes, Tests} \subseteq BOOLEAN
  /\ MaxStarts \in Nat /\ MaxStops \in Nat

VARIABLES
  requested,      \* Android: the service is started, not only bound
  bound,          \* Android: a client is bound to the service
  inbox,          \* Android: what the main thread has still to handle
  proc,           \* the process lives
  died,           \* history: how the last process ended
  starts, stops,  \* requests made
  stop_ended,     \* history: whether the user's last stop got as far as stopSelf
  revoked,        \* history: onRevoke was called in this process
  heard,          \* the last state the client was told
  state, tun2socksPort, pfd, todo, telling, broadcasting,
  trojan_port, clash_port, upstream, config_port,
  kept,           \* history: the last start left the trojan thread of an earlier one
  trojanThread, trojanService, joined, trojan, listen_port, io_stopped

android == <<requested, bound, inbox, starts, stops>>
history == <<died, stop_ended, revoked, heard>>
service == <<state, tun2socksPort, pfd>>
talk    == <<telling, broadcasting>>
java    == <<service, talk, todo>>
ports   == <<trojan_port, clash_port, upstream, config_port, kept>>
native  == <<trojanThread, trojanService, joined, trojan, listen_port, io_stopped>>
world   == <<android, history, proc>>
vars    == <<world, java, ports, native>>

States  == {"NONE", "STARTING", "STARTED", "STOPPING", "STOPPED"}
Threads == {"main", "binder", "test"}
Idle    == [t \in Threads |-> << >>]

(* A process that has just been created, or none: the fields of the        *)
(* service, what onStartCommand knows, and the globals of the JNI glue.    *)
Fresh ==
  /\ state' = "NONE" /\ tun2socksPort' = NoPort /\ pfd' = "null"
  /\ todo' = Idle /\ telling' = [t \in Threads |-> "NONE"] /\ broadcasting' = FALSE
  /\ trojan_port' = NoPort /\ clash_port' = NoPort /\ upstream' = NoPort
  /\ kept' = FALSE
  /\ trojanThread' = FALSE /\ trojanService' = "null" /\ joined' = FALSE
  /\ trojan' = "none" /\ listen_port' = NoPort /\ io_stopped' = FALSE
  /\ revoked' = FALSE

Init ==
  /\ requested = FALSE /\ bound = TRUE /\ inbox = << >> /\ proc = FALSE
  /\ died = "no" /\ starts = 0 /\ stops = 0 /\ stop_ended = "no"
  /\ revoked = FALSE /\ heard = "NONE"
  /\ state = "NONE" /\ tun2socksPort = NoPort /\ pfd = "null"
  /\ todo = Idle /\ telling = [t \in Threads |-> "NONE"] /\ broadcasting = FALSE
  /\ trojan_port = NoPort /\ clash_port = NoPort /\ upstream = NoPort
  /\ config_port = NoPort /\ kept = FALSE
  /\ trojanThread = FALSE /\ trojanService = "null" /\ joined = FALSE
  /\ trojan = "none" /\ listen_port = NoPort /\ io_stopped = FALSE

-----------------------------------------------------------------------------
(* What the threads do.                                                    *)

StepNames == States \cup
  {"begin", "finish", "result", "refusal", "rules", "establish", "ports", "trojan", "front",
   "return", "close", "nativeStop", "serviceStop", "join", "wait", "delete", "stopSelf",
   "kill"}

SetState(s) == <<s, "begin", "finish">>

StopQuietly == SetState("STOPPING") \o                                    \* mutant
  <<"close", "nativeStop", "stopSelf", "kill">>
Shutdown == SetState("STOPPING") \o
  <<"close", "nativeStop", "stopSelf">> \o SetState("STOPPED")
Stop == Shutdown \o <<"kill">>

TrojanFirst == SetState("STARTING") \o                                   \* mutant
  <<"rules", "establish", "trojan", "ports", "front">> \o SetState("STARTED")
  \o <<"return">>
OnStartCommand == SetState("STARTING") \o
  <<"rules", "establish", "ports", "trojan", "front">> \o SetState("STARTED")
  \o <<"return">>

NativeStop == <<"serviceStop", "join", "delete">>

(* The start requests that wait for the main thread, by their places.      *)
Waiting == {i \in DOMAIN inbox : inbox[i] = "start"}

(* Android: the process is gone. Broadcasts it had not handled are lost;   *)
(* starts it had not finished may be delivered once more.                  *)
Gone(how) ==
  /\ proc' = FALSE /\ died' = how
  /\ \E n \in 0 .. Cardinality(Waiting) : inbox' = [i \in 1 .. n |-> "start"]
  /\ stop_ended' = IF todo["main"] # << >> /\ inbox # << >> /\ Head(inbox) = "stop"
                      /\ Waiting = {}
                   THEN IF "stopSelf" \in {todo["main"][i] : i \in DOMAIN todo["main"]}
                        THEN "cut" ELSE "finished"
                   ELSE stop_ended
  /\ Fresh
  /\ UNCHANGED <<requested, bound, starts, stops, heard, config_port>>

-----------------------------------------------------------------------------
(* Android and the user.                                                   *)

StartRequest ==
  /\ starts < MaxStarts /\ starts' = starts + 1
  /\ requested' = TRUE /\ inbox' = Append(inbox, "start") /\ stop_ended' = "no"
  /\ UNCHANGED <<bound, stops, died, revoked, heard, proc, java, ports, native>>

(* The receiver is registered by onCreate: without the process there is    *)
(* nobody to hear the broadcast.                                           *)
StopRequest ==
  /\ stops < MaxStops /\ stops' = stops + 1
  /\ inbox' = IF proc THEN Append(inbox, "stop") ELSE inbox
  /\ UNCHANGED <<requested, bound, starts, history, proc, java, ports, native>>

(* A bound service, and one that is started (START_STICKY), is created     *)
(* again; the latter gets a start without an intent.                       *)
Create ==
  /\ ~ proc /\ (bound \/ requested \/ inbox # << >>)
  /\ proc' = TRUE /\ Fresh
  /\ inbox' = IF requested /\ inbox = << >> THEN <<"start">> ELSE inbox
  /\ UNCHANGED <<requested, bound, starts, stops, died, stop_ended, heard, config_port>>

Unbind ==
  /\ bound /\ bound' = FALSE
  /\ UNCHANGED <<requested, inbox, starts, stops, history, proc, java, ports, native>>

OnRevoke ==
  /\ Revokes /\ proc /\ ~ revoked /\ pfd = "open"
  /\ revoked' = TRUE /\ todo' = [todo EXCEPT !["binder"] = Stop]
  /\ UNCHANGED <<android, died, stop_ended, heard, proc, service, talk, ports, native>>

(* testConnection: a thread of its own, or the binder thread of the caller *)
(* when the service is not started.                                        *)
Test ==
  /\ Tests /\ proc /\ todo["test"] = << >>
  /\ todo' = [todo EXCEPT !["test"] =
       <<IF state = "STARTED" THEN "result" ELSE "refusal", "finish">>]
  /\ UNCHANGED <<world, service, talk, ports, native>>

(* The main thread takes the next message; onDestroy when the service is   *)
(* neither started nor bound.                                              *)
Handle ==
  /\ proc /\ todo["main"] = << >>
  /\ \/ /\ inbox # << >>
        /\ todo' = [todo EXCEPT !["main"] =
             IF Head(inbox) = "start" THEN OnStartCommand ELSE Stop]
     \/ /\ ~ requested /\ ~ bound /\ inbox = << >>
        /\ todo' = [todo EXCEPT !["main"] = SetState("STOPPED") \o Stop]
  /\ UNCHANGED <<world, service, talk, ports, native>>

-----------------------------------------------------------------------------
(* The steps of a thread.                                                  *)

At(t, name) == proc /\ todo[t] # << >> /\ Head(todo[t]) = name
Done(t) == todo' = [todo EXCEPT ![t] = Tail(todo[t])]

(* An exception that nothing catches: binder threads report it to their    *)
(* caller, any other ends the process.                                     *)
Throw(t) ==
  IF t = "binder" \/ At(t, "refusal")
  THEN /\ todo' = [todo EXCEPT ![t] = << >>]
       /\ UNCHANGED <<world, service, talk, ports, native>>
  ELSE Gone("crashed")

Assign(t) ==
  \E s \in States :
    /\ At(t, s) /\ state' = s
    /\ tun2socksPort' = IF s \in {"STOPPED", "STOPPING"} THEN NoPort ELSE tun2socksPort
    /\ Done(t)
    /\ UNCHANGED <<world, pfd, talk, ports, native>>

(* beginBroadcast of notifyStateChange and onResult: RemoteCallbackList    *)
(* throws when a broadcast is in progress.                                 *)
BeginBroadcast(t) ==
  \E name \in {"begin", "result", "refusal"} :
    /\ At(t, name)
    /\ IF broadcasting THEN Throw(t)
       ELSE /\ broadcasting' = TRUE
            /\ telling' = [telling EXCEPT ![t] = IF name = "begin" THEN state ELSE "NONE"]
            /\ Done(t)
            /\ UNCHANGED <<world, service, ports, native>>

FinishBroadcast(t) ==
  /\ At(t, "finish") /\ broadcasting' = FALSE
  /\ heard' = IF t = "test" \/ ~ bound THEN heard ELSE telling[t]
  /\ Done(t)
  /\ UNCHANGED <<android, died, stop_ended, revoked, proc, service, telling, ports, native>>

(* applyApplicationOrientedRule: a listed package is not installed.        *)
Rules ==
  /\ At("main", "rules")
  /\ \E missing \in BOOLEAN :
       todo' = [todo EXCEPT !["main"] =
         (IF missing THEN SetState("STOPPED") ELSE << >>) \o Tail(@)]
  /\ UNCHANGED <<world, service, talk, ports, native>>

Establish ==
  /\ At("main", "establish")
  /\ \/ pfd' = "open" /\ Done("main")
     \/ pfd' = "null" /\ todo' = [todo EXCEPT !["main"] = Stop]
  /\ UNCHANGED <<world, state, tun2socksPort, talk, ports, native>>

Close(t) ==
  /\ At(t, "close") /\ pfd' = (IF pfd = "open" THEN "closed" ELSE pfd) /\ Done(t)
  /\ UNCHANGED <<world, state, tun2socksPort, talk, ports, native>>

-----------------------------------------------------------------------------
(* The choice of the ports.                                                *)

FreePorts == Ports \ (IF trojanThread THEN {listen_port} ELSE {})

(* do { port = getFreePort() } while (port = taken).                       *)
FreeAnyway(taken) == FreePorts                                            \* mutant
FreeExcept(taken) == FreePorts \ {taken}

(* The port that a failure of Freeport leaves: the draw before it, when    *)
(* there was one that had to be repeated, or the default.                  *)
Leftover(default, taken) ==
  IF FreeportFails THEN {default} \cup (FreePorts \cap {taken}) ELSE {}

TrojanPorts(s) ==
  LET fallback == IF FreeportFails THEN {FallbackTrojan} ELSE {}
  IN IF s.clash THEN FreeExcept(s.fixed) \cup fallback
     ELSE IF ~ s.lan \/ s.fixed = NoPort THEN FreePorts \cup fallback
     ELSE {s.fixed}

ClashPorts(s, trojan_p) ==
  IF ~ s.clash THEN {NoPort}
  ELSE IF ~ s.lan \/ s.fixed = NoPort
  THEN FreeExcept(trojan_p) \cup Leftover(FallbackClash, trojan_p)
  ELSE {s.fixed}

(* ChangeListenPort writes the port into the configuration file.           *)
ChoosePorts ==
  /\ At("main", "ports")
  /\ \E s \in Settings : \E p \in TrojanPorts(s) : \E c \in ClashPorts(s, p) :
       trojan_port' = p /\ clash_port' = c /\ config_port' = p
  /\ Done("main")
  /\ UNCHANGED <<world, service, talk, upstream, kept, native>>

(* Clash or tun2socks is started, in front of trojan.                      *)
Front ==
  /\ At("main", "front")
  /\ tun2socksPort' = IF clash_port = NoPort THEN trojan_port ELSE clash_port
  /\ upstream' = trojan_port
  /\ Done("main")
  /\ UNCHANGED <<world, state, pfd, talk, trojan_port, clash_port, config_port, kept, native>>

Return ==
  /\ At("main", "return") /\ Done("main") /\ inbox' = Tail(inbox)
  /\ UNCHANGED <<requested, bound, starts, stops, history, proc, service, talk, ports, native>>

StillStarted == requested                                                 \* mutant
NotStarted == FALSE

StopSelf(t) ==
  /\ At(t, "stopSelf") /\ requested' = NotStarted /\ Done(t)
  /\ UNCHANGED <<bound, inbox, starts, stops, history, proc, service, talk, ports, native>>

Kill(t) == At(t, "kill") /\ Gone("killed")

-----------------------------------------------------------------------------
(* The JNI glue and the thread it makes.                                   *)

JniTrojan ==
  /\ At("main", "trojan") /\ Done("main") /\ kept' = trojanThread
  /\ IF trojanThread THEN UNCHANGED native
     ELSE /\ trojanThread' = TRUE /\ trojan' = "loading" /\ joined' = FALSE
          /\ UNCHANGED <<trojanService, listen_port, io_stopped>>
  /\ UNCHANGED <<world, service, talk, trojan_port, clash_port, upstream, config_port>>

Load ==
  /\ proc /\ trojan = "loading" /\ trojan' = "binding" /\ listen_port' = config_port
  /\ UNCHANGED <<world, java, ports, trojanThread, trojanService, joined, io_stopped>>

Unassigned == trojanService                                               \* mutant
Assigned == "live"

(* new Service: the constructor throws when the port is in use.            *)
MakeService ==
  /\ proc /\ trojan = "binding"
  /\ \/ /\ trojan' = "made" /\ trojanService' = Assigned /\ io_stopped' = FALSE
        /\ UNCHANGED <<world, java, ports, trojanThread, joined, listen_port>>
     \/ BindFails /\ Gone("crashed")

RestartedRun ==                                                           \* mutant
  /\ trojan = "made" /\ trojan' = "running" /\ io_stopped' = FALSE
ServiceRun ==
  /\ trojan = "made" /\ trojan' = "running" /\ UNCHANGED io_stopped

RunService ==
  /\ proc /\ ServiceRun
  /\ UNCHANGED <<world, java, ports, trojanThread, trojanService, joined, listen_port>>

Exit ==
  /\ proc /\ trojan = "running" /\ io_stopped /\ trojan' = "exited"
  /\ UNCHANGED <<world, java, ports, trojanThread, trojanService, joined, listen_port, io_stopped>>

AnyThread == TRUE                                                         \* mutant
HasThread == trojanThread

JniStop(t) ==
  /\ At(t, "nativeStop")
  /\ todo' = [todo EXCEPT ![t] = (IF HasThread THEN NativeStop ELSE << >>) \o Tail(@)]
  /\ UNCHANGED <<world, service, talk, ports, native>>

(* trojanService->stop(): there may be no Service yet, or no more.         *)
ServiceStop(t) ==
  /\ At(t, "serviceStop")
  /\ \/ /\ trojanService # "null" /\ Done(t)
        /\ io_stopped' = (trojanService = "live" \/ io_stopped)
        /\ UNCHANGED <<world, service, talk, ports, trojanThread, trojanService, joined, trojan, listen_port>>
     \/ trojanService # "live" /\ Gone("crashed")

(* A thread can be joined once; the second join throws into JNI.           *)
Join(t) ==
  /\ At(t, "join")
  /\ IF joined THEN Gone("crashed")
     ELSE /\ joined' = TRUE /\ todo' = [todo EXCEPT ![t][1] = "wait"]
          /\ UNCHANGED <<world, service, talk, ports, trojanThread, trojanService, trojan, listen_port, io_stopped>>

Wait(t) ==
  /\ At(t, "wait") /\ trojan = "exited" /\ Done(t)
  /\ UNCHANGED <<world, service, talk, ports, native>>

Delete(t) ==
  /\ At(t, "delete") /\ Done(t)
  /\ trojanService' = "freed" /\ trojanThread' = FALSE
  /\ UNCHANGED <<world, service, talk, ports, joined, trojan, listen_port, io_stopped>>

-----------------------------------------------------------------------------
Step(t) ==
  \/ Assign(t) \/ BeginBroadcast(t) \/ FinishBroadcast(t) \/ Close(t)
  \/ StopSelf(t) \/ Kill(t)
  \/ JniStop(t) \/ ServiceStop(t) \/ Join(t) \/ Wait(t) \/ Delete(t)

Main == Handle \/ Step("main") \/ Rules \/ Establish \/ ChoosePorts \/ JniTrojan
        \/ Front \/ Return
Trojan == Load \/ MakeService \/ RunService \/ Exit

Next ==
  \/ StartRequest \/ StopRequest \/ Create \/ Unbind \/ OnRevoke \/ Test
  \/ Main \/ Step("binder") \/ Step("test") \/ Trojan

Spec == Init /\ [][Next]_vars

-----------------------------------------------------------------------------
(* Type invariant.                                                         *)
TypeOK ==
  /\ requested \in BOOLEAN /\ bound \in BOOLEAN /\ proc \in BOOLEAN
  /\ inbox \in Seq({"start", "stop"})
  /\ starts \in 0 .. MaxStarts /\ stops \in 0 .. MaxStops
  /\ died \in {"no", "killed", "crashed"} /\ stop_ended \in {"no", "cut", "finished"}
  /\ revoked \in BOOLEAN /\ heard \in States
  /\ state \in States /\ pfd \in {"null", "open", "closed"} /\ broadcasting \in BOOLEAN
  /\ todo \in [Threads -> Seq(StepNames)] /\ telling \in [Threads -> States]
  /\ {trojan_port, clash_port, upstream, config_port, tun2socksPort, listen_port}
       \subseteq Nat \cup {NoPort}
  /\ kept \in BOOLEAN /\ trojanThread \in BOOLEAN /\ joined \in BOOLEAN /\ io_stopped \in BOOLEAN
  /\ trojanService \in {"null", "live", "freed"}
  /\ trojan \in {"none", "loading", "binding", "made", "running", "exited"}
  /\ trojan \in {"made", "running"} => trojanService = "live"

(* "send broadcast with action stop_service to shutdown the service"       *)
(* (ProxyService.java): once the user's stop was handled, and until the    *)
(* next request to start, the proxy does not come back.                    *)
StopShutsDown == stop_ended # "no" => state \notin {"STARTING", "STARTED"}

(* It does stay off when the stop got as far as stopSelf: no restart of a  *)
(* sticky service, no start delivered a second time and no thread that was *)
(* in the middle of something brings it back.                              *)
OffOnceStopped == stop_ended = "finished" => state \notin {"STARTING", "STARTED"}

Running(t, last) == todo[t] # << >> /\ todo[t][Len(todo[t])] = last

Ends(how) == proc /\ ~ proc' /\ died' = how

(* The only ways to crash: a port in use, a stop before the trojan thread  *)
(* has made its Service, a stop on the main thread besides that of         *)
(* onRevoke, and two broadcasts at once.                                   *)
CrashCauses ==
  [][Ends("crashed") =>
       \/ trojan \in {"loading", "binding"} \/ broadcasting
       \/ Running("main", "kill") /\ revoked]_vars

(* The activity reconnects when it hears STOPPED, so a bound client must   *)
(* hear it last before the process is killed.  Only onRevoke, on another   *)
(* thread, lets a start talk over it.                                      *)
KilledSaysStopped ==
  [][Ends("killed") /\ bound /\ ~ revoked => heard = "STOPPED"]_vars

(* The port given to clash or tun2socks as that of trojan is the one       *)
(* trojan listens on ("Determine trojanPort and clashSocksPort ... the     *)
(* user-specified port will be assigned to tun2socksPort"), in every start *)
(* that makes a trojan thread.  One that finds the thread of an earlier    *)
(* start leaves it on its port, whatever it writes into the configuration: *)
(* JNIHelper.trojan then does nothing.                                     *)
PortReached ==
  state = "STARTED" /\ trojan = "running" /\ ~ kept => upstream = listen_port

(* "clash and trojan should NOT listen on the same port".                  *)
PortsDiffer == clash_port # NoPort => clash_port # trojan_port

(* stop() waits for the trojan thread without a time limit, on the main    *)
(* thread too: whoever waits has stopped the io_context of that thread,    *)
(* and run() does not undo it, even when stop() came before run().  Only   *)
(* when onRevoke has freed the Service under a second start may stop() on  *)
(* the main thread join a trojan thread that was told nothing.             *)
WaitEnds ==
  \A t \in Threads :
    At(t, "wait") => io_stopped \/ (t = "main" /\ revoked /\ starts > 1)

(* What the clients see of the process: the steps of the main thread that  *)
(* they, or Android, are told of.                                          *)
Told == States \cup {"finish", "stopSelf", "return", "kill"}
Outline(steps) ==
  LET f[n \in 0 .. Len(steps)] ==
        IF n = 0 THEN << >>
        ELSE IF steps[n] \notin Told THEN f[n - 1]
        ELSE Append(f[n - 1], IF steps[n] = "finish" THEN "tell" ELSE steps[n])
  IN f[Len(steps)]
Process == INSTANCE ProxyStates WITH doing <- Outline(todo["main"])

(* Without onRevoke the service implements ProxyStates, through crashes     *)
(* and restarts: each state is assigned and told in turn, stopSelf comes    *)
(* between STOPPING and STOPPED, and a start goes on or turns into a stop.  *)
ImplementsProxyStates == Process!ProxySpec
=============================================================================
