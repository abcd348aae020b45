---------------------------- MODULE ProxyStates ----------------------------
(***************************************************************************)
(* The process ":proxy" as its clients see it: the states ProxyService     *)
(* goes through and tells, the requests that wait for its main thread, and *)
(* when Android creates the process again.  ProxyService implements it as  *)
(* long as no other VPN revokes the proxy; AppClients is composed with it. *)
(***************************************************************************)
EXTENDS Integers, Sequences, FiniteSets

VARIABLES
  proc,       \* the process lives
  bound,      \* somebody is bound to the service
  requested,  \* Android: the service is started, not only bound
  inbox,      \* what the main thread has still to handle
  doing,      \* what is left of the request it handles
  state       \* the field state of the service

proxy == <<proc, bound, requested, inbox, doing, state>>

ProxyState == {"NONE", "STARTING", "STARTED", "STOPPING", "STOPPED"}

ProxyInit ==
  /\ proc = FALSE /\ bound \in BOOLEAN /\ requested = FALSE /\ inbox = << >>
  /\ doing = << >> /\ state = "NONE"

Begun   == <<"STARTED", "tell", "return">>
Start   == <<"STARTING", "tell">> \o Begun
Ended   == <<"STOPPED", "tell", "kill">>
Stop    == <<"STOPPING", "tell", "stopSelf">> \o Ended

(* startForegroundService, and the broadcast, which only a process that    *)
(* lives can hear.                                                         *)
StartRequest ==
  /\ requested' = TRUE /\ inbox' = Append(inbox, "start")
  /\ UNCHANGED <<proc, bound, doing, state>>

NoBroadcast == UNCHANGED proxy                                            \* mutant
StopRequest ==
  /\ inbox' = IF proc THEN Append(inbox, "stop") ELSE inbox
  /\ UNCHANGED <<proc, bound, requested, doing, state>>

(* The next request; onDestroy when the service is neither started nor     *)
(* bound.                                                                  *)
Handle ==
  /\ proc /\ doing = << >>
  /\ \/ inbox # << >> /\ doing' = IF Head(inbox) = "start" THEN Start ELSE Stop
     \/ /\ inbox = << >> /\ ~ requested /\ ~ bound
        /\ doing' = <<"STOPPED", "tell">> \o Stop
  /\ UNCHANGED <<proc, bound, requested, inbox, state>>

Next1(step) == proc /\ doing # << >> /\ Head(doing) = step /\ doing' = Tail(doing)

Assign ==
  /\ \E s \in ProxyState : Next1(s) /\ state' = s
  /\ UNCHANGED <<proc, bound, requested, inbox>>

Tell == Next1("tell") /\ UNCHANGED <<proc, bound, requested, inbox, state>>

StopSelf ==
  /\ Next1("stopSelf") /\ requested' = FALSE
  /\ UNCHANGED <<proc, bound, inbox, state>>

Return ==
  /\ Next1("return") /\ inbox' = Tail(inbox)
  /\ UNCHANGED <<proc, bound, requested, state>>

(* In the middle of a start: STOPPED is told because of an application     *)
(* that is not installed, and the start goes on; or there is no tun        *)
(* device, and the proxy stops.                                            *)
Detour ==
  /\ proc /\ doing = Begun
  /\ \/ state = "STARTING" /\ doing' = <<"STOPPED", "tell">> \o Begun
     \/ doing' = Stop
  /\ UNCHANGED <<proc, bound, requested, inbox, state>>

(* The process ends: it kills itself, or it crashes.  A start it had not   *)
(* finished may be delivered again.                                        *)
Gone ==
  /\ proc /\ proc' = FALSE /\ state' = "NONE" /\ doing' = << >>
  /\ \E n \in 0 .. Cardinality({i \in DOMAIN inbox : inbox[i] = "start"}) :
       inbox' = [i \in 1 .. n |-> "start"]
  /\ UNCHANGED <<bound, requested>>
Kill  == doing # << >> /\ Head(doing) = "kill" /\ Gone
Crash == Gone

(* A service that is bound, or started (START_STICKY), is created again.   *)
Create ==
  /\ ~ proc /\ (bound \/ requested \/ inbox # << >>)
  /\ proc' = TRUE
  /\ inbox' = IF requested /\ inbox = << >> THEN <<"start">> ELSE inbox
  /\ UNCHANGED <<bound, requested, doing, state>>

Bind(b) == bound' = b /\ UNCHANGED <<proc, requested, inbox, doing, state>>

ProxyNext ==
  \/ StartRequest \/ StopRequest \/ Handle \/ Assign \/ Tell \/ StopSelf
  \/ Return \/ Detour \/ Kill \/ Crash \/ Create \/ \E b \in BOOLEAN : Bind(b)

ProxySpec == ProxyInit /\ [][ProxyNext]_proxy
=============================================================================
