----------------------------- MODULE AppClients -----------------------------
(***************************************************************************)
(* The clients of the proxy: MainActivity in the main process and the      *)
(* quick-settings tile in the process ":tools", each with a                *)
(* TrojanConnection, composed with the proxy of ProxyStates.               *)
(*                                                                         *)
(* The main thread of a client runs the messages of its looper one at a    *)
(* time.  registerCallback is a oneway call: it waits in calls for a       *)
(* binder thread of the proxy, and a getState that was made after it may   *)
(* be answered before it.                                                  *)
(***************************************************************************)
EXTENDS ProxyStates, SequencesExt

CONSTANTS
  Servers,    \* configurations the user can choose from
  None,       \* no configuration
  Uses,       \* sets of clients: those with a connection in one behaviour
  MaxWaiting, \* bound: what waits in inbox, in a looper or in calls
  MaxBefore   \* bound: what waits before a start by a client that is not followed

ASSUME ClientsAssumption ==
  /\ None \notin Servers /\ Uses \subseteq SUBSET {"activity", "tile"}
  /\ MaxWaiting \in Nat /\ MaxBefore \in Nat

VARIABLES
  used,        \* the clients of this behaviour
  connected,   \* mAlreadyConnected; mCallback is set exactly then
  conn,        \* Android: how far the binding is
  service,     \* mTrojanService: null, of the process that lives, or dead
  registered,  \* mServiceCallbackRegistered
  asking,      \* onServiceConnected has not called getState yet
  looper,      \* messages for the main thread
  calls,       \* oneway calls the proxy has not executed
  callbacks,   \* mCallbackList of the proxy
  missed,      \* history: a state was told between getState and register
  proxyState, isReconnection, instance, enabled, dialog,   \* MainActivity
  tap_pending, \* mTapPending of the tile
  file,        \* the trojan configuration file
  serving,     \* the configuration the trojan thread has read
  unread,      \* history: a start or an import that the trojan which runs has not read
  consented,   \* the user let the app be a VPN
  refused,     \* history: the last dialog was refused, or the configuration invalid
  lost,        \* history: the proxy died before it told STOPPED to a reconnection
  twice        \* history: onServiceConnected threw

links    == <<connected, conn, service, registered, asking, looper, calls,
              callbacks, missed, twice>>
activity == <<proxyState, isReconnection, instance, enabled, dialog, refused>>
configs  == <<file, serving, unread, consented>>
vars     == <<proxy, used, links, activity, tap_pending, configs, lost>>

Clients == {"activity", "tile"}

Init ==
  /\ used \in Uses
  /\ ProxyInit /\ ~ bound
  /\ connected = [c \in Clients |-> FALSE] /\ conn = [c \in Clients |-> "unbound"]
  /\ service = [c \in Clients |-> "null"] /\ registered = [c \in Clients |-> FALSE]
  /\ asking = [c \in Clients |-> FALSE] /\ looper = [c \in Clients |-> << >>]
  /\ calls = [c \in Clients |-> << >>] /\ callbacks = {}
  /\ missed = FALSE /\ twice = FALSE
  /\ proxyState = "NONE" /\ isReconnection = FALSE /\ instance = None
  /\ enabled = FALSE /\ dialog = FALSE /\ refused = FALSE
  /\ tap_pending = FALSE /\ file \in Servers \cup {None} /\ serving = None
  /\ unread = FALSE /\ consented \in BOOLEAN /\ lost = FALSE

-----------------------------------------------------------------------------
(* TrojanConnection.                                                       *)

Free(c) == connected[c] /\ ~ asking[c]

Post(c, m) == looper' = [looper EXCEPT ![c] = Append(@, m)]
Pop(c)     == looper' = [looper EXCEPT ![c] = Tail(@)]
First(c, m) == ~ asking[c] /\ looper[c] # << >> /\ Head(looper[c]) = m

(* connect(): Android binds, and makes the process if there is none.       *)
Connect(c) ==
  /\ c \in used /\ ~ connected[c]
  /\ connected' = [connected EXCEPT ![c] = TRUE]
  /\ conn' = [conn EXCEPT ![c] = "bound"]
  /\ Bind(TRUE)
  /\ UNCHANGED <<service, registered, asking, looper, calls, callbacks, missed, twice>>

(* Android has the binder of a process: onServiceConnected is posted.      *)
Publish(c) ==
  /\ proc /\ conn[c] = "bound"
  /\ conn' = [conn EXCEPT ![c] = "published"] /\ Post(c, "connected")
  /\ UNCHANGED <<proxy, connected, service, registered, asking, calls, callbacks,
                 missed, twice, activity, tap_pending, configs, lost>>

Called(c, call) ==
  IF service[c] = "live" THEN [calls EXCEPT ![c] = Append(@, call)] ELSE calls

NullFirst(c) == registered                                                \* mutant
UnregisterCallback(c) == [registered EXCEPT ![c] = FALSE]

ServiceKept(c) == service                                                 \* mutant
ServiceReleased(c) == [service EXCEPT ![c] = "null"]

(* disconnect().  What Android has posted for the connection is dropped,   *)
(* what the callback has posted is not.                                    *)
Disconnect(c) ==
  /\ Free(c) /\ Len(calls[c]) < MaxWaiting
  /\ registered' = UnregisterCallback(c)
  /\ calls' = IF service[c] # "null" /\ registered[c] THEN Called(c, "unregister") ELSE calls
  /\ connected' = [connected EXCEPT ![c] = FALSE]
  /\ conn' = [conn EXCEPT ![c] = "unbound"]
  /\ service' = ServiceReleased(c)
  /\ looper' = [looper EXCEPT ![c] = RemoveFirst(RemoveFirst(@, "connected"), "died")]
  /\ Bind(\E d \in Clients : conn'[d] # "unbound")
  /\ UNCHANGED <<asking, callbacks, missed, twice>>

(* onServiceConnected up to the registration; AskState is the rest.        *)
Connected(c) ==
  /\ First(c, "connected") /\ Pop(c) /\ Len(calls[c]) < MaxWaiting
  /\ conn' = [conn EXCEPT ![c] = "active"]
  /\ service' = [service EXCEPT ![c] = "live"]
  /\ twice' = (twice \/ registered[c])
  /\ registered' = [registered EXCEPT ![c] = TRUE]
  /\ calls' = [calls EXCEPT ![c] = Append(@, "register")]
  /\ asking' = [asking EXCEPT ![c] = TRUE]
  /\ missed' = (missed /\ c # "activity")
  /\ UNCHANGED <<proxy, connected, callbacks, activity, tap_pending, configs, lost>>

Disconnected(c) ==
  /\ First(c, "died") /\ Pop(c)
  /\ registered' = UnregisterCallback(c)
  /\ service' = [service EXCEPT ![c] = "null"]
  /\ UNCHANGED <<proxy, connected, conn, asking, calls, callbacks, missed, twice,
                 activity, tap_pending, configs, lost>>

(* A binder thread of the proxy executes a oneway call.                    *)
RunCall(c) ==
  /\ calls[c] # << >>
  /\ callbacks' = IF Head(calls[c]) = "register" THEN callbacks \cup {c} ELSE callbacks \ {c}
  /\ calls' = [calls EXCEPT ![c] = Tail(@)]
  /\ UNCHANGED <<proxy, connected, conn, service, registered, asking, looper, missed,
                 twice, activity, tap_pending, configs, lost>>

(* The process of a client is gone.                                        *)
Fresh(c) ==
  /\ connected' = [connected EXCEPT ![c] = FALSE]
  /\ conn' = [conn EXCEPT ![c] = "unbound"]
  /\ service' = [service EXCEPT ![c] = "null"]
  /\ registered' = [registered EXCEPT ![c] = FALSE]
  /\ asking' = [asking EXCEPT ![c] = FALSE]
  /\ looper' = [looper EXCEPT ![c] = << >>]
  /\ calls' = [calls EXCEPT ![c] = << >>]
  /\ callbacks' = callbacks \ {c}
  /\ Bind(\E d \in Clients : conn'[d] # "unbound")
  /\ missed' = (missed /\ c # "activity") /\ UNCHANGED twice

-----------------------------------------------------------------------------
(* The proxy.                                                              *)

(* What the tile shows is not modelled, so what it is told does not matter. *)
ToldEarly(c) ==                                                           \* mutant
  IF c # "activity" THEN "state" ELSE IF state = "STARTED" THEN "STARTING" ELSE state
Told(c) == IF c = "activity" THEN state ELSE "state"

(* notifyStateChange: the binder threads of the clients post it to their   *)
(* main threads, if there is a callback when they look.                    *)
TellClients ==
  /\ Tell
  /\ \A c \in callbacks : Len(looper[c]) < MaxWaiting
  /\ looper' = [c \in Clients |-> IF c \in callbacks /\ connected[c]
                                  THEN Append(looper[c], Told(c)) ELSE looper[c]]
  /\ missed' = (missed \/ (conn["activity"] = "active" /\ ~ asking["activity"]
                          /\ "activity" \notin callbacks))
  /\ UNCHANGED <<connected, conn, service, registered, asking, calls, callbacks,
                 twice, activity, tap_pending, configs, lost>>

(* The trojan thread, once in the life of a process, reads the file.       *)
Announce ==
  /\ Assign
  /\ IF state' # "STARTED" THEN UNCHANGED <<serving, unread>>
     ELSE IF serving = None THEN serving' = file /\ UNCHANGED unread
     ELSE unread' = TRUE /\ UNCHANGED serving
  /\ UNCHANGED <<links, activity, tap_pending, file, consented, lost>>

ProxyWorks ==
  /\ Handle \/ StopSelf \/ Return \/ Detour \/ Create
  /\ UNCHANGED <<links, activity, tap_pending, configs, lost>>

(* The process dies: who was connected is told, who was about to be has    *)
(* nothing to connect to.                                                  *)
ProxyDies ==
  /\ Gone
  /\ conn' = [c \in Clients |-> IF conn[c] = "unbound" THEN "unbound" ELSE "bound"]
  /\ looper' = [c \in Clients |->
       IF conn[c] = "active" THEN Append(looper[c], "died")
       ELSE RemoveFirst(looper[c], "connected")]
  /\ service' = [c \in Clients |-> IF service[c] = "live" THEN "dead" ELSE service[c]]
  /\ calls' = [c \in Clients |-> << >>] /\ callbacks' = {}
  /\ serving' = None /\ unread' = FALSE
  /\ lost' = (lost \/ (isReconnection /\ "STOPPED" \notin
                {looper["activity"][i] : i \in DOMAIN looper["activity"]}))
  /\ UNCHANGED <<connected, registered, asking, missed, twice, activity, tap_pending,
                 file, consented>>

-----------------------------------------------------------------------------
(* MainActivity.                                                           *)

NotYet == Len(inbox) < MaxWaiting

(* onCreate: the configuration of the file is the instance.                *)
Launch ==
  /\ Connect("activity")
  /\ instance' = file
  /\ UNCHANGED <<proxyState, isReconnection, enabled, dialog, refused, tap_pending,
                 configs, lost>>

(* The process of the activity ends.                                       *)
GoneActivity ==
  /\ Fresh("activity")
  /\ proxyState' = "NONE" /\ isReconnection' = FALSE /\ instance' = None
  /\ enabled' = FALSE /\ dialog' = FALSE /\ refused' = FALSE /\ lost' = FALSE

Exit ==
  /\ connected["activity"] /\ GoneActivity
  /\ UNCHANGED <<tap_pending, configs>>

(* getState at the end of onServiceConnected.  When the proxy has died     *)
(* meanwhile the RemoteException becomes one that ends the app.            *)
AskState ==
  /\ asking["activity"]
  /\ IF service["activity"] = "live"
     THEN /\ asking' = [asking EXCEPT !["activity"] = FALSE]
          /\ proxyState' = state /\ enabled' = TRUE
          /\ UNCHANGED <<proxy, connected, conn, service, registered, looper, calls,
                         callbacks, missed, twice, isReconnection, instance, dialog,
                         refused, lost>>
     ELSE GoneActivity
  /\ UNCHANGED <<tap_pending, configs>>

(* setConnection with the proxy in state s.                                *)
AtRest == {"NONE", "STOPPED"}
SavesAlways(s) == instance                                                \* mutant
Saved(s) == IF s \in AtRest THEN instance ELSE file

SetConnection(s) ==
  IF instance = None THEN refused' = TRUE /\ UNCHANGED <<proxy, file, dialog>>
  ELSE /\ refused' = FALSE /\ file' = Saved(s)
       /\ dialog' = (dialog \/ (s \in AtRest /\ ~ consented))
       /\ CASE s \in AtRest /\ consented -> StartRequest
            [] s = "STARTED" -> StopRequest
            [] OTHER -> UNCHANGED proxy

(* The button of the home page, which is disabled until a state is heard.  *)
TapConnect ==
  /\ Free("activity") /\ enabled /\ ~ dialog /\ NotYet
  /\ enabled' = FALSE
  /\ SetConnection(proxyState)
  /\ UNCHANGED <<links, proxyState, isReconnection, instance, tap_pending, serving,
                 unread, consented, lost>>

Answer ==
  /\ Free("activity") /\ dialog /\ NotYet /\ dialog' = FALSE
  /\ \/ consented' = TRUE /\ StartRequest /\ UNCHANGED refused
     \/ refused' = TRUE /\ UNCHANGED <<proxy, consented>>
  /\ UNCHANGED <<links, proxyState, isReconnection, instance, enabled, tap_pending,
                 file, serving, unread, lost>>

(* Another server is chosen in the list: at rest it becomes the instance;  *)
(* while the proxy is on, the proxy is stopped first; otherwise nothing.   *)
Select ==
  /\ Free("activity") /\ ~ dialog /\ NotYet
  /\ \E s \in Servers \ {instance} :
       \/ proxyState = "NONE" /\ instance' = s /\ UNCHANGED <<proxy, isReconnection>>
       \/ /\ proxyState = "STARTED" /\ instance' = s /\ isReconnection' = TRUE
          /\ StopRequest
  /\ lost' = (lost \/ (isReconnection' /\ ~ proc))
  /\ UNCHANGED <<links, proxyState, enabled, dialog, refused, tap_pending, configs>>

(* A URL in the clipboard is imported: at once the instance and the file.  *)
Import ==
  /\ Free("activity") /\ ~ dialog
  /\ \E s \in Servers \ {instance} : instance' = s /\ file' = s
  /\ unread' = (unread \/ serving # None)
  /\ UNCHANGED <<proxy, links, proxyState, isReconnection, enabled, dialog, refused,
                 tap_pending, serving, consented, lost>>

KeepsFlag == isReconnection                                               \* mutant
Reconnected == FALSE

(* onStateChanged.                                                         *)
StateChanged ==
  /\ \E s \in ProxyState :
       /\ First("activity", s) /\ Pop("activity")
       /\ proxyState' = s /\ enabled' = TRUE
       /\ IF s = "STOPPED" /\ isReconnection
          THEN isReconnection' = Reconnected /\ lost' = FALSE /\ SetConnection(s)
          ELSE UNCHANGED <<proxy, isReconnection, lost, file, dialog, refused>>
  /\ UNCHANGED <<connected, conn, service, registered, asking, calls, callbacks, missed,
                 twice, instance, tap_pending, serving, unread, consented>>

-----------------------------------------------------------------------------
(* The tile.                                                               *)

StartListening ==
  /\ Connect("tile")
  /\ UNCHANGED <<activity, tap_pending, configs, lost>>

StopListening ==
  /\ Disconnect("tile")
  /\ UNCHANGED <<activity, tap_pending, configs, lost>>

(* onClick once there is a service: what it says is the state that counts. *)
Toggle ==
  CASE state = "STARTED" -> StopRequest
    [] state \in AtRest /\ file # None /\ consented -> StartRequest
    [] OTHER -> UNCHANGED proxy

Click ==
  /\ Free("tile") /\ NotYet
  /\ IF service["tile"] = "null"
     THEN tap_pending' = TRUE /\ UNCHANGED proxy
     ELSE /\ UNCHANGED tap_pending
          /\ IF service["tile"] = "live" THEN Toggle ELSE UNCHANGED proxy
  /\ UNCHANGED <<links, activity, configs, lost>>

(* The tile of a behaviour in which its connection is not of interest.     *)
ClickElsewhere ==
  /\ "tile" \notin used /\ proc /\ NotYet /\ Toggle
  /\ state = "STARTED" \/ Len(inbox) < MaxBefore
  /\ UNCHANGED <<links, activity, tap_pending, configs, lost>>

(* The rest of onServiceConnected: a tap that came too early is made good. *)
TileAsks ==
  /\ asking["tile"]
  /\ asking' = [asking EXCEPT !["tile"] = FALSE]
  /\ IF service["tile"] = "live" /\ tap_pending
     THEN tap_pending' = FALSE /\ Toggle
     ELSE UNCHANGED <<tap_pending, proxy>>
  /\ UNCHANGED <<connected, conn, service, registered, looper, calls, callbacks, missed,
                 twice, activity, configs, lost>>

(* A state for the tile.  One that was posted before disconnect() finds no *)
(* callback: a NullPointerException ends the process of the tile.          *)
TileState ==
  /\ First("tile", "state")
  /\ IF connected["tile"]
     THEN /\ Pop("tile")
          /\ UNCHANGED <<proxy, connected, conn, service, registered, asking, calls,
                         callbacks, missed, twice, tap_pending>>
     ELSE Fresh("tile") /\ tap_pending' = FALSE
  /\ UNCHANGED <<activity, configs, lost>>

-----------------------------------------------------------------------------
Looper(c) == Connected(c) \/ Disconnected(c)
Works ==
  \/ TellClients \/ Announce \/ ProxyWorks
  \/ \E c \in Clients : Publish(c) \/ RunCall(c) \/ Looper(c)
  \/ AskState \/ StateChanged \/ TileAsks \/ TileState

User ==
  \/ Launch \/ Exit \/ TapConnect \/ Answer \/ Select \/ Import
  \/ StartListening \/ StopListening \/ Click \/ ClickElsewhere

Next == (Works \/ ProxyDies \/ User) /\ UNCHANGED used

Spec == Init /\ [][Next]_vars
-----------------------------------------------------------------------------
(* Type invariant: the types, and that a client which has disconnected     *)
(* holds no ITrojanService, dead or alive: no onServiceConnected comes     *)
(* after disconnect(), in whatever order the main thread gets to them.     *)
Types ==
  /\ proc \in BOOLEAN /\ bound \in BOOLEAN /\ requested \in BOOLEAN
  /\ inbox \in Seq({"start", "stop"}) /\ state \in ProxyState
  /\ doing \in Seq(ProxyState \cup {"tell", "stopSelf", "return", "kill"})
  /\ connected \in [Clients -> BOOLEAN] /\ registered \in [Clients -> BOOLEAN]
  /\ conn \in [Clients -> {"unbound", "bound", "published", "active"}]
  /\ service \in [Clients -> {"null", "live", "dead"}] /\ asking \in [Clients -> BOOLEAN]
  /\ looper \in [Clients -> Seq(ProxyState \cup {"state", "connected", "died"})]
  /\ calls \in [Clients -> Seq({"register", "unregister"})] /\ callbacks \subseteq Clients
  /\ missed \in BOOLEAN /\ twice \in BOOLEAN
  /\ proxyState \in ProxyState /\ {instance, file, serving} \subseteq Servers \cup {None}
  /\ {isReconnection, enabled, dialog, refused, tap_pending, consented, unread, lost} \subseteq BOOLEAN

TypeOK ==
  /\ Types
  /\ \A c \in Clients : service[c] # "null" => connected[c]

(* "TrojanServiceCallback already registered!" is never thrown: whatever   *)
(* the order of binder deaths, connections and disconnections, the flag is *)
(* reset before a new binder comes, and is set only while there is one.    *)
RegisteredOnce ==
  /\ ~ twice
  /\ \A c \in Clients : registered[c] => service[c] # "null" /\ conn[c] # "unbound"

Settled ==
  /\ Free("activity") /\ conn["activity"] = "active"
  /\ looper["activity"] = << >> /\ calls["activity"] = << >>
  /\ doing = << >> \/ Head(doing) # "tell"

(* When nothing is under way the activity shows the state of the proxy,    *)
(* through deaths of the proxy and reconnections; the one state it can     *)
(* miss is told between its getState and the registration before it, which *)
(* is a oneway call.                                                       *)
ViewIsCurrent == Settled /\ ~ missed => proxyState = state

(* The button is disabled until the next state is heard.  It comes back:   *)
(* when nothing is under way it is enabled, unless the configuration was   *)
(* invalid, the user refused the VPN or a state was missed.                *)
ButtonReturns ==
  Settled /\ doing = << >> /\ inbox = << >> /\ ~ dialog =>
    enabled \/ refused \/ missed

(* The proxy runs with the configuration of the file, whoever started it,   *)
(* unless one was imported or came with a second start since: trojan runs   *)
(* already and does not read the file again.                                *)
RunsTheFile == state = "STARTED" /\ inbox = << >> => serving = file \/ unread

(* A reconnection is carried out: it is not left over when nothing is under *)
(* way, unless the proxy died before it told STOPPED.                       *)
ReconnectionHappens ==
  doing = << >> /\ inbox = << >> /\ looper["activity"] = << >> /\ isReconnection => lost
=============================================================================
