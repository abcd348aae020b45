# A verification project for Feifan

Feifan is an Android VPN client. A Java app (`app/src/main/java`) owns the VPN
interface and the servers' configurations; it runs the trojan proxy, a C++ program
linked in through JNI (`app/src/main/cpp`), which talks to a trojan server over TLS.
This directory holds TLA+ models of the parts of that program whose correctness is
a matter of interleavings, ordering and failure, the TLC runs that check them, and
TLAPS proofs of what matters most.

Paths below are relative to the repository. `trojan/` stands for
`app/src/main/cpp/trojan/src/`, `feifan/` for `app/src/main/java/com/main/feifan/`,
`x_base/` for `x_base/src/main/java/com/main/x_base/`.

## Inventory

| Component | State | Operations | Hard behaviour | What makes it correct |
|---|---|---|---|---|
| **ClientSession** (`trojan/session/clientsession.cpp`) | `status`, three sockets, `out_write_buf`, `udp_data_buf`, the pending Asio operations | one handler per read, write and connection step; `destroy` | cancels that race with completions; results that arrive after `destroy`; a TLS shutdown nobody answers | nothing lost, repeated or reordered; one operation in flight per direction; everything released |
| **ForwardSession, NATSession** (`trojan/session/forwardsession.cpp`, `natsession.cpp`) | the same without SOCKS | the same chain, started by `start` | the same | the same |
| **ServerSession** (`trojan/session/serversession.cpp`) | `status`, the UDP resolver and sockets, the user's accounting | request parsing, fallback, TCP and UDP relay, `destroy` | UDP resolve racing `destroy`; the request split over reads | relay in order; traffic recorded once |
| **UDPForwardSession** (`trojan/session/udpforwardsession.cpp`) | `status` (with FORWARDING), `gc_timer`, `out_write_buf` | `process` (called by Service), tunnel handlers | the idle timer racing a datagram; a destroyed session that still claims datagrams | one tunnel write at a time; no datagram reordered; idle sessions go away |
| **Service** (`trojan/core/service.cpp`) | acceptor, `udp_sessions` (weak pointers), plugin process | `run`, `stop`, accept loop, UDP dispatch, `reload_cert` | dispatch to sessions that are going away; stop with sessions open | a datagram goes to one session; stopping drains |
| **Authenticator** (`trojan/core/authenticator.cpp`) | a MySQL connection | `auth`, `record` | quota checked at connect, accounted at close | a user's traffic is recorded once |
| **Codecs** (`trojan/proto/*.cpp`) | none | `parse`, `generate` | boundary lengths, prefixes of a packet | parse inverts generate, never reads past the end |
| **JNI glue** (`app/src/main/cpp/jni-helper.cpp`) | `trojanThread`, `trojanService`, `trojanConfig` | `trojan`, `stop` | two threads without a lock | stop stops what was started; one service at a time |
| **ProxyService** (`feifan/ProxyService.java`) | state, the tun descriptor, ports, the callback list | `onStartCommand`, `stop`, `shutdown`, `onRevoke` | start while running, stop while starting | states in order; what was opened is closed |
| **TrojanConnection** (`feifan/connection/TrojanConnection.java`) | binder, registration flags, callback | `connect`, `disconnect`, binder events | callbacks posted after a disconnect; binder death | registered once per binder; what the client shows catches up with the service |
| **MainActivity, tile, ProxyHelper** (`feifan/MainActivity.java`, `feifan/tile/*`) | the last state seen | start, stop, state events | the view lags behind the service | the button comes back, the server shown is the one that serves, a reconnection happens |
| **ServerListDataManager** (`feifan/servers/data`) | one file | save, delete, batch, import, subscribe | read-modify-write on a thread pool without a lock | no update lost |
| **Threads** (`feifan/common/os`) | pools and a main-thread handler | run on main, on work thread | order across threads | |
| **OneTimeMessage, MviDispatcher** (`x_base/dispatch`) | version counters, observers, a bounded list | `observe`, `setValue`, `input` | re-entrant dispatch, a late observer | every observer gets each message at most once |
| **ProtectedUnPeekLiveData** (`x_base/message/callback`) | the same with LiveData | the same | the same | the same |
| **ExemptAppDataManager, SettingsDataManager, PreferencesProvider** | small files and preferences | load, save | two writers of a file | what is loaded is what was saved |
| **Config, Log, TrojanConfig, TrojanHelper, TrojanURLHelper** | configuration records | load, save, parse a URL | none beyond I/O and formatting | a URL parses back to its configuration |
| **UI, data layer, utilities** (`feifan/ui`, `feifan/data`, `feifan/utils`, `feifan/recycle`, `x_base` base classes) | views | event handlers | none of their own | |

How they interact. `MainActivity` and the quick-settings tile start and stop
`ProxyService`, an Android service in its own process, and hear of its state through
`TrojanConnection` (a binder with a list of callbacks). `ProxyService` opens the tun
interface, starts the Go parts (clash, tun2socks: binaries, no source here) and calls
the JNI glue, which runs one `Service` of trojan on a thread. `Service` owns a
single-threaded `io_context`: it accepts connections, makes one session for each, and
gives datagrams to `UDPForwardSession`s. In the app the run type is *client*, so the
sessions are `ClientSession`s. The other session types belong to the same library and
are used with other configurations.

`PROJECT.json` lists every component with its sources and status, and under `hazards`
every place we know of where this code is hard to test.

## The modules

| Module | Models | Kind |
|---|---|---|
| `Asio` | operations of Boost.Asio: waiting, ready, failed, aborted; start, complete, cancel | operators |
| `Relay` | what a relaying session promises: both directions in order, nothing lost, nothing before the request | abstract specification |
| `ClientSession` | `ClientSession` (`clientsession.cpp`) | detailed, implements `Relay` |
| `ForwardSession` | `ForwardSession` (`forwardsession.cpp`), by the actions of `ClientSession` | detailed, implements `Relay` |
| `ServerSession` | `ServerSession` (`serversession.cpp`) and its calls to the Authenticator | detailed, implements `Relay` |
| `UdpForward` | one endpoint of `Service::udp_async_read` and its `UDPForwardSession` | detailed |
| `UdpFraming` | the codecs of `trojan/proto` and the loop that takes packets out of `udp_data_buf`, byte by byte | detailed |
| `ProxyStates` | the process `:proxy` as its clients see it | abstract specification |
| `ProxyService` | the process `:proxy`: `ProxyService.java`, `jni-helper.cpp`, the trojan thread, Android around them | detailed, implements `ProxyStates` |
| `AppClients` | `TrojanConnection`, `MainActivity` and the tile | detailed, composed with `ProxyStates` |
| `OneTimeMessages` | `MviDispatcher`, `FixedLengthList`, `OneTimeMessage` of `x_base` | detailed |
| `MC*` | instances for TLC | model checking |
| `AsioProofs` | what the operators of `Asio` do to the table of operations | lemmas |
| `ClientSessionProofs` (with `ForwardSession`), `ServerSessionProofs`, `UdpForwardProofs` | theorems about the sessions | proofs |
| `UdpFramingProofs` | theorems about the codecs and the packets in the stream | proofs |
| `ProxyServiceProofs` | theorems about `ProxyService` | proofs |
| `AppClientsProofs` | theorems about `AppClients` with `ProxyStates` | proofs |
| `OneTimeMessagesProofs` | theorems about `OneTimeMessages` | proofs |

### Asio

All sessions run on one single-threaded `io_context`, so the unit of interleaving is the
completion handler: every action of the session modules is one handler, run to its end.
What a unit test hardly reaches is *which* handlers are outstanding, and with which
result. `Asio` keeps that as a table `ops[phase][kind]` of counts. An operation that is
`waiting` can be cancelled; one that is `ready` or `failed` has its handler queued and
`cancel()` or `close()` cannot take it back, so it runs later with the result it has. That
is the difference most of the hazards of these sessions come from. `Begin` also covers
the speculative system call: an operation may succeed at once. The order in which queued
handlers run is left open, except where the code's order of calls fixes it
(`Resolved` in `ClientSession`). A resolver lookup that is cancelled inside `getaddrinfo`
still delivers its answer; in the model it is one that was `ready` at that moment.

`Asio` is external: Boost is vendored, and the operators say how `src/` sees it.

### ClientSession

State: `status`, `is_udp`, `first_packet_recv`, the three sockets, `ops`,
`out_write_buf`, `udp_data_buf`, and the histories `to_tunnel` and `to_client` of what was
given to the write calls. Data are numbered pieces: a read of the client's stream or a
datagram; 0 is the trojan request header. One action per handler and status:
`InRecvHandshake` ... `InRecvUdpForward` are the cases of `in_recv`, `InSent*` of
`in_sent`, `Resolved`, `Connected` and `Established` the chain in `in_sent`, `OutRecv*`,
`OutSent`, `UdpSent`, `UdpRecv*` the relays, `Fail` every error branch, `ShutdownDone`
the callback of the TLS shutdown and its timer. `Destroy` is part of the handlers that
call it. Not modelled: exceptions (`udp_socket.bind`), counters, logging.

### ForwardSession

The handlers of `forwardsession.cpp` are those of `clientsession.cpp` written out again for
the cases CONNECT, FORWARD and DESTROY, so the module extends `ClientSession` and says only
where such a session starts and which actions it has. `natsession.cpp` is the same text a
third time; it asks the kernel for the destination, and its session type is refused on
Android (`service.cpp`).

### ServerSession

The same for the server's end. The first read decides: a whole request of a known user
(`InRecvStream`, `InRecvAssociate`), or a stranger, whose bytes go to the fallback
server. `auth_password` says that the user is one of the Authenticator, `recorded` what
`auth->record` was told. `packet` is the UDP packet the resolver's lambda holds.
`ResolvedUdp`, like the code, does not look at `status`: the history `late` notes a packet
sent after `destroy()`.

### UdpForward

One endpoint: `Datagram` is `Service::udp_async_read` handing a datagram to the session
(`FirstDatagram` makes one, `Ignored`, `TakeSent`, `TakeBuffered` are the cases of
`process`/`in_recv`). `Service` holds the session weakly: it is there as long as a
handler is outstanding, hence the guard `Drained(ops)` of `FirstDatagram`. The kind `gc`
is the idle timer, `timer` that of the TLS shutdown. `serving` turns FALSE when a
`send_to` throws out of `io_context.run()`.

### UdpFraming

The session modules take a packet as a member of a small set. `UdpFraming` is about what
they leave out: `AddressLen`, `PacketLen` and `RequestLen` are `SOCKS5Address::parse`,
`UDPPacket::parse` and `TrojanRequest::parse` over sequences of bytes, with their length
tests, and `Deliver`, `Read` and `Destroy` the loop of `udp_sent` (of both sessions) and of
`UDPForwardSession::out_recv`. `Received` is the truncation `async_receive_from` makes at
`MAX_LENGTH`. A sender is a SOCKS5 client behind a `ClientSession`, a
`UDPForwardSession`, or a `ServerSession`.

### ProxyService

Three Java threads (main, a binder thread with `onRevoke`, a connection test) share the
service, its `RemoteCallbackList` and the globals of the JNI glue without a lock. A
thread is the list `todo[t]` of the steps it still has to make that another thread can
see: assigning the state, `beginBroadcast`, `finishBroadcast`, closing the tun device, the
steps of `JNIHelper.stop`, `stopSelf`, the kill. `Step(t)` does the first of them. The
trojan thread is `Load`, `MakeService`, `RunService`, `Exit`. Android is external: start
requests and their redelivery, the loss of a broadcast without a process, the restart of a
sticky service (`Create`, `Gone`). What the code does without the model: routes, DNS
servers, the notification, the network monitor, the Go libraries.

`ProxyStates` keeps of this what a client can see: the state, whether it was told, the
requests that wait, and when Android makes the process again. Under `ImplementsProxyStates`
the list of the main thread is mapped to its `Outline`: the steps that assign, tell,
`stopSelf`, return and kill.

### AppClients

The two clients, each with a main thread (`looper`: what was posted to it) and a
`TrojanConnection`. `connect` and `disconnect` are `Connect` and `Disconnect`; Android posts
`onServiceConnected` (`Publish`, then `Connected`) and `onServiceDisconnected`
(`Disconnected`). `registerCallback` is a oneway call of the AIDL interface: it waits in
`calls` until a binder thread of the proxy executes it (`RunCall`), while `getState`
(`AskState`, `TileAsks`) is answered at once. `TellClients` is `notifyStateChange` followed
by the post in the client. Of the activity: `setConnection`, `onStateChanged`,
`onActivityResult`, the choice of a server, the import of a URL and the button of the home
page, which is disabled until a state is heard. Three places hold a server: `instance` (what the user
sees selected), `file` (what was saved) and `serving` (what the trojan thread has read).
The proxy's process may die at any time (`ProxyDies`).

### OneTimeMessages

Everything runs on the main thread; the difficulty is re-entrance. `stack` holds the calls
of `dispatchingValue` under way. Between `ConsiderNotify` and `Return` an observer is
inside its callback and may send (`SendResult`): a message that is being dispatched is only
marked invalid, another one is dispatched at once inside. `Start` and `Wake` are an owner
that becomes active and is told what it missed.

## The runs

`CHECK_DEADLOCK FALSE` everywhere: a session that is freed and a proxy that is off do
stop. The bounds are on the environment only.

Each `TypeOK` says, besides the types (`Types`), which objects exist together: the datagram
socket of a `ClientSession` never outlives the client's connection; a destroyed
`UDPForwardSession` waits for no resolver and no idle timer; a destroyed `ServerSession`
waits for no resolver and has closed its socket to the destination; a client that is
disconnected holds no `ITrojanService`; the glue holds its `Service` while trojan runs; the
list of messages holds each once.

| Run | Bounds | What it shows |
|---|---|---|
| `Client` | CONNECT and UDP ASSOCIATE, 3 pieces each way, strays while forwarding | `UplinkComplete`, `DownlinkComplete`: nothing lost, repeated or reordered, whatever is buffered, cancelled or in flight when the tunnel comes up. `OneInFlight`, `NeverAbandoned`, `ClosedIsQuiet`. `ImplementsRelay`: refinement. `DestroyedIsReleased`, `EverythingRelayed` under fairness |
| `ClientStray` | 2 and 1, strays while connecting | violation, see below |
| `Forward` | 3 pieces each way | `ImplementsRelay` of the session without SOCKS |
| `Server` | all three kinds of peers, 3 up, 2 down | `UplinkComplete`, `OneInFlight` as above; `UsageRecorded`: a user is charged once, with what was relayed; `DestroyedIsReleased`; `ImplementsRelay` |
| `ServerUsage` | UDP, 2 up, 1 down | violation |
| `UdpForward` | 3 datagrams, 1 read of the tunnel | `UplinkInOrder`, `OneWrite` (FORWARDING means exactly one write), `IdleTimer`, `IdleIsReleased` |
| `UdpFraming` | 3 datagrams; one address of each type; payloads that are empty, look like a header, or fill the buffer; `MAX_LENGTH` is 26 bytes | `Framed`: whatever the reads cut, datagrams come out as they went in, and only a request that was split is taken for a stranger. `CutIsLong`: only a packet longer than `MAX_LENGTH + 1` can end an association, and a SOCKS5 client cannot send one |
| `Proxy` | 2 starts, 1 stop, a take-over by another VPN, ports that are in use | `OffOnceStopped`: a stop that reached `stopSelf` holds against restarts and redelivered starts; `KilledSaysStopped`; `WaitEnds`: who joins the trojan thread has told it to end |
| `ProxyPorts` | every setting of clash, LAN and fixed port; 2 ports; 2 starts, 1 stop, tests | `PortReached`: every start that makes a trojan thread gives the front end the port trojan listens on; `PortsDiffer`; `CrashCauses`: the process crashes in the known ways only; `ImplementsProxyStates`: refinement |
| `ProxyOff` | 1 start and 1 stop | violation |
| `App` | the connection of the activity or of the tile (the tile's clicks always); 2 servers; 2 entries in a looper, in the inbox and in the calls; the client that is not followed starts the proxy only with an empty inbox (`MaxBefore`) | `RegisteredOnce`: "already registered" is never thrown. When nothing is under way: `ViewIsCurrent`, `ButtonReturns`, `ReconnectionHappens`; whenever the proxy is STARTED `RunsTheFile`; each with the exceptions it names |
| `Messages` | 2 owners, 3 messages, a list of 2, 4 sends | `OneTime`: no version twice, nothing out of order; `LatestIsDelivered` |

Why these bounds are enough to be interesting. Each direction of a session holds at most
one piece in flight and one buffered behind it, so three pieces show one sent, one in
flight and one waiting, and every cancel can hit every one of them; two or three packets in
one read exercise the reassembly. In `ProxyService` two starts and a stop give every order
of start, stop and restart of two lives of the process; the restarts themselves are not
bounded. Two ports, the fixed one of the user and another, are enough for two that should
differ or agree. In `UdpFraming` only the order of `MAX_LENGTH` against the sizes of headers and
datagrams matters: 26 holds every request and is less than a full datagram with its header.
In `App` a second entry in each queue is what makes two events race; the two connections
do not share anything but the proxy, so one of them is followed at a time, and the other
client still makes its requests (`ClickElsewhere`); a start of its own it makes before the
button's, not after it, which is enough for two starts of one proxy. In `Messages` the third message pushes
the first out of a list of two, and four sends allow one message to be sent again from
inside its own dispatch.

### Fairness

`IoContextRuns` is weak fairness of every queued handler (`io_context.run()` does not skip
a handler) and of what the kernel and the library end on their own: the resolver, a
connect, the timers, and in `ServerSession` the send of a datagram. Nothing is
assumed of the peers: a read, a TLS handshake, a write to a peer that does not read may
wait for ever. `EverythingRelayed` alone has the peers' cooperation as a premise, written
in the property. The other modules check safety only:
what must happen in the end (the button, the reconnection, the delivery of a message) is
stated of the states in which nothing is under way.

### Where the code does not do what is said of it

* `ClientStray`: a client of a UDP ASSOCIATE that writes on its TCP connection while the
  tunnel is made is treated as TCP data (`clientsession.cpp:191`): two datagram reads,
  two overlapping `async_write` on the TLS stream.
* `ServerUsage`: a UDP lookup answered after `destroy()` reopens the socket and sends a
  packet nobody is charged for (`serversession.cpp:323`).
* `ProxyOff`: `stop()` before the trojan thread has assigned `trojanService` crashes
  (`jni-helper.cpp:39`), and the sticky service is started again.

Met on the way, and visible as an exception in a property that holds:

* an idle time-out that is queued when a datagram arrives still destroys the session
  (`udpforwardsession.cpp:164`), and a handshake that was done when `destroy()` ran makes
  it forward again, without its idle timer, until its TLS shutdown ends (`Revived`);
* a destroyed `UDPForwardSession` claims the datagrams of its endpoint and drops them until
  it is freed (`Ignored`);
* a datagram of a server or a forwarder that fills the receive buffer makes a packet longer
  than `udp_data_buf` may get, and depending on the reads ends the association
  (`clientsession.cpp:357`, `CutIsLong`);
* when Freeport fails clash may be given trojan's port (`ProxyService.java:453`;
  `ProxyPorts` with `FreeportFails = TRUE`); an `onRevoke` that frees the `Service` under a
  second start lets `stop()` join a thread that was told nothing (`WaitEnds`);
* a second start, from the tile and the button, gives the front end new ports while trojan
  stays as it was: with its old port (`kept` in `PortReached`) and its old server (`unread` in `RunsTheFile`); an import from the
  clipboard while the proxy runs changes instance and file, and trojan goes on with the
  server it has read (the same exception);
* a state posted to the tile before `disconnect()` ends its process with a null callback
  (`TileState`, `TrojanConnection.java:56`);
* a proxy that dies before it has told STOPPED leaves the activity with `isReconnection`
  set, and the user's next stop starts it again (`lost` in `ReconnectionHappens`);
* a stopped observer misses a message when another one comes before it starts again
  (`eaten` in `LatestIsDelivered`).

## What is proved

Every theorem holds for all values of the constants: any number of pieces, datagrams,
starts, owners or messages, where a run fixes two or three. The modules state one
inductive invariant each, the conjunction of named parts; the proof that a step keeps it
goes through the actions, with lemmas for the shapes that actions share. The
strengthenings were tried with TLC on the module's run before they were proved.

| Theorem | Says | Inductive invariant |
|---|---|---|
| `ClientSessionProofs!TypeCorrect`, `!OneInFlightAlways` | `TypeOK`, `OneInFlight` | `Types`, `PumpInv`, `LifeInv` |
| `ClientSessionProofs!UplinkNeverLoses`, `!DownlinkNeverLoses`, `!NeverForgotten`, `!ClosedStaysQuiet`, `!RelayImplemented` | `UplinkComplete`, `DownlinkComplete`, `NeverAbandoned`, the action property `ClosedIsQuiet`, and the refinement of `Relay` | with `LifeInv`, `DataInv` |
| `ClientSessionProofs!ForwardOneInFlight`, `!ForwardNeverLoses`, `!ForwardImplementsRelay` | the same of a `ForwardSession` | the same |
| `ServerSessionProofs!TypeCorrect`, `!OneInFlightAlways`, `!UplinkNeverLoses`, `!ChargedOnce`, `!RelayImplemented` | `TypeOK`, `OneInFlight`, `UplinkComplete`, `UsageRecorded`, the refinement of `Relay` | `ShapeInv`, `ClosedInv`, `OneInFlight`, `DataInv` |
| `UdpForwardProofs!TypeCorrect`, `!DatagramsInOrder`, `!WritesNeverOverlap`, `!IdleTimerPending` | `TypeOK`, `UplinkInOrder`, `OneWrite`, `IdleTimer` | `SessionInv`, `ClosedInv`, `UplinkInOrder`, `IdleTimer` |
| `UdpFramingProofs!DatagramsFramed`, `!OnlyLongIsCut` | `Framed`, `CutIsLong` | `FramingInv` |
| `ProxyServiceProofs!TypeCorrect`, `!StaysOff`, `!WaitsEnd`, `!CrashesKnown`, `!StoppedIsHeard`, `!PortsAgree`, `!PortsDifferAlways`, `!ProxyImplements` | `TypeOK`, `OffOnceStopped`, `WaitEnds`, the action properties `CrashCauses` and `KilledSaysStopped`, `PortReached`, `PortsDiffer`, the refinement of `ProxyStates` | `ListInv`, `ThreadInv`, `StopInv`, `WaitInv`, `StartInv`, `OffInv`, `KillInv`, `PortInv`, `OutlineInv` |
| `AppClientsProofs!TypeCorrect`, `!NeverRegisteredTwice`, `!ViewFollows`, `!ButtonComesBack`, `!FileRuns`, `!ReconnectionIsMade` | `TypeOK`, `RegisteredOnce`, `ViewIsCurrent`, `ButtonReturns`, `RunsTheFile`, `ReconnectionHappens` | `ScriptInv`, `LinkInv`, `LooperInv`, `CallInv`, `ViewInv`, `ButtonInv`, `ReconnectionInv`, `FileInv` |
| `OneTimeMessagesProofs!TypeCorrect`, `!DeliveredOnce`, `!DeliveredLatest` | `TypeOK`, `OneTime`, `LatestIsDelivered` | `OnceInv`, `ActiveInv`, `PendingInv`, `EatenInv` |

Premises. `RelayImplemented` of a `ClientSession` assumes `"CONNECT" \notin StrayIn`: the
client of a UDP ASSOCIATE does not write on its TCP connection while the tunnel is made.
`ClientStray` shows what happens otherwise. `PortsAgree` has no premise: what a second start
does to a trojan that runs is excepted in `PortReached` itself, by the history variable
`kept`. `PortsDifferAlways` assumes
that Freeport does not fail; with a failure clash may be given trojan's port.
`ProxyImplements` assumes that no other VPN takes over (`~ Revokes`, as in the run): `onRevoke`
stops the proxy on a binder thread while a start goes on in the main one, and `ProxyStates`
has one thread only. `Proxy` checks the properties that hold with it.
`FramingAssumption` says that the addresses are what `SOCKS5Address::generate` and
`parse` make and take (whole, and valid), that the password has no carriage return
(SHA224 in hexadecimal has none) and that `MAX_LENGTH` is below 65536. The other
theorems have no premise beyond the typing of the constants (`SettingsAssumption` and its
like) and the external semantics of Asio and Android.

### The sessions

`OneInFlight` is not inductive: that forwarding starts with one operation in each direction
depends on what the handshake handler finds and cancels, which depends on which reads
were started in CONNECT. `PumpInv` says how many operations of each kind every status
has; that the chain resolve, connect, handshake has one step under way in CONNECT
(`Chain = 1`); and that from the resolver's answer on no client read has succeeded
unhandled (`ReadsSettled`), so that `cancel()` gets the pending read and `out_sent`
replaces it. The last is why `Resolved` has the guard on the order of handlers.

`LifeInv` says which sockets are open and what still goes on with the session: one step
of the chain until the tunnel is made, one operation of the downlink afterwards. `DataInv`
says where the pieces are that were taken and not yet handed on: in `out_write_buf`, in `udp_data_buf`, or nowhere, according
to the status; the uplink and the downlink are the consequence, and so is the refinement,
where every handler connects and hands on the first flight, relays one piece, closes, or
does nothing the two ends see.

A `ForwardSession` takes steps of a `ClientSession` (`ForwardStep`), and its initial state,
which is not one of a `ClientSession`, satisfies the invariant.

In `ServerSession` the shape says that before the destination is connected there is one
operation and none behind it, so no late answer can connect a destroyed session; the
accounting (`recorded`) is then a statement about the one call of `destroy()`. `ClosedInv`,
here and in `UdpForward`, says what `destroy()` closed or cancelled and that no late handler
starts it again; which handlers are late is what the shape tells.

In `UdpForward` a session may come back after `destroy()` (`Revived`): `SessionInv` says that
it has at most one step of the chain or one write then, and that the status says which;
the order of the datagrams holds all the same.

### UdpFraming

First the codecs, for every string of bytes (`AddressIs` goes through `SOCKS5Address::parse`
type by type). Two strings *agree* when one is a prefix of the other, which is what a read
that may end anywhere leaves (`PrefixAgrees`). `PacketPrefix` and `RequestPrefix`: of a
string that agrees with a packet, or a request, `parse` takes the whole of it when it is
there and calls every proper prefix invalid. For the request that rests on a password
without a carriage return: the first CRLF is then the one behind it (`PasswordEnds`).

The invariant has to say what the stream holds, which is a recursive function of what was
sent. `FramingInv` says instead that there are *tails*: `t[i]` is what is left of the stream
once `i` datagrams were taken out, `t[i] = Packet(sent[i + 1]) \o t[i + 1]`; a receiver that
has delivered `k` datagrams has `buf \o wire = t[k]` before it. A send appends to every
tail, a delivery goes to the next, and the rest is that concatenation can be cancelled.

### ProxyService

What a thread has still to do is a list, so the first question is which lists there are.
`ListInv` answers it: a list is a *program* (`Program`), a start that ends with `return` or
a stop that ends with `kill`, of which some steps are gone and in which JNIHelper.stop or
the announcement of a missing package has been put in front. Programs are described by
what can follow what (`Ordered`), what must come together (`Neighbours`), and what must be
ahead (`Ahead`); the lemmas `TailProgram`, `RulesList`, `JniStopList` and `JoinList` show
that each way of changing a list leaves a program.

The rest relates lists to state. `ThreadInv` and `StopInv`: only a stop that is past its
join (`Through`) has joined the trojan thread or freed the Service, and that is the main
thread's or that of `onRevoke`. So a second join, or a call of a freed Service, needs both,
which is `CrashCauses`. `WaitInv` follows a Service that was freed under a second start.
`OffInv`: once `stopSelf` is behind and no start waits, the service is not requested.
`KillInv`: on the last three steps before the kill STOPPED is the state, is being told, and
has been heard. `PortInv`: how far a start has come says which ports
agree; STARTED is not the state while a start has still to choose or use its ports, and
trojan listens on the port of the configuration unless the start found its thread (`kept`). `StartInv`
counts the requests.

The refinement of `ProxyStates` maps a list to its `Outline`, a recursive function on
lengths. What it makes of a concatenation (`OutlineConcat`), of the rest of a list
(`OutlineTail`) and of the programs that are put on the list (`OutlineSetState`,
`OutlineStop`, `OutlineStart`) is proved by an induction of its own (`Induction`, from the
pigeonhole principle, since the library's theorem takes an operator). Then one lemma per
group of actions shows what the step does to the outline: steps on a descriptor, the
broadcast's beginning and those of the JNI glue leave it alone, the others take its head, and a start that
fails changes its rest. For that the list must be known where a start can fail: `OutlineInv`
says which lists still have `rules` or `establish` in them, that a start before its rules is
STARTING, and that a dead process has no list.

### AppClients

The properties speak of the moments in which nothing is under way, so the invariant has to
say what is. What the proxy still does is a list (`Script`): a state that is assigned is
told next, one that does not last is followed by another, a start ends with its `return`,
and until then it is the first entry of the inbox (`ScriptInv`).

A binder lives as long as the process it belongs to. `LinkInv` says that a client holds a
live one exactly while its connection is active, and that for a dead one "died" waits in the
looper; `LooperInv` that "connected" and "died" wait at most once and in that order of their
causes. So "died" is handled, and `registered` reset, before the next binder comes: this is
`RegisteredOnce`. A dead binder is held only by a client whose connection was not unbound,
so one that disconnected holds none (`TypeOK`).

The activity never disconnects, so `CallInv` can say that its callback is in the list or on
its way there. Then the last message in its looper is the last state that was told
(`ViewInv`), a disabled button has a state in the looper or one that will be told
(`ButtonInv`), and a reconnection has its stop in the inbox, in the script that ends the
process, or STOPPED in the looper (`ReconnectionInv`). `FileInv`: nothing starts without a
file and the consent of the user, and where the file is not what trojan has read a start is
still to come. The theorems hold with both clients at once, where the run follows one.

### OneTimeMessages

Dispatches nest, so the invariant is about the whole stack of calls: `OnceInv` relates
versions, calls under way and what was delivered; by `ActiveInv` a started observer is
active in every message it observes, or is about to be told; by `PendingInv` one that waits
for a version will be asked, by a dispatch under way or when its wrapper is told, unless
another observer has come (`EatenInv`). The module's filter `Without` is a recursive
function on lengths; what it returns is proved by an induction over sets (`Induction`, from the well-founded order of the naturals), since the
induction theorems of the library take an operator and cannot be used by these provers.

### Only model-checked

* Liveness and everything under fairness (`DestroyedIsReleased`, `EverythingRelayed`,
  `IdleIsReleased`): out of the prover's reach.
* The runs that expect a violation: there is nothing to prove.

## Not modelled

See `components` in `PROJECT.json`. In short:

* The server list (`ServerListDataManager`) and the configuration file: threads, and in
  the second case processes, that read, change and write a file without a lock. That an
  update can be lost is plain from the text; nothing in the code answers to it.
* The pools of `Threads`: their users are modelled with the order they need.
* `ProtectedUnPeekLiveData`: built on the LiveData of AndroidX, which has no source here.
* An activity that is created again in its process (`MainActivity` has no `onDestroy`: its first connection stays bound).
* The greeting and the request of SOCKS5, which `ClientSession` wants whole in one read
  each: the refusing branches are taken freely in the model.
* Configuration, logging, preferences, TLS defaults and views: I/O, formatting or layout.
* Boost, OpenSSL, Android and the Go libraries are external and appear as what the code
  relies on.

Six hazards have no property. Two are the files above. In the other four the model makes the
step and there is no promise to hold it to: a datagram that cannot be sent ends the service
(`service.cpp:365`), two broadcasts may tell the same state under `onRevoke`
(`ProxyService.java:209`), an uninstalled package announces STOPPED in the middle of a start
(`ProxyService.java:335`), and a posted state finds no callback of the tile
(`TrojanConnection.java:56`).

Four places are simpler than the code, and no property depends on them beyond its stated
exceptions: `BeginBroadcast` reads the state again together with `beginBroadcast`;
`Announce` reads the file at STARTED, where the code reads it when trojan loads; `Click`
leaves out the tile's first start, which opens the activity; the wrapper of an owner that
wakes up and sends is asleep until `Wake`.

## Plan

In order of importance; what is done is marked.

1. `Asio`, `ClientSession`, `Relay`, `ForwardSession` (**done**); proofs of every safety
   property and of the refinement (**done**).
2. `ProxyService` with the JNI glue, `ProxyStates` (**done**); proofs of every safety
   property and of the refinement (**done**).
3. `UdpForward` with the dispatch of `Service` (**done**); proofs (**done**).
4. `ServerSession` with the Authenticator's calls (**done**); proofs (**done**).
5. `OneTimeMessages` (**done**); proofs (**done**).
6. `AppClients` (**done**); proofs of every safety property (**done**).
7. `UdpFraming` (**done**); proofs (**done**).
8. `ServerList`: the two files above, if a rule for their writers is ever written down.

Constants are parameters with named assumptions, every operation is an action, the
invariants are conjunctions of named parts, and no module a theorem is about declares a
`RECURSIVE` operator.
