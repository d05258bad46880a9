# Verification of ric-edge

ric-edge connects field devices to the Rightech cloud. One *core* process talks
MQTT to the cloud and websocket to *connector* processes (BLE, Modbus, OPC-UA,
SNMP) on the same machine. This directory holds TLA+ models of that code, TLC
configurations that check them on small instances, and TLAPS proofs for all
instances. Paths below are relative to the root of the repository.

Every definition names its lines of code in `PROJECT.json` ("map"); the same
file lists the hazards of the code, each with its line and the properties that
watch it.

## 1. Inventory

| Part | Code | State | Operations | Hard about it |
|---|---|---|---|---|
| Connector hub | `internal/pkg/core/ws` | table `conns`, reply channels `req` per connection, `done` | `handler`, `listen`, `Call`, `closeConnOnErr`, `Start`, `Close` | many goroutines, three kinds of lock, no lock held across steps, blocking writes, panics |
| rpc service | `internal/app/core/rpc` | object and model, timeouts, `stateCh`, `requestsCh` | `New`, `Call`, `requestsListener`, `prepareRequest`, `prepareResponse`, `spawnJobs`, `fillTemplate` | timeout against answer, unbuffered channels, payload slices shared by cron ticks |
| MQTT bridge | `internal/pkg/core/mqtt`, `pkg/store/mqtt` | paho session, packets in bbolt | `New`, `rpcCallback`, `publishListener`, `publish`, the store | QoS 1 redelivery, a crash between execution and acknowledgement |
| State store | `pkg/store/state` | a tree in memory, flat keys in bbolt | `NewService`, `Get`, `Set` | memory and database updated in two steps, restart |
| Lua machine | `pkg/lua` | compiled functions, one global environment | `Add`, `Remove`, `Execute` | `param` is a global that concurrent executions share |
| Cloud model | `internal/pkg/core/cloud` | object, model, actions, expressions | `LoadObject`, `LoadModel`, `prepare`, `walk`, `afterWalk`, `fillPayload` | the path of subsystems while walking the tree |
| Jobs | `internal/pkg/core/jobs` | cron entries | `AddFunc`, `Remove` | one failed entry fails the start |
| Connector rpc | `pkg/jsonrpc`, `internal/pkg/ws` | the websocket, a writer lock | `Serve`, `ServeWithReconnect`, `Send`, `handleMessage`, `Connect` | reconnection under requests and notifications, lost frames |
| BLE handler | `internal/app/ble/handler` | `conns`: address to client | scan, discover, read, write, subscribe, cancel | the one client of a device is shared and must be released |
| Modbus handler | `internal/app/modbus/handler` | the client | eight reads and writes | bit and register packing, 16 bit arithmetic |
| OPC-UA handler | `internal/app/opcua/handler` | the client | read, write, browse | types of values, paths and depth of browse |
| SNMP handler | `internal/app/snmp/handler` | the client | get, get-next, get-bulk, walk, bulk-walk, set, send-trap | parsing of PDUs, refusals of the agent |
| Start of the processes | `internal/app/*/entrypoint`, `cmd` | | order of construction and of shutdown | a part that runs before the one it needs |
| Update, log, nanoid, utils, config | `pkg/update`, `pkg/log`, ... | | | I/O and formatting |
| Forks and vendored code | `third_party`, `vendor` | | | translated where the code above rests on it |

How they interact:

    cloud --MQTT--> rpcCallback --+                       +--ws--> connector (Serve --> handler)
    cron tick  -------------------+--> rpc.Call --> ws.Call        |
    subscribe goroutine ----------+        ^                       |
                                           | reply channel         |
                                         listen <-----ws-----------+--- notification (Send)
                                           | requestsCh
                                    requestsListener --> Lua, state.Set
                                           | stateCh    ^
                                    publishListener     +-- prepareResponse of a read call
                                           +--MQTT--> cloud

What makes each part correct: an answer reaches the call it belongs to and no
other; a call always returns; a refused call was not executed; a broken
connection frees its name and a live one keeps it; values are published once,
in order, and none waits for ever; a request of the cloud is answered before
it is forgotten, and run again only when it must be; memory and database agree;
an expression sees its own reading; a template is replaced without touching its
neighbours; a read goes to the connector that contains it; a connector recovers
from a lost connection and answers each request once, where it was asked; a
device that was connected is released; a handler answers what its device holds
and has done what it reports as done.

## 2. Modules

    RequestReply <== WsHub                 (<== implements)
    EdgeCore = WsHub + the pipeline behind it
    ReadingsStore = StateStore + LuaMachine
    Connectors = one of ModbusHandler, SnmpHandler, OpcuaHandler, each a Handler
    Expansion    <== Template              (both on texts with Placeholders)
    MqttBridge, ConnectorPeer, BleClients, CloudModel

| Module | Models | Proofs |
|---|---|---|
| `RequestReply` | the abstract promise to a caller: asked, executed at most once, returned once | |
| `WsHub` | the hub, the waiting half of `rpc.Call`, the connectors as peers | `EdgeCoreProofs` |
| `EdgeCore` | the hub, the relay, the publisher, and the order of `Start` | `EdgeCoreProofs` |
| `StateStore` | the store: tree and bucket, failures, stop and restart | `ReadingsStoreProofs` |
| `LuaMachine` | `Execute` and the global its threads share | |
| `ReadingsStore` | a reading from the relay or a read call through `LuaMachine` into `StateStore` | `ReadingsStoreProofs` |
| `MqttBridge` | the session with the broker, the packet store, losses and crashes | `MqttBridgeProofs` |
| `ConnectorPeer` | a connector at its end of the websocket | `ConnectorPeerProofs` |
| `BleClients` | the table of BLE clients and its calls | `BleClientsProofs` |
| `Handler`, `ModbusHandler`, `SnmpHandler`, `OpcuaHandler`, `Connectors` | the three handlers that only answer requests | `ConnectorsProofs` |
| `CloudModel` | `LoadObject`, `LoadModel`, `walk`, `afterWalk`, `fillPayload`, `spawnJobs` | `CloudProofs` |
| `Placeholders` | where a placeholder begins and ends, and its value | |
| `Expansion` | the abstract promise of `fillTemplate`: one placeholder of a text after the other is replaced | |
| `Template`, `TemplateReference` | `fillTemplate` over the ticks of a job; its meaning on values | `TemplateProofs` |

`MC*` modules hold the constants and definitions TLC needs.

### WsHub

One action is one critical section or channel operation of a goroutine.

* `handler`: `Check` (the look into the table, 237-248), then `Insert`
  (267-271) or `UpgradeFails`. The two sections are separate steps, as in the
  code.
* `Call`: `Lookup`, then one of `WriteDelivered`, `WriteVanishes`,
  `WriteFails`; `Register`; or, after a failed write, `CallClose` and
  `CallDrop` (`closeConnOnErr`). `Receive` and `Timeout` are the `select` of
  `rpc.Service.Call`.
* `listen`: `ListenReply` (lookup, delete and send are one step: between them
  the listener touches nothing that others read, and `ReplyNeverBlocks` shows
  that the send never waits), `ListenOrphan` (the panic), `ListenNote` and
  `HandOver` (the blocking send on `requestsCh`), `ListenError`, `ListenClose`,
  `ListenDrop`, and `ListenLeave` when `done` is closed.
* `Close`: `Shutdown` closes every registered connection while it holds the
  read lock, so it is one step; `Exit` ends the process, at any time.
* A connector: `Serve` answers in order, `Notify` sends notifications, `Cut` is
  a connection that breaks; the frames the core had not received are lost from
  some point on. A broken connection may accept a write (the kernel buffers it)
  or refuse it.

Abstractions: a frame is the call it carries or answers, or the number of a
notification. The two sides share one bounded sequence per direction
(`WireCap`). `cmx`, `mx` and `rmx` are implicit in the atomicity of the steps;
a writer that blocks on a full network holds `cmx`, which can only delay calls
that would block as well. A panic or the exit of the core ends the behaviour.
Connections are finite in number and not reused, like the websockets they
stand for. `Malformed` are requests that the connector cannot decode: the
answer carries a null id.

### EdgeCore

`EdgeCore` extends `WsHub` by the two unbuffered channels. `RelayTake` is the
rendezvous of `HandOver` with the receiver, so a listener waits while the relay
works. `PostStore`, `PostSend` and `PostError` are `prepareResponse` in the
goroutine of a read call. `Publish` is the rendezvous on `stateCh`. `StartRpc`
and `StartMqtt` keep the order of `entrypoint.Start`: the hub accepts
connectors before the relay runs, and the relay runs before the publisher.
`met` is a history variable: readings that were stored while a read call was
between its `state.Set` and its send, and that call's reading.

### StateStore, LuaMachine, ReadingsStore

`mem` is the tree, as the map from the keys of its leaves; `db` the bucket.
`SetMemory` is the part of `Set` under the lock, `Persist` or `PersistFails`
the transaction. `Put` is what `objx.Map.Set` does to a tree: a leaf above the
key is replaced by a map, a subtree below it is dropped. `Load` is `getAll`,
which stores a dotted key as one name. `Stop` may come between any two steps;
`Start` is `NewService`. `Stored(v)` is what marshalling and unmarshalling make
of a value: `jsoniter.ConfigFastest` writes a float with six digits, and bytes
(the reading of a connector that is no number or text) as base64. The memory
keeps the value as it came until a restart. `agreed` is a history variable: the
keys whose last `Set` ran alone and returned nil, and after a start the keys
without dots. Values are scalars; selectors with brackets are left out.

`Execute`, `SetGlobal`, `PCall` and `Taken` are the steps of one execution of
an expression. `param` is the global; `killed` stands for the fatal error of
the Go runtime over concurrent access to the map of globals, which it may or
may not notice. `mixed` is a history variable: executions that met another.
`ReadingsStore` runs both in each goroutine: `Take`, `Convert`, `Keep`
(the first half of `Set`), `Finish`; `Halt` and `Restart` end and start the
process.

### MqttBridge

`phase` is where `New`, `Close` and the process are. `Open`, `Connect`,
`Connected`, `Subscribe`, `Granted` are `New`; a connection that is lost before
the subscription is answered leaves it `hung` (`LoseSubscription`), because the
wait has no timeout and a reconnect does not send it again. `Respond` and
`Acknowledge` are `rpcCallback` after `Call` and after `publish`; `Put` and
`Del` are the packet store, whose errors are logged and ignored (`failed` keeps
them as history). The library is translated from its vendored source, as `New`
configures it (clean session off, order does not matter, automatic
reconnection): `Deliver` stores a packet and hands it to the router; `Resume`
reads the store once for each connection, and `Inject` puts what it found into
the router, storing it again; `Acknowledge` deletes the stored packet at once,
and its PUBACK waits in `acks` for `SendAck`, on this connection or a later
one. `Lose` is a lost connection, `Crash` the end of the process at any point.
The regular end takes two steps, as in paho: `Disconnect` sets the status, from
which on `Publish` refuses a response (`refused`) while acknowledgements still go
out; `Close` ends the connection; then comes `Exit`. A request that finds no
route is neither handled nor acknowledged (`missed`).

### ConnectorPeer

The server goroutine: `Read`, `ReadFails`, `Enter` and `Leave` (around the
handler), `NextWriter` or `NoWriter`, `WriteAnswer`, `Reconnect`, `GiveUp`. A
subscription: `Begin`, `SendWriter`, `WriteNote`. `writer` is the lock that
both need. A write to a broken connection vanishes: `Closer.Close` drops its
error, and gorilla's websocket remembers it, so that the next writer is refused
(`broken`). What ends the process is modelled as well: an answer or notification
that has no JSON (`NoJson`) or that does not fit into the buffer of a broken
connection (`TooBig`; both in `WriteVal`), a handler that returns neither result
nor error or panics (`Fatal`). `OneLock` is the setting of the BLE connector, where a
notification is delivered under the lock of `gatt.Client`.

### BleClients

`jsonrpc.Serve` runs one call at a time, so a call is one action, with the
place where it fails left open; devices come and go in between (`Drop`). `kept`
is the handler's `conns`; `flags`, `handler` and `ccc` are, for every
characteristic, what a client of the library has recorded, whom it calls, and
what the device has turned on, as `setHandlers` keeps them by value handle. A
kept client appends what it discovers, so `srv[0].ch[0]` stays the first
characteristic it discovered: `kept[d]` remembers which, and `Subscribe` goes
there (`Chosen`) while its caller is promised the one it named. `promised`,
`doubtful` and `halfway` are history: what callers were told.

### Handlers

`Call(request, answer)` makes one request and its answer visible together,
which is what one iteration of `Serve` does. `ModbusHandler` converts between
lists, bits, words and bytes as the code does, with `ByteBits` bits in a byte,
against a device with a table of bits and one of registers. `SnmpHandler` has
an agent with oids, some of them read-only; `Limit` stands for 2^32. Its reads
change nothing and answer with entries of the agent; no property is about them.
`OpcuaHandler` has a server with nodes, types and references in order. A type
may be narrow, or round what it is given (`Rounded`: Float, DateTime). A browse
gets the first references of every kind that the server gives (`Returned`):
gopcua looks at no status of a browse, so the others are left out silently.
`Connectors` is the process with one of the three.

### CloudModel

A model is a tree: nodes with kinds, and one unusual thing about it
(`Variants`). `stack` holds the calls of `walk`, `seen` the nodes its loops have
come to. The path of a call is a Go slice: an array in `heap` and a length, so
that what `append` does to an array that callers share is part of the model.
One step is one round of a loop: `Skip`, `Take` (a read is noted, or the empty
path is indexed) and `Descend` (`walk` calls itself); `Return` goes back to the
caller, which shortens its path. `Load` is what comes before the walk,
`Prepared` `afterWalk` and `fillPayload`, `Spawn` one round of `spawnJobs`, which
stops at a read of the wrong type (`mistyped`) and leaves those it has started.

### Template

A slice is an array and a length; `shared` is the array that the closure of
`buildJobFn` keeps, `array` the one `append` allocated in this call. One step
is one round of the recursion: `Shrink` is the branch with `copy`,
`GrowInPlace` the branch with `append` when there is room (the first `append`
writes over what `after` refers to), `GrowAway` when there is none. Braces are
characters of the payload and of the values, so a value may hold a placeholder,
also one that brings the value in again; the prefix `object.config.` and the blanks that
`Trim` removes are not modelled. The payload of a job fills its array: the
json encoder allocates exactly its length. Ticks of a job do not overlap
inside `fillTemplate`, which takes microseconds against an interval of at
least a second.

## 3. Runs

| Run | Instance | Shows |
|---|---|---|
| `hub` | 1 type, 2 connections, 2 calls (1 malformed), wire of 1 | `AnswerIsOwn`, `ReplyNeverBlocks`, `ListedIsRead`, `PanicHasReason`, the hub implements `RequestReply`, `EveryCallReturns`, `BrokenIsForgotten` |
| `edge` | 1 connection, 1 read call, 3 notifications (1 bad), wire of 2, the database may fail | `PublishedOnceInOrder`, `StoredIsPublished`, `TakenIsPublished`, `EveryReadReturns` |
| `readings` | keys `a`, `a.b`, `b`; 3 readings, two with an expression, one that cannot be converted, values that JSON keeps and that it changes; 2 goroutines; failures; clean start or not | `AgreedIsStored`, `OwnUnlessMixed` |
| `template` | every payload of up to 6 characters and one with two placeholders; values empty, as long, longer, with a placeholder, with placeholders of each other; 2 ticks | `FillIsExact`, `BeforeIsKept`, the slices implement `Expansion`, `FillEnds` |
| `cloud` | every tree of up to 4 nodes, 8 kinds, 6 variants | `ConnectorIsNearest`, `DeadHasReason`, `ReadyIsComplete` |
| `peer` | 4 requests (1 malformed, 1 whose handler panics and whose answer is large, 1 without an answer, 1 whose answer has no JSON), 1 subscription with 2 notifications, 3 connections | `AnswersGoBack`, `NotesOnceInOrder`, `Reconnects`, `SendReturns`, `RequestIsAnswered` |
| `ble` | 2 devices, 3 characteristics (1 absent), 3 subscriptions | `OnlySubscribeLeaks`, `NotifiedIsPromised`, `FirstPromiseIsServed`, `WrongIsPromised` |
| `bridge` | 1 request, 3 losses, the store may fail | `AckedIsAnswered`, `RunAgainOnlyAfterLoss`, `RequestGetsAnswer` |
| `connectors` | 4 coils, 2 registers, bytes of 2 bits; 2 oids, 1 read-only; 2 nodes, 2 levels below the root, references refused or not | `AnswersAreExact` (`ModbusReadIsExact`, `TrapIsAsked`, `BrowseIsExact`), `WritesAreExact` (`ModbusWriteIsExact`, `SnmpSetIsDone`, `OpcuaWriteIsDone`) |
| `hub_unlisted`, `ble_dead`, `peer_lock` | the smallest that shows it | the findings of section 6 |

`hub`, `readings`, `peer` and `bridge` also check the type invariant (`TypeOK`,
`StoreTypeOK`, `PeerTypeOK`, `BridgeTypeOK`), which carries the relations
between the variables that the proofs start from; `FillTypeOK`, `CloudTypeOK`
and `BleTypeOK` are theorems that no run repeats.

Why the bounds are enough:

* `hub`: two connections of one type are what the races of registration need
  (an old and a new one); two calls let one be answered while the other waits,
  breaks the connection or times out; a wire of one frame makes writers block.
  Notifications are left to `edge`, which has one connection: that a listener
  sends on the `requestsCh` that another has closed (`ws.go:323`) occurs in no
  run, and is the part of `PanicHasReason` that only its proof covers.
* `edge`: three notifications fill the listener, the relay and the publisher
  at once, the bad one between the other two; a read call competes with them
  for `stateCh`.
* `readings`: a key, a key inside it and one beside it are all the ways two
  keys can lie; two goroutines are a race; the encoding keeps one value,
  rounds one and turns one into text.
* `template`: a placeholder of the shortest name has five characters, so six
  leave one around it; the longer payload has one between two placeholders and
  two behind. A second tick sees what the first has left. Two values that bring
  each other in are a cycle.
* `cloud`: four nodes are a subsystem, another inside or beside it, a node that
  upsets the path and a read after it, in every order.
* `peer`: of three connections two are lost, so that a frame can be old twice;
  the requests are one of each way a request can go wrong.
* `ble`: three subscriptions are a promise, one in the same mode that is not
  served, and one in the other mode, for the same or the other characteristic,
  or after a cancellation.
* `bridge`: the broker gives requests ids of their own, so they do not meet in
  the bridge; three losses let a request be lost before it is run, while it
  runs and while its response is on its way; each of them may be a connection
  that breaks, a crash or a regular end.
* `connectors`: four bits are two bytes, so leading zeros and an odd byte
  occur; a list of eight registers is one more than fits when the quantity is
  doubled in four bits; a browse is cut two levels below its root, and a server
  refuses all or some references of one kind of one node.

Deadlock is checked for `readings`, the only instance that always goes on.
Elsewhere it is not: the process may exit, panic, or have nothing to do, and
calls, ticks, losses and subscriptions are bounded in number.

## 4. Fairness

* `WsHub`, `EdgeCore`: weak fairness of every goroutine that is running (the Go
  scheduler is fair to runnable goroutines; a Go timer fires; a reader of an
  unbuffered channel takes from the waiting senders in turn), of a responsive
  connector (`Serve`), and, in `EdgeCore`, of the start (`rpc.New` and
  `mqtt.New` return or the process exits) and of the end of a publication
  (`WaitTimeout` is a minute). Nothing is assumed of new calls, new
  connections, `Cut`, `Shutdown`. `EveryCallReturns` leans on connectors that
  read: with one that does not, a write blocks for ever, because the timer of
  `rpc_timeout` starts after it (`interceptor.go:356`).
* `ConnectorPeer`: goroutines run; the writer lock is starvation free (Go's
  mutex hands itself over to a waiter after a millisecond), hence strong
  fairness of who waits for it; the core accepts a connection in the end, so a
  tick of the retry timer succeeds. The last connection of a run is not lost.
  Devices, the core and the signal need not do anything.
* `MqttBridge`: a stopped core is started again, the broker is reachable in the
  end, `Call` returns (`EveryCallReturns`), goroutines run. `New` may hang for
  good here; it is `EdgeCore` that assumes it returns, so `TakenIsPublished` says
  nothing of a core whose subscription was not answered.
* `Template`: the goroutine of the tick goes on.
* `BleClients`, only for `ble_dead`: whoever has subscribed cancels in the end.

## 5. Proofs

All for arbitrary sets and bounds, from the named assumptions on the constants.
The argument of each is an inductive invariant; the module has one lemma per
group of actions, and one step per action in it.

**The hub** (`EdgeCoreProofs`)

* `TypeCorrect`: `Shape` (types, the connection a call holds, the names in the
  table). `HeldOK` is needed because `closeConnOnErr` deletes by the name of
  the connection that a call copied earlier.
* `ListedConnectionsAreRead`: with `Shape`, `ListedIsRead` is inductive.
* `AnswersAreOwn`, `RepliesNeverBlock`: `Replies` adds that whoever is
  registered waits there, unanswered, or has timed out (`RegistryOK`), and that
  only the own answer enters a channel (`ChannelsOK`).
* `HubKeepsPromise`: `Spec` implements `RequestReply` under the mapping of
  `Promise`. `Flight` says where a request can be: it waits once, on one
  connection, before it is executed; it is executed before it is answered; and
  its call cannot be refused any more.
* `PanicsHaveReasons`: `ExpectedOK` adds that whose request or answer is on its
  way is about to register or is registered on that connection, and that the
  answer is there once; `ChannelShut` that a closed channel has been closed by
  a listener that left.

The last three assume `OwnIds`: no answer carries the id of another call.

**The core** (`EdgeCoreProofs`)

* `EdgeKeepsPromise`: the pipeline adds conjuncts to the steps of the hub, so
  what is proved of the hub holds of it (the lemma `EdgeImplementsHub`, which
  says nothing about the code by itself).
* `StoredArePublished`: a stored reading is the relay's, a read call's, was
  published, or is among those the database refused; and if neither holds it, it
  was sent last or has met the one that was (`PublishInv`).
* `PublishedInOrder`, for one connection: the notifications on the wire, in the
  listener's hand, in the relay and in `sent` are each later than those in the
  next place (`EdgeLine`, stated with `Later`).

**The state** (`ReadingsStoreProofs`)

* `StoreTypeCorrect`, `SetsAgree`: no key with a Set under way is agreed
  (`BusyIsNotAgreed`), and a Set that is still alone is the only one on its
  keys and has its value in memory (`AloneIsAlone`). They hold for any keys
  that are non-empty sequences of names, with failures and stops, and for any
  encoding that changes nothing the second time (`Stored(Stored(v)) = Stored(v)`).
* `ReadingsAgree` takes that over to readings with expressions, whose steps are
  steps of the store by their definitions (the lemma `ReadingsUseStore`, with
  `LuaInv`: what an execution ends with is a value of its parameter).
* `OwnReadings`: an execution that met no other is the only one, and once it
  has set the global, the global is its reading (`AloneUnlessMixed`).

**The bridge** (`MqttBridgeProofs`)

* `BridgeTypeCorrect`: with the types, a process that is off has nothing in
  memory and without a connection nothing is on its way.
* `AcknowledgedAreAnswered`: `SafeInv`: a response on its way is answered or
  stored, or its store has failed; the response of a callback that has left
  `Call`, of an acknowledgement that is on its way, and of a request that is
  acknowledged is one of those or was refused.
* `RunsArePaid`: the copies of a request, wherever they are (run, on their way
  to the router, to be resumed, at the broker, stored while there is no
  connection), are at most one and two more for each loss (`Paid`).

**The connector** (`ConnectorPeerProofs`)

* `PeerTypeCorrect`: who writes holds the lock (`LockHeld`).
* `AnswersReturn`: `LineInv`: requests wait in order; what was answered comes
  before them, the request at work in between; and an answer is written on the
  connection its request was read from.
* `NotesStayInOrder`: `NoteInv`: what a connection has accepted is not newer
  than what its subscription has begun, older while it is sending, and nothing
  is on a connection beyond the one in use.

**BLE** (`BleClientsProofs`): `BleTypeCorrect`, `LeaksAreSubscribes`,
`NotifiedWerePromised`, `WrongWerePromised`, `FirstIsServed`. The invariants
relate the table, the client's records of each characteristic and the device to
what callers were told; a kept client has a promise (`KeptIsPromised`), and
records nothing but the one characteristic it is kept for (`RecordedIsFirst`).

**The templates** (`TemplateProofs`)

* `FillTypeCorrect`: the array of an `ActionConfig` keeps its length.
* `FillRefines`: a round of `fillTemplate` on slices is a replacement on texts,
  as `Expansion` states it, or loses what it says it may lose. The lemmas
  `ShrunkText`, `GrownText` and `GrownFacts` say what `copy` and `append` leave
  in an array they share.
* `FrontIsKept` (`KeptInv`): what stands before the first placeholder, in the
  array and in the text, is that of the payload; a text that keeps it has its
  first placeholder behind it.
* `FillExact` (`ExactInv`): while nothing is lost, the text at hand expands to
  what the first one expands to. A value may hold a placeholder, so the
  expansion of a text need not end; `ExpandFacts` shows that the recursive
  reference is well defined all the same, from the chains of replacements that
  do end.

**The handlers** (`ConnectorsProofs`)

* `ModbusReadsRight`, `ModbusWritesRight`: `StringStep` follows `bytesToBits`
  byte by byte (an induction over the bytes, `Induction`), `PackedFacts` and
  `UnpackedFacts` what a list of registers is in 16 bits. The theorems need that
  the device does not change between an answer and what it is compared with,
  also after `Close` (`ModbusTypeOK`).
* `SnmpSetsRight`, `SnmpTrapsRight`, `OpcuaWritesRight`: one invariant for each
  handler, that a closed one leaves what its last answer was about
  (`SetIsKept`, `WriteIsKept`). `AnswersRight` and `WritesRight` put the handlers
  together.
* `BrowsesRight`: a list `Arranges` a set of paths if it holds the end of each
  of them once, in any order. Lists of disjoint sets, one behind the other,
  arrange the union (`ArrangesBoth`, `ArrangesAll`); the paths that begin with
  one reference are those of its target (`ThroughFacts`); so what `browse` makes
  of the lists of the children arranges the paths one reference longer
  (`BrowseStep`), from the level of the cut upwards. `BrowseFrom` shows that the
  recursive function of `Browse` exists. The server may hold any graph, with
  cycles and with several references to one node. `ServerOK` says that what a
  server holds is known once a connection to it has been opened.

**The cloud model** (`CloudProofs`)

* `WalkTypeCorrect`: `TypeInv` adds that the nodes on the stack are above each
  other (`OrderOK`).
* `ReadsAreConnected`, `PanicsHaveReasons`: `PathInv`: while nothing behind the
  walk upsets the path, every call's slice lists the subsystems on the stack up
  to the child it is at, in order, and begins every slice further up
  (`Listing`). `append` writes behind the longest of them, so no caller sees
  it; the id that `Return` drops is the callee's. `AboveIsStack` says that what
  contains the child at hand is what is on the stack.
* `StartedCoreRunsAll`: `DoneInv`: a node the walk has returned from has no
  child left (so that it ends with every node seen, by the least that is not),
  there is one action for every name of a read seen, and jobs are of actions.

**Only model-checked.** Liveness under fairness, and with it ENABLED, is out of
the prover's reach: `EveryCallReturns`, `BrokenIsForgotten`,
`TakenIsPublished`, `EveryReadReturns`, `FillEnds`, `Reconnects`,
`SendReturns`, `RequestIsAnswered`, `RequestGetsAnswer`. Every invariant and
every action property of a passing run is a theorem. The induction theorems of
the library cannot be used, because they take an operator; where an induction is
needed, it is on the least number of a set (`LeastNumber`, `Induction`), which
first-order provers can do.

## 6. Where the code differs from what it says

| Run | Statement | What happens |
|---|---|---|
| `hub_unlisted` | "connector not found", `error.go:60` | the clean-up of an old connection deletes the table entry of the new one by name (`ws.go:283`); the new one stays connected and is never found again |
| `ble_dead` | "when subscription dies client removes from map", `handler.go:45` | only `subscribeCancel` removes, after writing to the device: the client of a device that is gone stays, and no cancellation succeeds |
| `peer_lock` | "wait and try again", `jsonrpc.go:218` | a BLE notification waits in `Send` under the lock of `gatt.Client`; the server waits for that lock in a handler and never reconnects |

Other limits are the conditions of properties that hold; the property says that
nothing else goes wrong:

* `PanicHasReason`: an answer may arrive before line 377 of `ws.go` registers
  its call, or with a null id, and the core panics (343); in a shutdown two
  listeners close `requestsCh`, or one sends on it afterwards (293, 323).
* `ListedIsRead` speaks of the listed connection only: two connectors of a type
  may both be accepted.
* `PublishedOnceInOrder` is about one connection. `StoredIsPublished`: a read
  call and a notification may store in one order and publish in the other
  (`interceptor.go:432`), so the cloud may keep the older value; only when what
  is stored and what came last have met (`met`).
* `AgreedIsStored`: two Sets of a key may commit in the other order; after a
  restart a dotted key is not found (`state.go:125`), and a value is what JSON
  kept of it (93): six digits of a float, base64 of bytes. What is sent to the
  cloud goes through the same encoding (`interceptor.go:133-149`), so the cloud
  sees what a restart would, and an expression before the restart does not.
* `OwnUnlessMixed`: an execution that meets another may convert the other's
  reading, and the runtime may end the process (`lua.go:79`).
* `FillIsExact` compares with what the tick found: a value longer than its
  placeholder overwrites what follows when the array has room, and later ticks
  find what earlier ones have left (`interceptor.go:222`, 281).
* `FillEnds`: a value that holds its own placeholder, or values that bring each
  other in, keep `fillTemplate` recursing for ever (`interceptor.go:285`, 294).
* `AckedIsAnswered`: when the core stops, paho refuses a response from the
  moment `Disconnect` is called while acknowledgements still go out, so a request
  whose `Call` returns then is forgotten by the broker and never answered
  (`mqtt.go:159-173`, paho's `client.go:466-474` and 572); a failed write of the
  packet store loses one as well.
* `New` of the bridge may wait for ever for its subscription (`mqtt.go:126`): the
  process then answers requests but publishes no reading.
* `ConnectorIsNearest`, `DeadHasReason`: `walk` drops an id from the path after
  every child it walked into (`types.go:225`), so a plain group before a read
  sends it to the wrong connector or indexes an empty path (203); parameters
  that are missing are a nil map (158).
* `RequestIsAnswered`, `Fatal`: a handler that returns neither result nor error
  (OPC-UA: a node without a value) ends the process (`jsonrpc.go:282`), and so
  does an answer larger than the buffer on a broken connection (147), and an
  answer or notification with a value that JSON has no form for, as NaN and Inf
  that an OPC-UA node may hold (147, 228).
* `OnlySubscribeLeaks`: a `subscribe` that fails after it has connected leaves
  the device connected to nobody (`handler.go:301`).
* `FirstPromiseIsServed`: a second subscription in the same mode is promised
  and never notified. One in the other mode, for another characteristic, turns
  on the characteristic of the first (`handler.go:306-318`): its caller hears that
  one and never its own. `WrongIsPromised`: while a subscription keeps a client,
  reads and writes go to the characteristic it discovered first.
* `RequestGetsAnswer`: a message that arrives before `Subscribe` has registered
  the callback is not handled until the next connection (`mqtt.go:119`).
* `ModbusReadIsExact`: coils lose the leading zeros of every byte
  (`handler.go:88`), discrete inputs come as words and lose an odd last byte
  (253). `quantity*2` in 16 bits makes a long write panic (449).
* `BrowseIsExact`: references that the server refuses, or does not continue, are
  left out of the list without an error, because gopcua does not look at the
  status of a browse (its `node.go:192-213`).
* `OpcuaWriteIsDone`: a Float is rounded to 32 bits and a DateTime to what it can
  hold, both without an error (`handler.go:313-319`, 402-410); a string without
  quotes becomes the empty one. A date beyond the range of int64 nanoseconds
  wraps in gopcua, and is not modelled.
* `SnmpSetIsDone`, `TrapIsAsked`: the agent's refusal is not looked at (229),
  a gauge keeps its lower 32 bits (461), a string without quotes sets the empty
  string (435); all variables of a trap have the request's type and value (369).

## 7. Not modelled

* Two calls under one id at the hub (a fixed id in a scheduled payload): the
  later registration takes the answer of the earlier one. `OwnIds` excludes it.
  `RunAgainOnlyAfterLoss` shows only that the bridge runs one request again after
  a loss and not otherwise; whether the hub confuses the two runs is not checked.
* Frames that end `Serve` of a connector without a lost connection (an empty
  one, one that is not text; `jsonrpc.go:125`, `internal/pkg/ws/ws.go:130`): this
  core sends JSON texts only, since `prepareRequest` has parsed what it sends
  (`interceptor.go:299-347`). Frames the connector cannot decode are `Malformed`.
* A `Disconnect` of paho that meets its reconnect between the last look at the
  status and `setConnected` (its `client.go:406-421`).
* What the SNMP reads answer: they parse and copy, and no property is about it.
* Values that are maps in the state store, and selectors with brackets.
* The parameters that `prepareRequest` sets and the expression of a write; the
  functions for expressions (`pkg/lua/func.go`), which convert bytes and
  numbers without state; the encoding of JSON-RPC errors.
* The content of a BLE scan, and the text of OPC-UA attributes.
* `undoAll` and `Remove` of jobs: they have no caller that reaches a job.
* Plugins, configuration, logging, updates and ids: I/O and formatting that the
  rest does not depend on. Third-party code is translated as far as the code
  rests on it: parts of objx, paho, gatt, goburrow's Modbus, gosnmp and gopcua.

What could be added: `EdgeCore` with two connections of different types, in
place of the one; requests with equal ids through `MqttBridge` and `WsHub` together.
