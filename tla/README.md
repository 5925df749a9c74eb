# Verification of aether-gateway

TLA+ specifications of the aether-gateway, model-checked with TLC on small
instances and proved with TLAPS for all values of the constants.

aether-gateway lets devices without an IP stack reach servers of the Aethernet
cloud: it takes their packets from a local port (LoRa, or a simulated bus),
opens streams to the servers the packets name, and brings the answers back.

## The system

All paths are relative to the repository's root.

| Component | State | Operations | Talks to |
|---|---|---|---|
| `ServerStreamManager` (`libs/gateway/server_stream_manager`) | `stream_cache_` (weak pointers by server id), the get actions under way, the servers of the gateway cloud and the Aether registry | `GetStream` by id or by endpoints; updates of the get actions | called by `GwStream`; asks the cloud with a `GetServersAction` |
| `LocalPort` (`libs/gateway/local_port`) | `stream_store_` by `Key` (device, client, 32-bit server identity) | `Input`, `OpenStream`, `OutData`, `StreamState` | fed by a local bus; owns the `GwStream`s and handles their events |
| `GwStream` (`libs/gateway/gw_stream`) | a buffer, the `ServerStream` it was given | construction, `Write`, tying | asks the manager once |
| `ServerStream` (`libs/gateway/server_stream`) | a buffer over the selected channel, link state | `Write`, events | shared by the `GwStream`s of one server |
| `Gateway`, `GatewayCloud` (`libs/gateway/gateway*`) | the parts above, made at their first use; the servers, which are saved | accessors | loaded again after a restart |
| wire APIs (`libs/gateway/api`) | none | message declarations | client library |
| LoRa driver (`src/lora_gateways/dx_smart_lr02_gw`) | `operation_queue_`, `at_mode_`, `started_`, `initiated_`, poll task | `Start`, `Stop`, `OpenNetwork`, settings, `Init` | the DX-SMART LR02 module on a serial line |
| driver interface, types, factory (`src/lora_gateways`) | none | | |
| simulator bus, devices, ports (`simulator/sim-gateway/gw-sim-data-bus`, `gw-sim-device`, `gw-sim-device-port`) | next id, listeners | register, publish, remove | devices on one side, `LocalPort` on the other |
| simulator access point, adapter, channel | lazily made device; state of the transport builder | `Join`, `TransportBuilder`, `gw_device` | make the transports of the client library on a bus device |
| `simulator/tests/sim-alice-bob`, `src/main.cpp`, `src/gateway_server.cpp` | | a scenario; an application loop that exits at once | |

Everything runs in one event loop.  An action object is updated on a turn of
the loop, in no order the code relies on, and an event handler runs to its end
inside the call that emits the event.  So the unit of interleaving, and of an
action of the models, is one handler with every callback it makes.

What is hard here: requests for one server that overlap; weak pointers that
expire; a stream that fails between the cache hit and its delivery; one stream
shared by several clients that fail and reopen at different times; a queue of
operations that call each other; a mode that driver and module each keep a
record of; ids that wrap while what they stood for lives on; a restart that
keeps the servers and loses everything else; a device that is made once for
several transports that are being built.  `PROJECT.json`
lists these under "hazards", each at its line.

What makes each component correct: the *manager* builds a server once per id
and gives each caller a live stream of its server; the *gateway* relays the
packets of a conversation in order and at most once to their server, and
answers to those that asked; a *driver* operation finds the module in the mode
it needs, and comes to its turn whatever became of the ones before; the *bus*
has no pointer to a dead device and gives no device another's answers; the
*simulation* keeps transports on a device that is there and brings answers to
clients that asked for them.

## The modules

| Module | Models |
|---|---|
| `ServerStreamManager` | the manager, its get actions, cache and stream lifetimes |
| `Gateway` | `LocalPort` and `GwStream` over the manager (EXTENDS it) |
| `StreamService` | what the manager promises to its callers: an abstract specification |
| `PacketRelay` | what the gateway promises to a client: an abstract specification |
| `LoraGatewayDriver` | the LoRa driver with its module |
| `OperationQueue` | what the driver promises to those who call it: an abstract specification |
| `SimDataBus` | the simulator's bus with devices and ports |
| `SimGateway` | access points, channels and their transport builders, over `Gateway` (EXTENDS) and `SimDataBus` (INSTANCE) |
| `MC...` | definitions for TLC: symmetry, sets of calls, identities |
| `...Proofs` | theorems, checked by TLAPS |

### ServerStreamManager

A caller is a `GwStream`; each has at most one get action, kept as `get_state`
(the C++ action's state, or `kExisting` for an `ExistingStreamGetAction`,
and `kGetServers` while the cloud is asked) and `get_stream` (its `stream_`).
`server_stream` is what the caller took.  These two are the only `shared_ptr`s
to a `ServerStream`, so every step that drops one ends in `DestroyUnheld`,
which frees the streams nobody holds and turns their cache entries into
`Expired`.  `OpenCache` erases expired entries, and `CacheStream` is
`map::insert`: it leaves an entry that is there alone.  `known` is the registry
`aether->GetServer` searches; the gateway's own client adds to it as well
(`AetherAddServer`), and it may hold anything at the start, as after a restart
with saved state.

`StreamService` knows which servers are resolved, who asked, who waits, who may
still be refused and who got which stream; nothing of actions, cache or lifetimes.
The manager implements it under the mapping `Service`: `known` is what is
resolved, a caller waits while its get action has not reported (`Unanswered`), and
may be refused while the cloud is asked for its id or will be (`Doubtful`).

The cloud answers a `GetServersAction` with a server of the id that was asked
for, or with an error; the channels under a stream link, unlink and fail.
Those steps are the environment's.

### Gateway

One action is one handler: `Input` (a packet from a device: parse, find or make
the `GwStream`, write), the updates of a get action, `TieStream` (delivery of a
usable stream), `TieFailedStream` (delivery of one that has failed since:
tying it reports the state at once, and `StreamState` erases the `GwStream`),
`Forward` and `Send` (a buffer passes its oldest packet on), `OutData` and
`StreamState` (an event of a `ServerStream` and the handlers of all `GwStream`s
tied to it).  `Key` keeps the 32 bits of `server_identity` as the constant
function `Identity`, which may map two servers to one value.

Data is a packet number per conversation (device, client, server); `accepted`
and `sent` are history variables.

`Restart` is the end of the process at any point and its next start: the cloud
and the registry stay, since they are what `AE_OBJECT_REFLECT` names, and the
manager and the local port are made anew, empty.  The history variables go on.

`PacketRelay` knows only these numbers.  `Gateway` implements it under the
mapping `Relay`: `next` is the oldest packet of the conversation that waits in a
live buffer (`Oldest`), or one more than `accepted` if none does.

### LoraGatewayDriver

A call pushes a stage to `operation_queue`.  A stage that runs makes a pipeline,
a sequence of names in `stages`; `waits_for` is what its first stage asked for.
Sub-pipelines (`SetupSerialPort`, `SetupLoraNet`) are written in place: nothing
runs between them and the stages around them.  The fate of a command is
`answered`, `unanswered` (the module got it, the answer does not come in time)
or `lost`.  "+++" toggles the module's mode whenever it arrives.  The `AT+RESET` of
`Stop` that arrives in AT mode leaves the module there or takes it to the mode it is
switched on in (`ModesReached`): the repository does not say which, so both happen.  In
the second case the "+++" with which `Stop` means to leave AT mode enters it.
Leaving AT mode waits for two words, "Exit AT" and "Power on"; `answered` means that both
came in time.  `due` is what
the pipeline still has to get obeyed.  `Restart` ends the driver and makes
another for the module: the new one takes the module to be in transparent mode,
and the module is where it was left, with a "+++" or a reset under way counted in
or not.  `out_of_step` remembers whether the two records differ for reasons the
driver cannot know: lost "+++", a reset that ended AT mode, and the mode it found.

`OperationQueue` has the operations that are not over and what they reported.  The
driver implements it under the mapping `Promise`: its `queue` is the operation that
runs, if one does, and those queued behind it (`Unfinished`), the nested ones of
`Init` among them.

### SimDataBus

Devices and ports come and go.  `opener` remembers, per `LocalPort` and id, which
device opened the stream that the `LocalPort` keeps under this id.  `IdCount`
stands for the 256 values of `std::uint8_t`.  The assertion in `GetDeviceId` is a
history variable, `overflowed`; a release build does not contain it and goes on.
As ids are only counted up and never freed, devices made one after the other
bring the count to its limit with a single one alive; what a device may rely on
after that is `ListenersLive`, and no more.

### SimGateway

The state of `Gateway`, whose `Devices` are the ids of the bus, and that of
`SimDataBus`, whose devices belong to access points, in one module.  Each action is a
step of one of them or of both: `ToServer` publishes on the bus and is the
gateway's `Input` in the same call; `FromServer` is the gateway's `OutData`,
and what it emits is looked up among the bus's listeners in the same call; a
stream that leaves the store leaves `opener` (`BusFollows`).  A transport is an
access point, a client and a server; its `builder` is `state_` of
`GwSimTransportBuildAction`, with `join` for the `JoinAction` on its way.
`GwDevice` makes the access point's device at the first need.  `ClientExit` ends an
application with all of this; it may come back, with a new device under the next
id, while the gateway still has streams and answers for the old one.  `wrote`
remembers which transports wrote, and is cleared by the exit; `heard` is which
clients, behind which access points, the data of the last step came to.
`from_server` names the client and not the server, so that a device cannot tell a
client's transports apart; `AnswersHeardByWriters` speaks of the client, which must
have written to the server that `output` says the data is from.

A client writes packets through `GatewayTransport`, which is not in `src/`: the
model takes only that it calls `ToServer` with its client and server.

### What is assumed about code outside `src/`

The Aether client library is a submodule and not part of the repository.  From
how `src/` uses it, the models take:

- an action that ends reports once and is gone with what it holds;
- `Tie` makes the upper stream report the lower one's present link state;
- a buffer stream keeps the order of what it is given;
- a `GetServersAction` ends, with the id asked for or an error;
- `ActionsQueue` runs one stage at a time, and goes on when a stage has failed;
- a `Pipeline` runs its stages one after the other, ends at the first failure, and
  skips a stage that is empty.  `EnterAtMode`, called twice in a row by `Init`
  and `SetPowerSaveParam`, returns an empty stage and counts on this;
- an AT request waits for its answer for its second and fails then;
- the LoRa module is switched on in transparent mode, and "+++" toggles the mode.  No
  command but `AT+RESET` changes it, and that one may or may not.

`driver_init` and `driver_live` rest on the fifth and sixth point.  A queue that is
destroyed does not run the stages left in it, the destructor's `Stop` included.

## The runs

| Run | Instance | Shows |
|---|---|---|
| `manager` | 3 callers, 2 ids, 1 endpoint list, 3 streams, 2 servers per list | the manager implements `StreamService` and has its five safety properties while requests overlap, streams die, entries expire and the gateway restarts |
| `manager_endpoints` | as `manager` | **violated**: a second server for one endpoint list |
| `gateway` | 2 devices, 1 id, 1 endpoint list, 2 packets each | `Gateway` implements `PacketRelay`; ownership, packets, ties and answers; nothing is lost but by a failure or a restart |
| `gateway_live` | 1 device, 2 servers, 2 packets, 2 openings by endpoints | packets settle and every get action ends, whatever restarts come between |
| `gateway_unresolved` | 1 device, 1 server | **violated**: an unresolved `GwStream` stays |
| `gateway_collision` | 2 endpoint lists with one hash | **violated**: packets at the wrong server |
| `driver` | 3 operations, all calls, all fates | the driver implements `OperationQueue`; its safety, with drivers made anew |
| `driver_live` | 2 operations, all calls, all fates | every operation is run and over, unless the queue is blocked |
| `driver_init` | 1 operation, answers always come | **violated**: `Init` never reports |
| `driver_mode` | 1 operation, all fates | **violated**: commands outside AT mode |
| `bus` | 3 devices, 1 port, 4 ids | the bus, also after ids came round |
| `sim_gateway` | 1 access point, 2 clients, 1 server, 4 ids of which 2 are given out | transports stay on their device, answers come to writers |

The runs marked *violated* check what a comment or a log message of the repository
says; "findings" quotes it beside what the code does.

### Bounds, and why they are enough

Every bound is a constant.  `MaxServers` and `MaxPackets` cap counters in guards;
`GwStreams` and `ServerStreams` are pools of object identities that are used again
when the object is gone, so that long runs with reopened streams are included.
Two callers are enough for a race, a third can come while two are under way
(`manager`).  Two packets are the least that can change places; two devices the
least that can share a stream; one server by id and one by endpoints cover both
forms of every call.  `GetStream(endpoints)` builds a server each time: it may do
so once in `gateway`, and twice in `manager` and `gateway_live`, and the theorems have
no such bound.  Three queued operations cover one that fails, one
after it and one behind both.  With three devices on four ids, ids are given out
again while their old owners are there, or gone with their stream left.
In `sim_gateway` an application is there, goes and comes back once (`MaxDevices`
is 2), and each transport is built once in the life of its access point; four ids
make sure that the count does not come round, since the runs of the bus are about
that.  One packet per client and server is enough for an answer to be owed to a
device that is gone.
Where the theorems below cover a property, the bound does not matter.

Symmetry is used in runs that check invariants, action properties and refinements of
specifications without a liveness part; it permutes object identities, in `manager` also the
server ids, and devices where they have no structure.  No liveness run uses it.

Deadlock is checked where the system always has something to do (`manager`,
`bus`).  Elsewhere packets run out (`MaxPackets`) or the modelled queue is
blocked, which the driver really is.

### Fairness, and why the code justifies it

- `Gateway!Fairness`: the loop updates each action that triggered itself, and
  the states trigger it on every change; a `GetServersAction` has a timeout; a
  tied buffer is flushed whenever the link is up.  `Send` is strongly fair, since
  the link may go down and up between two packets and each link-up event flushes
  the buffer; a link that is being set up comes up or fails, again by a timeout
  (`LinkSetUp`).  A link that is up may stay up for ever.
  Devices need not send, and servers need not answer.
- `LoraGatewayDriver!Fairness`: the loop runs the queue and the stages, and a
  request is answered or times out after a second.  Callers need not call.

No restart is fair: a gateway or a driver may never restart, or again and again.
What a restart takes with it (a packet, an operation) has settled; `InitReports`
excuses a driver that is replaced for ever.

## What is proved

Every theorem is for any values of the constants that meet the assumptions
`ManagerAssumption`, `GatewayAssumption`, `DriverAssumption`, `BusAssumption`,
`SimAssumption`: the constants
that mean "nothing" are none of the things, bounds are positive.

**Manager** (`ServerStreamManagerProofs`).  `Inv` strengthens the properties to an
inductive invariant: a get action has a stream exactly in the states that deliver
one; a stream that is held is alive, and one that is alive is held; a cache entry
is alive or `Expired`; an id that was built is known; and as long as an id has not
raced, at most one request for it is under way, and if its entry is empty or
expired no stream of it is alive.  One lemma per action.  From it:
`ManagerTypeCorrect`, `ServersBuiltOnce`, `ResultsServeRequests`,
`StreamsServeCallers`, `CacheSound`, `StreamsShared`.  `ManagerKeepsService`: the
manager implements `StreamService`.  `Inv` gives what a step of the service needs
to know: a get action that delivers has a live stream of the server asked for, as
every caller of that stream has; a caller that is dropped has no request under
way; and an action asks the cloud only for an id it did not find in the registry,
which never shrinks and is saved, so that a server once known is never refused.

**Gateway** (`GatewayProofs`).  `GatewayRunsManager` proves that every step of the
gateway is a step of the manager or leaves it alone, so all theorems about the
manager hold in it.  On top of its `Inv`, `GatewayInv` adds who owns which
`GwStream` and what its buffer may hold; a third invariant follows each packet
through both buffers.  From them: `GatewayTypeCorrect`, `StreamsOwned`,
`FailedStreamsRemoved`, `AnswersOnlyToAskers`, `GatewayKeepsService`, and
`PacketsReachTheirServer`, whose one additional assumption is
`IdentityInjective`.  Run `gateway_collision` shows that it is needed: a collision of
identities is the one thing that sends a packet astray.  `UnresolvedStays` is the
general form of what run `gateway_unresolved` finds: a `GwStream` whose server could not
be resolved keeps its `Key` and its packets and takes more, until a restart, also
when the server becomes known later.

**Relay** (`GatewayRelayProofs`).  `GatewayRelaysPackets`: under the same
assumption, `Gateway` implements `PacketRelay`.  The packets of a conversation lie
in order along `out_buffer` of one stream, then `gw_buffer` of the `GwStream` that
is tied to it, without gap; so that every action maps to `Accept`, `Deliver`, `Lose`,
`Restart` or a stutter.  `RelayInv` says this; each of its step lemmas follows one
conversation's packets through one action.  `PacketsLostByFailureOnly` is the
action property `LossNeedsFailure`: a packet that waits is sent or still waits after
every step, unless the step is a restart or fails the stream that its own
conversation has open.  It needs nothing of the identities, only which buffer holds
what.

**Driver** (`LoraGatewayDriverProofs`).  `DriverInv`: what is left of a pipeline
enters AT mode first if at all and has no command after leaving it;
`at_mode_` is set while a command is to come, unless entering comes before it; what
is waited for fits the first stage; and the module is in the recorded mode, with a
"+++" under way counted in.  `ModeInStep` alone is not inductive: it says nothing
of the moment between sending "+++" and the answer.  From it:
`DriverTypeCorrect`, `ModeStaysInStep`, `PollSetUpAtMostOnce`, and
`SuccessIsObeyed`, which needs that everything in `due` is still ahead in `stages`.
`CommandsFindAtMode` is the other side of run `driver_mode`: while `out_of_step` is
`FALSE` every command finds the module in AT mode.  Both rest on what is assumed of the
module above: lost "+++", resets that ended AT mode and the mode the driver found
are all that can part the two records.

**Driver's queue** (`LoraGatewayQueueProofs`).  `DriverKeepsQueue`: the driver
implements `OperationQueue`.  `QueueInv` says that what is in the queue or runs is
pending and there once (`QueuedOnce`), and that the operation `Init` calls is pending
only while `Init` waits for it (`NestedAwaited`), so that no second one is queued.  `InitNeverSucceeds` and
`InitHoldsQueue` are about the finding of run `driver_init`, for every fate of the
commands: `Init` may fail before it comes to its nested operation, and never succeeds;
once it waits for it, nothing runs or reports until the driver is replaced.  `InitInv`
has why: while `Init` runs, its nested stage is still ahead or is what it waits for.

**Bus** (`SimDataBusProofs`).  `BusInv` adds that, until the count comes round, the ids
from `next_device_id` on are unused: no device, listener or stream has one.  From
it: `BusTypeCorrect`, `NoDanglingListener`, `EveryDeviceHears` and
`AnswersReachTheirDevice`.

**Simulation** (`SimGatewayProofs`).  `NextIsGatewayNext` and `NextIsBusNext`: a step
of the simulation is a step of the gateway or leaves it alone, and the same of the
bus; so `SimRunsGateway`, and the invariants of both are used as they are.  What is
new is `AskersWrote`, which ties them: until ids come round, no packet was taken in
under an id not given out yet, and what was taken in under the id of a device was
written by a transport on it.  From it and `AnswersReachAskers` of the gateway:
`AnswersComeToWriters`, for any number of servers while run `sim_gateway` has one; beside
it `SimTypeCorrect` and `TransportsStayConnected`.
`SimRunsBus` says of the bus what `SimRunsGateway` says of the gateway, and
`SimRelaysPackets` and `SimLosesByFailureOnly` carry the gateway's promise over: ids
that are given out again, exits of applications and a port that comes and goes
neither reorder nor lose a packet that was taken in.

### Only model-checked

Liveness (`GetStreamEnds`, `PacketSettles`, `OperationsRun`) is out of the prover's
reach.  Every invariant, action property and refinement of a passing run has a
theorem.  The violated properties have none, of course; where it can be said what
they need to hold, a theorem says it (`PacketsReachTheirServer`, `CommandsFindAtMode`).

## Not modelled

- Parsing and packing of messages, wording, logging: no property is about them.
- `last_used` of `LocalPort`, which nothing reads.
- `Poll`, `PollEvent` and `ReadPacket` of the driver: `connections_` is never filled,
  so that the poll task returns at once.  `CloseNetwork`, `WritePacket` and `PowerOff`
  are empty.  `initiated_` is set and never read.
- Creation of access points and channels by the adapter, which has no effect
  beyond the objects, and `GatewayTransport`, which is the client library's.
- The LoRa driver's interface, types and factory, and the wire APIs: declarations
  without state.  The server application, whose loop exits at once and which does not
  start the gateway.
- The order of destruction of a whole gateway; a restart drops all of it at once.

## Plan

Done: the manager, the gateway over it and the LoRa driver, each with its abstract
specification; the bus; the simulation that composes them; restarts of gateway and
driver; every invariant, action property and refinement proved.

Left:

1. Which of a client's transports an answer is for, in `SimGateway`, once
   `GatewayTransport` is there to say how it tells them apart.
2. The rest of the driver (`Poll`, `PollEvent`, `ReadPacket`, the packets) when
   `connections_` is filled.
