---------------------------- MODULE SimGateway ----------------------------
(***************************************************************************)
(* The simulation: client applications with their access points and        *)
(* channels (simulator/sim-gateway), the data bus, and the gateway behind  *)
(* one GwSimDevicePort.                                                    *)
(*                                                                         *)
(* A client's transport to a server is built by the channel's builder in   *)
(* steps of the loop: it joins the access point, then makes the transport  *)
(* on the access point's device, which is made and registered at the first *)
(* need.  What a transport writes goes over the bus to the LocalPort, and  *)
(* what the LocalPort emits goes over the bus to the device registered     *)
(* under the id.                                                           *)
(*                                                                         *)
(* The gateway is Gateway, whose Devices are the ids, and the bus is       *)
(* SimDataBus, whose devices are those of the access points; an action     *)
(* here is a step of both or of one of them.                               *)
(***************************************************************************)
EXTENDS Gateway

CONSTANTS
    AccessPoints, \* one per client application
    Transports,   \* the transports the applications build: subset of Ends
    Port,         \* the GwSimDevicePort
    MaxDevices,   \* bound: ids given out, all of them if it is IdCount or more
    IdCount, NoDevice

\* An access point, a client behind it and the server it talks to.
Ends == AccessPoints \X Clients \X ServeKinds

ASSUME SimAssumption ==
    /\ IdCount \in Nat \ {0, 1}
    /\ Devices = 0 .. IdCount - 1
    /\ MaxDevices \in Nat
    /\ NoDevice \notin AccessPoints
    /\ Transports \subseteq Ends

VARIABLES
    next_device_id, device_listeners, gateway_listeners, device_id, opener, overflowed,
    builder,   \* GwSimTransportBuildAction::state_ of a transport's builder
    transport, \* id of the device a transport is made on
    wrote,     \* history: transports written to since their access point is there
    heard      \* the clients, each behind its access point, that data from a
               \* server came to in the last step

busVars == <<next_device_id, device_listeners, gateway_listeners, device_id, opener,
             overflowed>>
clientVars == <<builder, transport, wrote>>
simVars == <<vars, busVars, clientVars, heard>>

Bus == INSTANCE SimDataBus WITH Devices <- AccessPoints, Ports <- {Port}

NoId == IdCount

\* "none": no builder.  "join": the JoinAction is made and not updated yet.
BuilderStates == {"none", "kJoin", "join", "kCreateTransport", "kResult"}

SimTypeOK ==
    /\ TypeOK
    /\ Bus!TypeOK
    /\ builder \in [Transports -> BuilderStates]
    /\ transport \in [Transports -> Devices \cup {NoId}]
    /\ wrote \subseteq Transports
    /\ heard \subseteq AccessPoints \X Clients

SimInit ==
    /\ Init
    /\ Bus!Init
    /\ builder = [t \in Transports |-> "none"]
    /\ transport = [t \in Transports |-> NoId]
    /\ wrote = {}
    /\ heard = {}

Silent == heard' = {}
GatewayIdle == UNCHANGED vars

----------------------------------------------------------------------------
(* The channels.                                                           *)

\* GwSimChannel::TransportBuilder.  Bound: once in the life of the access point.
TransportBuilder(t) ==
    /\ builder[t] = "none" /\ transport[t] = NoId
    /\ builder' = [builder EXCEPT ![t] = "kJoin"]
    /\ UNCHANGED <<transport, busVars>>

\* Update calls Join; the JoinAction ends at its first update.
Join(t) ==
    /\ \/ builder[t] = "kJoin" /\ builder' = [builder EXCEPT ![t] = "join"]
       \/ builder[t] = "join" /\ builder' = [builder EXCEPT ![t] = "kCreateTransport"]
    /\ UNCHANGED <<transport, busVars>>

\* Mutant: a new device replaces the one that is there.
GwDeviceAnew(ap) ==
    \E id \in Devices :
        /\ Bus!GetDeviceId(id)
        /\ device_id' = [device_id EXCEPT ![ap] = id]
        /\ device_listeners' = [i \in Devices |->
                                   IF i = id THEN ap
                                   ELSE IF i = device_id[ap] THEN NoDevice
                                   ELSE device_listeners[i]]
        /\ UNCHANGED <<gateway_listeners, opener>>

\* GwSimAccessPoint::gw_device makes the device when there is none.
GwDevice(ap) ==
    \/ device_id[ap] = NoId /\ next_device_id <= MaxDevices /\ Bus!MakeDevice(ap)
    \/ device_id[ap] # NoId /\ UNCHANGED busVars

CreateTransport(t) ==
    /\ builder[t] = "kCreateTransport"
    /\ GwDevice(t[1])
    /\ transport' = [transport EXCEPT ![t] = device_id'[t[1]]]
    /\ builder' = [builder EXCEPT ![t] = "kResult"]

\* The action ends; the transport is the client's.
BuilderResult(t) ==
    /\ builder[t] = "kResult"
    /\ builder' = [builder EXCEPT ![t] = "none"]
    /\ UNCHANGED <<transport, busVars>>

Build(t) ==
    /\ TransportBuilder(t) \/ Join(t) \/ CreateTransport(t) \/ BuilderResult(t)
    /\ Silent
    /\ GatewayIdle
    /\ UNCHANGED wrote

\* The client application ends, with its access point, device and channels;
\* it may start again later.
ClientExit(ap) ==
    /\ Bus!DestroyDevice(ap)
    /\ builder' = [t \in Transports |-> IF t[1] = ap THEN "none" ELSE builder[t]]
    /\ transport' = [t \in Transports |-> IF t[1] = ap THEN NoId ELSE transport[t]]
    /\ wrote' = {t \in wrote : t[1] # ap}
    /\ Silent
    /\ GatewayIdle

\* A transport writes: the LocalPort has the packet as its Input in the same
\* call, if its port is on the bus.
ToServer(t) ==
    /\ transport[t] # NoId
    /\ Bus!PublishDeviceData(t[1])
    /\ IF Port \in gateway_listeners
       THEN Input(<<device_id[t[1]], t[2], t[3]>>)
       ELSE GatewayIdle
    /\ wrote' = wrote \cup {t}
    /\ Silent
    /\ UNCHANGED <<builder, transport>>

----------------------------------------------------------------------------
(* The gateway behind its port.                                            *)

\* Ids whose last stream leaves the store.
IdsLeft ==
    {id \in Devices :
        /\ opener[Port][id] # NoDevice
        /\ \A k \in Keys : k[1] = id => stream_store'[k] = NoGwStream}

\* The bus has no part in the step, which may take streams from the store.
BusFollows ==
    IF IdsLeft = {} THEN UNCHANGED busVars ELSE Bus!EraseStreams(Port, IdsLeft)

\* The gateway's loop, its streams and its cloud at work.
GatewayStep ==
    /\ \/ \E g \in GwStreams :
              GetStreamStep(g) \/ TieStream(g) \/ TieFailedStream(g) \/ Forward(g)
       \/ \E s \in ServerStreams : Send(s) \/ StreamState(s) \/ LinkChange(s)
       \/ \E id \in ServerIds : OtherServerAdded(id)
    /\ BusFollows
    /\ Silent
    /\ UNCHANGED clientVars

\* Data from a server: the port publishes what the LocalPort emits, and the
\* device registered under the id has it in the same call.  from_server names
\* the client and no server: the device gives the data to every transport of
\* the client, whichever server it talks to.
FromServer(s) ==
    /\ OutData(s)
    /\ heard' = IF Port \in gateway_listeners
                THEN {<<Bus!Answered(dc[1]), dc[2]>> :
                          dc \in {to \in output'.to : Bus!Answered(to[1]) # NoDevice}}
                ELSE {}
    /\ UNCHANGED <<busVars, clientVars>>

\* GwSimDevicePort comes or goes; the LocalPort stays.
PortChange ==
    /\ Bus!RegGatewayListener(Port) \/ Bus!RemoveGatewayListener(Port)
    /\ Silent
    /\ GatewayIdle
    /\ UNCHANGED clientVars

\* The port holds a reference to the LocalPort and goes before it.
GatewayRestart ==
    /\ Port \notin gateway_listeners
    /\ Restart
    /\ BusFollows
    /\ Silent
    /\ UNCHANGED clientVars

----------------------------------------------------------------------------

SimNext ==
    \/ \E t \in Transports : Build(t) \/ ToServer(t)
    \/ \E ap \in AccessPoints : ClientExit(ap)
    \/ GatewayStep
    \/ \E s \in ServerStreams : FromServer(s)
    \/ PortChange
    \/ GatewayRestart

SimSpec == SimInit /\ [][SimNext]_simVars

----------------------------------------------------------------------------
(* Correctness.                                                            *)

\* A transport is on the device its access point has, whichever of several
\* builders came first: it never refers to a device that is gone.
TransportsConnected ==
    \A t \in Transports : transport[t] # NoId => transport[t] = device_id[t[1]]

\* Until ids have come round, a client hears from a server only if it wrote to
\* this server on the access point it has: answers for a device that is gone,
\* or from before a restart of the gateway, reach nobody else.  (Which of the
\* client's transports an answer is for, the device cannot tell.)
AnswersHeardByWriters ==
    ~overflowed => \A e \in heard : <<e[1], e[2], output.from>> \in wrote

============================================================================
