---------------------------- MODULE SimDataBus ----------------------------
(***************************************************************************)
(* The simulator's data bus (simulator/sim-gateway/gw-sim-data-bus) with   *)
(* the devices and the gateway's device ports on it.                       *)
(*                                                                         *)
(* A device registers when it is constructed and is known by the id the    *)
(* bus gives it, an unsigned integer of IdCount values that counts up.     *)
(* What it sends goes to every port; the LocalPort behind a port opens a   *)
(* stream under the id and publishes the server's answers to that id,      *)
(* whoever has it then.  Devices and ports come and go while the streams   *)
(* stay.                                                                   *)
(*                                                                         *)
(* The assertion in GetDeviceId is not compiled into release builds, the   *)
(* default: the count goes on from zero.                                   *)
(***************************************************************************)
EXTENDS Naturals

CONSTANTS
    Devices,  \* GwSimDevice objects
    Ports,    \* GwSimDevicePort objects, each with its LocalPort
    IdCount,  \* number of DeviceId values, 256 in the code
    NoDevice

DeviceIds == 0 .. IdCount - 1
NoId == IdCount

ASSUME BusAssumption ==
    /\ IdCount \in Nat \ {0, 1}
    /\ NoDevice \notin Devices

VARIABLES
    next_device_id,
    device_listeners,  \* the device registered under an id
    gateway_listeners, \* the ports registered
    device_id,         \* id of a device, NoId if there is no such object
    opener,            \* per LocalPort: the device that opened the id's stream
    overflowed         \* history: the assertion in GetDeviceId failed

vars == <<next_device_id, device_listeners, gateway_listeners, device_id, opener,
          overflowed>>

TypeOK ==
    /\ next_device_id \in DeviceIds
    /\ device_listeners \in [DeviceIds -> Devices \cup {NoDevice}]
    /\ gateway_listeners \subseteq Ports
    /\ device_id \in [Devices -> DeviceIds \cup {NoId}]
    /\ opener \in [Ports -> [DeviceIds -> Devices \cup {NoDevice}]]
    /\ overflowed \in BOOLEAN

Init ==
    /\ next_device_id = 1
    /\ device_listeners = [id \in DeviceIds |-> NoDevice]
    /\ gateway_listeners = {}
    /\ device_id = [d \in Devices |-> NoId]
    /\ opener = [p \in Ports |-> [id \in DeviceIds |-> NoDevice]]
    /\ overflowed = FALSE

----------------------------------------------------------------------------

\* Mutant: the lowest id that no device has.
LowestFreeId(id) ==
    /\ id = CHOOSE i \in DeviceIds :
                /\ device_listeners[i] = NoDevice
                /\ \A j \in 0 .. i - 1 : device_listeners[j] # NoDevice
    /\ UNCHANGED <<next_device_id, overflowed>>

\* Mutant: the count does not wrap.
GetDeviceIdUnwrapped(id) ==
    /\ id = next_device_id
    /\ next_device_id' = next_device_id + 1
    /\ overflowed' = (overflowed \/ id = IdCount - 1)

\* Mutant: the count stays where it is.
GetDeviceIdAgain(id) ==
    id = next_device_id /\ UNCHANGED <<next_device_id, overflowed>>

\* next_device_id_++, with the assertion.
GetDeviceId(id) ==
    /\ id = next_device_id
    /\ next_device_id' = (next_device_id + 1) % IdCount
    /\ overflowed' = (overflowed \/ id = IdCount - 1)

\* map::emplace leaves an entry that is there alone.
RegDeviceListener(d, id) ==
    device_listeners' = [device_listeners EXCEPT ![id] = IF @ = NoDevice THEN d ELSE @]

\* GwSimDevice::GwSimDevice
MakeDevice(d) ==
    /\ device_id[d] = NoId
    /\ \E id \in DeviceIds :
           /\ GetDeviceId(id)
           /\ RegDeviceListener(d, id)
           /\ device_id' = [device_id EXCEPT ![d] = id]
    /\ UNCHANGED <<gateway_listeners, opener>>

\* Mutant: the device does not deregister.
ListenerKept(id) == UNCHANGED device_listeners

\* Erases the entry, whichever device it is.
RemoveDeviceListener(id) ==
    device_listeners' = [device_listeners EXCEPT ![id] = NoDevice]

\* GwSimDevice::~GwSimDevice
DestroyDevice(d) ==
    /\ device_id[d] # NoId
    /\ RemoveDeviceListener(device_id[d])
    /\ device_id' = [device_id EXCEPT ![d] = NoId]
    /\ UNCHANGED <<next_device_id, gateway_listeners, opener, overflowed>>

RegGatewayListener(p) ==
    /\ p \notin gateway_listeners
    /\ gateway_listeners' = gateway_listeners \cup {p}
    /\ UNCHANGED <<next_device_id, device_listeners, device_id, opener, overflowed>>

RemoveGatewayListener(p) ==
    /\ p \in gateway_listeners
    /\ gateway_listeners' = gateway_listeners \ {p}
    /\ UNCHANGED <<next_device_id, device_listeners, device_id, opener, overflowed>>

\* Every LocalPort behind a registered port gets the packet, and opens a
\* stream under the device's id unless there is one.
PublishDeviceData(d) ==
    /\ device_id[d] # NoId
    /\ opener' = [p \in Ports |->
                     IF p \in gateway_listeners
                     THEN [opener[p] EXCEPT ![device_id[d]] = IF @ = NoDevice THEN d ELSE @]
                     ELSE opener[p]]
    /\ UNCHANGED <<next_device_id, device_listeners, gateway_listeners, device_id,
                   overflowed>>

\* A LocalPort erases its streams of some ids.
EraseStreams(p, ids) ==
    /\ \E id \in ids : opener[p][id] # NoDevice
    /\ opener' = [opener EXCEPT ![p] = [id \in DeviceIds |->
                                          IF id \in ids THEN NoDevice ELSE @[id]]]
    /\ UNCHANGED <<next_device_id, device_listeners, gateway_listeners, device_id,
                   overflowed>>

Next ==
    \/ \E d \in Devices : MakeDevice(d) \/ DestroyDevice(d) \/ PublishDeviceData(d)
    \/ \E p \in Ports : RegGatewayListener(p) \/ RemoveGatewayListener(p)
    \/ \E p \in Ports, ids \in SUBSET DeviceIds : EraseStreams(p, ids)

Spec == Init /\ [][Next]_vars

----------------------------------------------------------------------------

\* The device that PublishGwData pushes an answer for id to.
Answered(id) == device_listeners[id]

\* The bus holds plain pointers: none is to a device that is destroyed, and
\* each is under the device's own id, even when ids have come round.
ListenersLive ==
    \A id \in DeviceIds :
        device_listeners[id] # NoDevice => device_id[device_listeners[id]] = id

\* Until ids have come round, every device hears what is published to it.
DevicesHear ==
    ~overflowed => \A d \in Devices :
        device_id[d] # NoId => device_listeners[device_id[d]] = d

\* Until ids have come round, a server's answer reaches the device that
\* opened the stream or nobody: never a device that was made later.
AnswersReachOpener ==
    ~overflowed => \A p \in Ports, id \in DeviceIds :
        opener[p][id] # NoDevice => Answered(id) \in {opener[p][id], NoDevice}

============================================================================
