-------------------------- MODULE SimDataBusProofs --------------------------
(***************************************************************************)
(* The safety of SimDataBus, for any number of ids, devices and ports.     *)
(***************************************************************************)
EXTENDS SimDataBus, TLAPS

\* Before the count comes round, the ids from next_device_id on are unused:
\* no device has one, is registered under one or opened a stream under one.
IdsUnused ==
    ~overflowed =>
        /\ \A d \in Devices : device_id[d] # NoId => device_id[d] < next_device_id
        /\ \A id \in DeviceIds : id >= next_device_id =>
               /\ device_listeners[id] = NoDevice
               /\ \A p \in Ports : opener[p][id] = NoDevice

BusInv ==
    /\ TypeOK
    /\ ListenersLive
    /\ IdsUnused
    /\ DevicesHear
    /\ AnswersReachOpener

\* A new device gets the next id, and the entry unless there is one.
LEMMA MakeDeviceInv ==
    ASSUME BusInv, NEW d \in Devices, MakeDevice(d)
    PROVE  BusInv'
<1>. USE BusAssumption DEF BusAssumption, DeviceIds, NoId
<1>1. PICK id \in DeviceIds :
          /\ GetDeviceId(id)
          /\ RegDeviceListener(d, id)
          /\ device_id' = [device_id EXCEPT ![d] = id]
  BY DEF MakeDevice
<1>2. UNCHANGED <<gateway_listeners, opener>> /\ device_id[d] = NoId
  BY DEF MakeDevice
<1>3. /\ \A i \in DeviceIds : device_listeners'[i] =
            IF i = id /\ device_listeners[i] = NoDevice THEN d ELSE device_listeners[i]
      /\ \A e \in Devices : device_id'[e] = IF e = d THEN id ELSE device_id[e]
  BY <1>1 DEF RegDeviceListener, BusInv, TypeOK
<1>4. id = next_device_id /\ next_device_id \in DeviceIds /\ overflowed \in BOOLEAN
  BY <1>1 DEF GetDeviceId, BusInv, TypeOK
<1>5. ~overflowed' => ~overflowed /\ next_device_id' = next_device_id + 1
  <2>1. ~overflowed' => ~overflowed /\ next_device_id # IdCount - 1
    BY <1>1, <1>4, Zenon DEF GetDeviceId
  <2>2. next_device_id # IdCount - 1 => (next_device_id + 1) % IdCount = next_device_id + 1
    BY <1>4
  <2>. QED  BY <1>1, <2>1, <2>2 DEF GetDeviceId
<1>6. TypeOK'
  <2>1. next_device_id' \in DeviceIds
    BY <1>1, <1>4 DEF GetDeviceId
  <2>2. overflowed' \in BOOLEAN
    BY <1>1 DEF GetDeviceId
  <2>. QED  BY <1>1, <1>2, <2>1, <2>2 DEF RegDeviceListener, BusInv, TypeOK
<1>7. ListenersLive'
  BY <1>2, <1>3 DEF BusInv, TypeOK, ListenersLive
<1>8. IdsUnused'
  <2>. SUFFICES ASSUME ~overflowed'
                PROVE  /\ \A e \in Devices : device_id'[e] # NoId => device_id'[e] < next_device_id'
                       /\ \A i \in DeviceIds : i >= next_device_id' =>
                              /\ device_listeners'[i] = NoDevice
                              /\ \A p \in Ports : opener'[p][i] = NoDevice
    BY DEF IdsUnused
  <2>1. ~overflowed /\ next_device_id' = next_device_id + 1 /\ id = next_device_id
    BY <1>4, <1>5
  <2>2. /\ \A e \in Devices : device_id[e] # NoId => device_id[e] < next_device_id
        /\ \A i \in DeviceIds : i >= next_device_id =>
               device_listeners[i] = NoDevice /\ \A p \in Ports : opener[p][i] = NoDevice
    BY <2>1 DEF BusInv, IdsUnused
  <2>3. \A e \in Devices : device_id[e] \in DeviceIds \cup {NoId}
    BY DEF BusInv, TypeOK
  <2>4. ASSUME NEW e \in Devices, device_id'[e] # NoId
        PROVE  device_id'[e] < next_device_id'
    BY <1>3, <1>4, <2>1, <2>2, <2>3, <2>4
  <2>5. ASSUME NEW i \in DeviceIds, i >= next_device_id'
        PROVE  device_listeners'[i] = NoDevice /\ \A p \in Ports : opener'[p][i] = NoDevice
    BY <1>2, <1>3, <1>4, <2>1, <2>2, <2>5
  <2>. QED  BY <2>4, <2>5
<1>9. DevicesHear'
  BY <1>2, <1>3, <1>4, <1>5 DEF BusInv, TypeOK, IdsUnused, DevicesHear
<1>10. AnswersReachOpener'
  BY <1>2, <1>3, <1>4, <1>5 DEF BusInv, TypeOK, IdsUnused, AnswersReachOpener, Answered
<1>. QED  BY <1>6, <1>7, <1>8, <1>9, <1>10 DEF BusInv

\* A device that goes takes the entry of its id with it.
LEMMA DestroyDeviceInv ==
    ASSUME BusInv, NEW d \in Devices, DestroyDevice(d)
    PROVE  BusInv'
<1>. USE BusAssumption DEF BusAssumption, DeviceIds, NoId
<1>. DEFINE id == device_id[d]
<1>1. /\ id \in DeviceIds
      /\ \A i \in DeviceIds :
            device_listeners'[i] = IF i = id THEN NoDevice ELSE device_listeners[i]
      /\ \A e \in Devices : device_id'[e] = IF e = d THEN NoId ELSE device_id[e]
      /\ UNCHANGED <<next_device_id, gateway_listeners, opener, overflowed>>
  BY DEF DestroyDevice, RemoveDeviceListener, BusInv, TypeOK
<1>2. TypeOK'
  BY <1>1 DEF DestroyDevice, RemoveDeviceListener, BusInv, TypeOK
<1>3. ListenersLive'
  BY <1>1 DEF BusInv, TypeOK, ListenersLive
<1>4. IdsUnused'
  BY <1>1 DEF BusInv, IdsUnused
<1>5. DevicesHear'
  BY <1>1 DEF BusInv, TypeOK, DevicesHear
<1>6. AnswersReachOpener'
  BY <1>1 DEF BusInv, AnswersReachOpener, Answered
<1>. QED  BY <1>2, <1>3, <1>4, <1>5, <1>6 DEF BusInv

\* A stream is opened by the device that has the id, and so hears it.
LEMMA PublishDeviceDataInv ==
    ASSUME BusInv, NEW d \in Devices, PublishDeviceData(d)
    PROVE  BusInv'
<1>. USE BusAssumption DEF BusAssumption, DeviceIds, NoId
<1>1. /\ device_id[d] \in DeviceIds
      /\ \A p \in Ports, i \in DeviceIds :
            opener'[p][i] \in {opener[p][i]} \cup (IF i = device_id[d] THEN {d} ELSE {})
      /\ \A p \in Ports : opener[p][device_id[d]] # NoDevice =>
            opener'[p][device_id[d]] = opener[p][device_id[d]]
      /\ UNCHANGED <<next_device_id, device_listeners, gateway_listeners, device_id, overflowed>>
  BY DEF PublishDeviceData, BusInv, TypeOK
<1>2. TypeOK'
  BY <1>1 DEF PublishDeviceData, BusInv, TypeOK
<1>3. ListenersLive' /\ DevicesHear'
  BY <1>1 DEF BusInv, ListenersLive, DevicesHear
<1>4. IdsUnused'
  BY <1>1 DEF BusInv, TypeOK, IdsUnused
<1>5. AnswersReachOpener'
  BY <1>1 DEF BusInv, AnswersReachOpener, Answered, DevicesHear
<1>. QED  BY <1>2, <1>3, <1>4, <1>5 DEF BusInv

\* Ports and streams that go, and ports that come.
LEMMA PortInv ==
    ASSUME BusInv,
           \/ \E p \in Ports : RegGatewayListener(p) \/ RemoveGatewayListener(p)
           \/ \E p \in Ports, ids \in SUBSET DeviceIds : EraseStreams(p, ids)
           \/ UNCHANGED vars
    PROVE  BusInv'
<1>1. ASSUME NEW p \in Ports, NEW ids \in SUBSET DeviceIds, EraseStreams(p, ids)
      PROVE  BusInv'
  <2>1. \A q \in Ports, i \in DeviceIds : opener'[q][i] \in {opener[q][i], NoDevice}
    BY <1>1 DEF EraseStreams, BusInv, TypeOK
  <2>2. TypeOK'
    BY <1>1 DEF EraseStreams, BusInv, TypeOK
  <2>3. ListenersLive' /\ DevicesHear'
    BY <1>1 DEF EraseStreams, BusInv, ListenersLive, DevicesHear
  <2>4. IdsUnused' /\ AnswersReachOpener'
    BY <1>1, <2>1 DEF EraseStreams, BusInv, IdsUnused, AnswersReachOpener, Answered
  <2>. QED  BY <2>2, <2>3, <2>4 DEF BusInv
<1>2. CASE \/ \E p \in Ports : RegGatewayListener(p) \/ RemoveGatewayListener(p)
           \/ UNCHANGED vars
  BY <1>2 DEF RegGatewayListener, RemoveGatewayListener, vars, BusInv, TypeOK,
              ListenersLive, IdsUnused, DevicesHear, AnswersReachOpener, Answered
<1>. QED  BY <1>1, <1>2

\* An empty bus.
LEMMA BusInitInv == Init => BusInv
<1>. SUFFICES ASSUME Init  PROVE BusInv
  OBVIOUS
<1>. USE BusAssumption DEF Init, BusAssumption, DeviceIds, NoId
<1>1. TypeOK
  <2>1. next_device_id \in DeviceIds
    OBVIOUS
  <2>2. device_listeners \in [DeviceIds -> Devices \cup {NoDevice}]
    OBVIOUS
  <2>3. gateway_listeners \subseteq Ports
    OBVIOUS
  <2>4. device_id \in [Devices -> DeviceIds \cup {NoId}]
    OBVIOUS
  <2>5. opener \in [Ports -> [DeviceIds -> Devices \cup {NoDevice}]]
    OBVIOUS
  <2>6. overflowed \in BOOLEAN
    OBVIOUS
  <2>. QED  BY ONLY <2>1, <2>2, <2>3, <2>4, <2>5, <2>6 DEF TypeOK
<1>2. ListenersLive /\ DevicesHear
  BY DEF ListenersLive, DevicesHear
<1>3. IdsUnused
  BY DEF IdsUnused
<1>4. AnswersReachOpener
  BY DEF AnswersReachOpener
<1>. QED  BY <1>1, <1>2, <1>3, <1>4 DEF BusInv

\* Every step of the bus.
LEMMA BusNextInv == BusInv /\ [Next]_vars => BusInv'
BY MakeDeviceInv, DestroyDeviceInv, PublishDeviceDataInv, PortInv DEF Next

\* BusInv holds in every state of the bus.
THEOREM BusInvariant == Spec => []BusInv
BY BusInitInv, BusNextInv, PTL DEF Spec

\* Type correctness of the bus.
THEOREM BusTypeCorrect == Spec => []TypeOK
<1>1. BusInv => TypeOK
  BY DEF BusInv
<1>. QED  BY <1>1, BusInvariant, PTL

\* The bus never holds a pointer to a destroyed device, even when ids are
\* given out a second time.
THEOREM NoDanglingListener == Spec => []ListenersLive
<1>1. BusInv => ListenersLive
  BY DEF BusInv
<1>. QED  BY <1>1, BusInvariant, PTL

\* Before the count comes round, every device hears what is published to it.
THEOREM EveryDeviceHears == Spec => []DevicesHear
<1>1. BusInv => DevicesHear
  BY DEF BusInv
<1>. QED  BY <1>1, BusInvariant, PTL

\* Before the count comes round, no answer reaches a device other than the one
\* that opened the stream.
THEOREM AnswersReachTheirDevice == Spec => []AnswersReachOpener
<1>1. BusInv => AnswersReachOpener
  BY DEF BusInv
<1>. QED  BY <1>1, BusInvariant, PTL

============================================================================
