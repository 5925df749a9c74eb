------------------------- MODULE SimGatewayProofs -------------------------
(***************************************************************************)
(* The safety of SimGateway, for any applications, ids, servers and        *)
(* objects.                                                                *)
(*                                                                         *)
(* Every step of the simulation is one of the gateway or leaves it alone,  *)
(* and one of the bus or leaves it alone: the theorems about the two hold  *)
(* in their composition.  SimInv ties them together.                       *)
(***************************************************************************)
EXTENDS SimGateway, GatewayRelayProofs

BusProofs == INSTANCE SimDataBusProofs WITH Devices <- AccessPoints, Ports <- {Port}

BusInv == BusProofs!BusInv

ClientTypeOK ==
    /\ builder \in [Transports -> BuilderStates]
    /\ transport \in [Transports -> Devices \cup {NoId}]
    /\ wrote \subseteq Transports
    /\ heard \subseteq AccessPoints \X Clients

\* Until ids come round: nothing was taken in under an id not given out, and
\* what was taken in under the id of a device was written there.
AskersWrote ==
    ~overflowed =>
        \A id \in Devices, c \in Clients, k \in ServeKinds :
            /\ id >= next_device_id => accepted[<<id, c, k>>] = 0
            /\ accepted[<<id, c, k>>] > 0 /\ device_listeners[id] # NoDevice
                   => <<device_listeners[id], c, k>> \in wrote

SimInv ==
    /\ ClientTypeOK
    /\ TransportsConnected
    /\ AskersWrote
    /\ AnswersHeardByWriters

----------------------------------------------------------------------------
(* The bus in the simulation.                                              *)

\* What BusInv says, in the terms of SimGateway.
LEMMA BusFacts ==
    ASSUME BusInv
    PROVE  /\ next_device_id \in Devices /\ NoId \notin Devices
           /\ device_listeners \in [Devices -> AccessPoints \cup {NoDevice}]
           /\ device_id \in [AccessPoints -> Devices \cup {NoId}]
           /\ opener \in [{Port} -> [Devices -> AccessPoints \cup {NoDevice}]]
           /\ overflowed \in BOOLEAN
           /\ \A id \in Devices : device_listeners[id] # NoDevice =>
                  device_id[device_listeners[id]] = id
           /\ ~overflowed => \A ap \in AccessPoints : device_id[ap] # NoId =>
                  device_listeners[device_id[ap]] = ap /\ device_id[ap] < next_device_id
BY SimAssumption
   DEF SimAssumption, NoId, BusInv, BusProofs!BusInv, BusProofs!TypeOK, BusProofs!NoId,
       BusProofs!DeviceIds, BusProofs!ListenersLive, BusProofs!DevicesHear,
       BusProofs!IdsUnused

\* The step of a bus that keeps every variable but the port's streams.
LEMMA BusFollowsFacts ==
    ASSUME BusFollows
    PROVE  UNCHANGED <<next_device_id, device_listeners, gateway_listeners, device_id,
                       overflowed>>
BY DEF BusFollows, busVars, Bus!EraseStreams

\* A step of the simulation is one of the bus.
LEMMA NextIsBusNext == [SimNext]_simVars => [BusProofs!Next]_BusProofs!vars
<1>. SUFFICES ASSUME [SimNext]_simVars PROVE [BusProofs!Next]_BusProofs!vars
  OBVIOUS
<1>. USE DEF busVars, BusProofs!vars
<1>1. ASSUME NEW t \in Transports, Build(t)
      PROVE  [BusProofs!Next]_BusProofs!vars
  <2>1. t[1] \in AccessPoints
    BY SimAssumption DEF SimAssumption, Ends
  <2>2. CASE UNCHANGED busVars
    BY <2>2
  <2>3. CASE Bus!MakeDevice(t[1])
    <3>1. BusProofs!MakeDevice(t[1])
      BY <2>3
         DEF Bus!MakeDevice, BusProofs!MakeDevice, Bus!NoId, BusProofs!NoId, Bus!DeviceIds,
             BusProofs!DeviceIds, Bus!GetDeviceId, BusProofs!GetDeviceId,
             Bus!RegDeviceListener, BusProofs!RegDeviceListener
    <3>. QED  BY <2>1, <3>1 DEF BusProofs!Next
  <2>. QED
    BY <1>1, <2>2, <2>3
       DEF Build, TransportBuilder, Join, CreateTransport, BuilderResult, GwDevice
<1>2. ASSUME NEW t \in Transports, ToServer(t)
      PROVE  [BusProofs!Next]_BusProofs!vars
  <2>1. t[1] \in AccessPoints
    BY SimAssumption DEF SimAssumption, Ends
  <2>2. BusProofs!PublishDeviceData(t[1])
    BY <1>2 DEF ToServer, Bus!PublishDeviceData, BusProofs!PublishDeviceData, Bus!NoId,
                BusProofs!NoId
  <2>. QED  BY <2>1, <2>2 DEF BusProofs!Next
<1>3. ASSUME NEW ap \in AccessPoints, ClientExit(ap)
      PROVE  [BusProofs!Next]_BusProofs!vars
  <2>1. BusProofs!DestroyDevice(ap)
    BY <1>3 DEF ClientExit, Bus!DestroyDevice, BusProofs!DestroyDevice, Bus!NoId,
                BusProofs!NoId, Bus!RemoveDeviceListener, BusProofs!RemoveDeviceListener
  <2>. QED  BY <2>1 DEF BusProofs!Next
<1>4. ASSUME GatewayStep \/ GatewayRestart
      PROVE  [BusProofs!Next]_BusProofs!vars
  <2>1. CASE Bus!EraseStreams(Port, IdsLeft)
    <3>1. BusProofs!EraseStreams(Port, IdsLeft)
      BY <2>1 DEF Bus!EraseStreams, BusProofs!EraseStreams, Bus!DeviceIds,
                  BusProofs!DeviceIds
    <3>2. IdsLeft \in SUBSET BusProofs!DeviceIds
      BY SimAssumption DEF SimAssumption, IdsLeft, BusProofs!DeviceIds
    <3>. QED  BY <3>1, <3>2 DEF BusProofs!Next
  <2>. QED  BY <1>4, <2>1 DEF GatewayStep, GatewayRestart, BusFollows
<1>5. ASSUME NEW s \in ServerStreams, FromServer(s)
      PROVE  [BusProofs!Next]_BusProofs!vars
  BY <1>5 DEF FromServer
<1>6. CASE PortChange
  <2>1. BusProofs!RegGatewayListener(Port) \/ BusProofs!RemoveGatewayListener(Port)
    BY <1>6 DEF PortChange, Bus!RegGatewayListener, BusProofs!RegGatewayListener,
                Bus!RemoveGatewayListener, BusProofs!RemoveGatewayListener
  <2>. QED  BY <2>1 DEF BusProofs!Next
<1>7. CASE UNCHANGED simVars
  BY <1>7 DEF simVars
<1>. QED  BY <1>1, <1>2, <1>3, <1>4, <1>5, <1>6, <1>7 DEF SimNext

\* BusInv in the simulation.
LEMMA SimBusInv == BusInv /\ [SimNext]_simVars => BusInv'
<1>1. BusProofs!BusAssumption
  BY SimAssumption DEF SimAssumption, BusProofs!BusAssumption
<1>. QED  BY <1>1, NextIsBusNext, BusProofs!BusNextInv DEF BusInv

----------------------------------------------------------------------------
(* The gateway in the simulation.                                          *)

\* What a transport writes is a packet of a conversation of the gateway.
LEMMA ConversationOfTransport ==
    ASSUME BusInv, NEW t \in Transports, ToServer(t)
    PROVE  /\ t = <<t[1], t[2], t[3]>>
           /\ t[1] \in AccessPoints /\ t[2] \in Clients /\ t[3] \in ServeKinds
           /\ device_id[t[1]] \in Devices /\ device_id[t[1]] # NoId
           /\ <<device_id[t[1]], t[2], t[3]>> \in Conversations
<1>1. /\ t = <<t[1], t[2], t[3]>>
      /\ t[1] \in AccessPoints /\ t[2] \in Clients /\ t[3] \in ServeKinds
  BY SimAssumption DEF SimAssumption, Ends
<1>2. device_id[t[1]] # NoId
  BY DEF ToServer, Bus!PublishDeviceData, Bus!NoId, NoId
<1>3. device_id[t[1]] \in Devices
  BY <1>1, <1>2, BusFacts
<1>. QED  BY <1>1, <1>2, <1>3 DEF Conversations

\* A step of the simulation is one of the gateway.
LEMMA NextIsGatewayNext == BusInv /\ [SimNext]_simVars => [Next]_vars
<1>. SUFFICES ASSUME BusInv, [SimNext]_simVars PROVE [Next]_vars
  OBVIOUS
<1>1. ASSUME NEW t \in Transports, Build(t)  PROVE [Next]_vars
  BY <1>1 DEF Build, GatewayIdle
<1>2. ASSUME NEW t \in Transports, ToServer(t)  PROVE [Next]_vars
  <2>1. CASE Input(<<device_id[t[1]], t[2], t[3]>>)
    BY <1>2, <2>1, ConversationOfTransport DEF Next
  <2>2. CASE GatewayIdle
    BY <2>2 DEF GatewayIdle
  <2>. QED  BY <1>2, <2>1, <2>2 DEF ToServer
<1>3. ASSUME NEW ap \in AccessPoints, ClientExit(ap)  PROVE [Next]_vars
  BY <1>3 DEF ClientExit, GatewayIdle
<1>4. CASE GatewayStep
  BY <1>4, Zenon DEF GatewayStep, Next
<1>5. ASSUME NEW s \in ServerStreams, FromServer(s)  PROVE [Next]_vars
  BY <1>5 DEF FromServer, Next
<1>6. CASE PortChange
  BY <1>6 DEF PortChange, GatewayIdle
<1>7. CASE GatewayRestart
  BY <1>7 DEF GatewayRestart, Next
<1>8. CASE UNCHANGED simVars
  BY <1>8 DEF simVars
<1>. QED  BY <1>1, <1>2, <1>3, <1>4, <1>5, <1>6, <1>7, <1>8 DEF SimNext

\* The gateway's loop takes no packets in.
LEMMA LoopAcceptsNothing ==
    ASSUME GatewayStep \/ GatewayRestart
    PROVE  UNCHANGED accepted
BY DEF GatewayStep, GatewayRestart, GetStreamStep, TieStream, TieFailedStream, Forward, Send,
       StreamState, LinkChange, OtherServerAdded, Restart, streamVars

----------------------------------------------------------------------------
(* SimInv.                                                                 *)

\* The builders: the device of an access point is made once, under an id no
\* packet was taken in for.
LEMMA BuildInv ==
    ASSUME GatewayInv, BusInv, SimInv, NEW t \in Transports, Build(t)
    PROVE  SimInv'
<1>. DEFINE ap == t[1]
<1>1. ap \in AccessPoints
  BY SimAssumption DEF SimAssumption, Ends
<1>2. /\ heard' = {} /\ wrote' = wrote
      /\ UNCHANGED <<accepted, gateway_listeners>>
  BY DEF Build, Silent, GatewayIdle, vars, streamVars, TransportBuilder, Join,
         CreateTransport, BuilderResult, GwDevice, busVars, Bus!MakeDevice
<1>3. AnswersHeardByWriters'
  BY <1>2 DEF AnswersHeardByWriters
<1>4. ASSUME UNCHANGED busVars
      PROVE  AskersWrote'
  BY <1>2, <1>4 DEF SimInv, AskersWrote, busVars
<1>5. CASE TransportBuilder(t) \/ Join(t) \/ BuilderResult(t)
  <2>1. UNCHANGED <<transport, busVars>> /\ builder' \in [Transports -> BuilderStates]
    BY <1>5 DEF TransportBuilder, Join, BuilderResult, SimInv, ClientTypeOK, BuilderStates
  <2>2. ClientTypeOK'
    BY <1>2, <2>1 DEF SimInv, ClientTypeOK
  <2>3. TransportsConnected'
    BY <2>1 DEF SimInv, TransportsConnected, busVars
  <2>. QED  BY <1>3, <1>4, <2>1, <2>2, <2>3 DEF SimInv
<1>6. CASE CreateTransport(t) /\ UNCHANGED busVars /\ device_id[ap] # NoId
  <2>1. /\ transport' = [transport EXCEPT ![t] = device_id[ap]]
        /\ device_id[ap] \in Devices /\ device_id' = device_id
        /\ builder' \in [Transports -> BuilderStates]
    BY <1>1, <1>6, BusFacts
       DEF CreateTransport, busVars, SimInv, ClientTypeOK, BuilderStates
  <2>2. ClientTypeOK' /\ TransportsConnected'
    BY <1>2, <2>1 DEF SimInv, ClientTypeOK, TransportsConnected
  <2>. QED  BY <1>3, <1>4, <1>6, <2>2 DEF SimInv
<1>7. CASE CreateTransport(t) /\ Bus!MakeDevice(ap)
  <2>1. PICK id \in Devices :
            /\ id = next_device_id
            /\ next_device_id' = (next_device_id + 1) % IdCount
            /\ Bus!GetDeviceId(id)
            /\ device_id[ap] = NoId
            /\ device_id' = [device_id EXCEPT ![ap] = id]
            /\ device_listeners' =
                  [device_listeners EXCEPT ![id] = IF @ = NoDevice THEN ap ELSE @]
    BY <1>7, SimAssumption
       DEF SimAssumption, Bus!MakeDevice, Bus!DeviceIds, Bus!GetDeviceId, Bus!NoId, NoId,
           Bus!RegDeviceListener
  <2>2. /\ transport' = [transport EXCEPT ![t] = id]
        /\ builder' \in [Transports -> BuilderStates]
    BY <1>1, <1>7, <2>1, BusFacts
       DEF CreateTransport, SimInv, ClientTypeOK, BuilderStates
  <2>3. ClientTypeOK'
    BY <1>2, <2>2 DEF SimInv, ClientTypeOK
  <2>4. TransportsConnected'
    <3>. SUFFICES ASSUME NEW u \in Transports, transport'[u] # NoId
                  PROVE  transport'[u] = device_id'[u[1]]
      BY DEF TransportsConnected
    <3>1. u[1] \in AccessPoints
      BY SimAssumption DEF SimAssumption, Ends
    <3>2. u # t => transport[u] # NoId /\ transport[u] = device_id[u[1]]
      BY <2>2 DEF SimInv, ClientTypeOK, TransportsConnected
    <3>. QED  BY <1>1, <2>1, <2>2, <3>1, <3>2, BusFacts DEF SimInv, ClientTypeOK
  <2>5. AskersWrote'
    <3>. SUFFICES ASSUME ~overflowed', NEW i \in Devices, NEW c \in Clients,
                         NEW k \in ServeKinds
                  PROVE  /\ i >= next_device_id' => accepted[<<i, c, k>>] = 0
                         /\ accepted[<<i, c, k>>] > 0 /\ device_listeners'[i] # NoDevice
                                => <<device_listeners'[i], c, k>> \in wrote
      BY <1>2 DEF AskersWrote
    <3>1. ~overflowed /\ id # IdCount - 1
      BY <2>1, Zenon DEF Bus!GetDeviceId
    <3>2. next_device_id' = id + 1
      BY <2>1, <3>1, SimAssumption DEF SimAssumption
    <3>3. /\ i >= id => accepted[<<i, c, k>>] = 0
          /\ accepted[<<i, c, k>>] > 0 /\ device_listeners[i] # NoDevice
                 => <<device_listeners[i], c, k>> \in wrote
      BY <2>1, <3>1 DEF SimInv, AskersWrote
    <3>4. i # id => device_listeners'[i] = device_listeners[i]
      BY <2>1, BusFacts
    <3>5. i \in Nat /\ id \in Nat
      BY SimAssumption DEF SimAssumption
    <3>. QED  BY <3>2, <3>3, <3>4, <3>5
  <2>. QED  BY <1>3, <2>3, <2>4, <2>5 DEF SimInv
<1>. QED  BY <1>5, <1>6, <1>7 DEF Build, CreateTransport, GwDevice

\* The application that ends takes its transports and its id's entry with it.
LEMMA ClientExitInv ==
    ASSUME BusInv, SimInv, NEW ap \in AccessPoints, ClientExit(ap)
    PROVE  SimInv'
<1>. DEFINE id == device_id[ap]
<1>1. /\ id \in Devices
      /\ device_listeners' = [device_listeners EXCEPT ![id] = NoDevice]
      /\ device_id' = [device_id EXCEPT ![ap] = NoId]
      /\ UNCHANGED <<next_device_id, overflowed, accepted>>
  BY BusFacts DEF ClientExit, GatewayIdle, vars, streamVars, Bus!DestroyDevice, Bus!NoId,
                  NoId, Bus!RemoveDeviceListener
<1>2. /\ builder' = [t \in Transports |-> IF t[1] = ap THEN "none" ELSE builder[t]]
      /\ transport' = [t \in Transports |-> IF t[1] = ap THEN NoId ELSE transport[t]]
      /\ wrote' = {t \in wrote : t[1] # ap} /\ heard' = {}
  BY DEF ClientExit, Silent
<1>3. ClientTypeOK'
  BY <1>2 DEF SimInv, ClientTypeOK, BuilderStates
<1>4. TransportsConnected'
  <2>. SUFFICES ASSUME NEW t \in Transports, transport'[t] # NoId
                PROVE  transport'[t] = device_id'[t[1]]
    BY DEF TransportsConnected
  <2>1. t[1] \in AccessPoints /\ t[1] # ap /\ transport'[t] = transport[t]
    BY <1>2, SimAssumption DEF SimAssumption, Ends
  <2>. QED  BY <1>1, <2>1, BusFacts DEF SimInv, TransportsConnected
<1>5. AskersWrote'
  <2>. SUFFICES ASSUME ~overflowed, NEW i \in Devices, NEW c \in Clients,
                       NEW k \in ServeKinds
                PROVE  /\ i >= next_device_id => accepted[<<i, c, k>>] = 0
                       /\ accepted[<<i, c, k>>] > 0 /\ device_listeners'[i] # NoDevice
                              => <<device_listeners'[i], c, k>> \in wrote'
    BY <1>1 DEF AskersWrote
  <2>1. device_listeners'[i] # NoDevice =>
            device_listeners'[i] = device_listeners[i] /\ device_listeners[i] # ap
    BY <1>1, BusFacts
  <2>. QED  BY <1>2, <2>1 DEF SimInv, AskersWrote
<1>6. AnswersHeardByWriters'
  BY <1>2 DEF AnswersHeardByWriters
<1>. QED  BY <1>3, <1>4, <1>5, <1>6 DEF SimInv

\* A packet is taken in under the id of the device it was written to.
LEMMA ToServerInv ==
    ASSUME GatewayInv, BusInv, SimInv, NEW t \in Transports, ToServer(t)
    PROVE  SimInv'
<1>. DEFINE conv == <<device_id[t[1]], t[2], t[3]>>
<1>1. /\ t = <<t[1], t[2], t[3]>> /\ t[1] \in AccessPoints
      /\ device_id[t[1]] \in Devices /\ device_id[t[1]] # NoId
      /\ conv \in Conversations
  BY ConversationOfTransport
<1>2. /\ UNCHANGED <<next_device_id, device_listeners, device_id, overflowed>>
      /\ UNCHANGED <<builder, transport>>
      /\ wrote' = wrote \cup {t} /\ heard' = {}
  BY DEF ToServer, Bus!PublishDeviceData, Silent
<1>3. accepted' = accepted \/ accepted' = [accepted EXCEPT ![conv] = @ + 1]
  BY DEF ToServer, Input, GatewayIdle, vars, streamVars
<1>4. ClientTypeOK' /\ TransportsConnected' /\ AnswersHeardByWriters'
  BY <1>2 DEF SimInv, ClientTypeOK, TransportsConnected, AnswersHeardByWriters
<1>5. AskersWrote'
  <2>. SUFFICES ASSUME ~overflowed, NEW i \in Devices, NEW c \in Clients,
                       NEW k \in ServeKinds
                PROVE  /\ i >= next_device_id => accepted'[<<i, c, k>>] = 0
                       /\ accepted'[<<i, c, k>>] > 0 /\ device_listeners[i] # NoDevice
                              => <<device_listeners[i], c, k>> \in wrote'
    BY <1>2 DEF AskersWrote
  <2>1. /\ i >= next_device_id => accepted[<<i, c, k>>] = 0
        /\ accepted[<<i, c, k>>] > 0 /\ device_listeners[i] # NoDevice
               => <<device_listeners[i], c, k>> \in wrote
    BY DEF SimInv, AskersWrote
  <2>2. CASE <<i, c, k>> = conv
    <3>1. i = device_id[t[1]] /\ c = t[2] /\ k = t[3]
      BY <2>2
    <3>2. device_listeners[i] = t[1] /\ i < next_device_id
      BY <1>1, <3>1, BusFacts
    <3>3. ~(i >= next_device_id)
      BY <3>2, BusFacts, SimAssumption DEF SimAssumption
    <3>4. <<device_listeners[i], c, k>> = t
      BY <1>1, <3>1, <3>2
    <3>. QED  BY <1>2, <3>3, <3>4
  <2>3. CASE <<i, c, k>> # conv
    <3>1. <<i, c, k>> \in Conversations /\ accepted \in [Conversations -> 0 .. MaxPackets]
      BY DEF Conversations, GatewayInv, TypeOK
    <3>2. accepted'[<<i, c, k>>] = accepted[<<i, c, k>>]
      BY <1>3, <2>3, <3>1
    <3>. QED  BY <1>2, <2>1, <3>2
  <2>. QED  BY <2>2, <2>3
<1>. QED  BY <1>4, <1>5 DEF SimInv

\* The data is emitted to those that sent to the server, and the device under
\* their id is the one they wrote on.
LEMMA FromServerInv ==
    ASSUME Inv, GatewayInv, GatewayInv', BusInv, SimInv,
           NEW s \in ServerStreams, FromServer(s)
    PROVE  SimInv'
<1>1. UNCHANGED <<next_device_id, device_listeners, device_id, overflowed, builder,
                  transport, wrote, accepted>>
  BY DEF FromServer, OutData, busVars, clientVars, streamVars
<1>2. TransportsConnected' /\ AskersWrote'
  BY <1>1 DEF SimInv, TransportsConnected, AskersWrote
<1>3. ASSUME NEW e \in heard'
      PROVE  /\ e \in AccessPoints \X Clients
             /\ \E dc \in output'.to :
                    /\ dc[1] \in Devices
                    /\ device_listeners[dc[1]] # NoDevice
                    /\ e = <<device_listeners[dc[1]], dc[2]>>
  <2>1. PICK dc \in output'.to :
            /\ device_listeners[dc[1]] # NoDevice
            /\ e = <<device_listeners[dc[1]], dc[2]>>
    BY <1>3 DEF FromServer, Bus!Answered
  <2>2. dc[1] \in Devices /\ dc[2] \in Clients
    BY <2>1 DEF GatewayInv, TypeOK
  <2>3. device_listeners[dc[1]] \in AccessPoints
    BY <2>1, <2>2, BusFacts
  <2>. QED  BY <2>1, <2>2, <2>3
<1>4. ClientTypeOK'
  BY <1>1, <1>3 DEF SimInv, ClientTypeOK
<1>5. ASSUME ~overflowed, NEW e \in heard'
      PROVE  <<e[1], e[2], output'.from>> \in wrote
  <2>1. PICK dc \in output'.to :
            /\ dc[1] \in Devices
            /\ device_listeners[dc[1]] # NoDevice
            /\ e = <<device_listeners[dc[1]], dc[2]>>
    BY <1>3, <1>5
  <2>2. dc[2] \in Clients
    BY <2>1 DEF GatewayInv, TypeOK
  <2>3. output'.from \in ServeKinds
    <3>1. output'.from = serves[s] /\ output'.to = {<<k[1], k[2]>> : k \in TiedKeys(s)}
      BY DEF FromServer, OutData
    <3>2. PICK k \in Keys : /\ stream_store[k] # NoGwStream
                            /\ server_stream[stream_store[k]] = s
      BY <2>1, <3>1 DEF TiedKeys
    <3>3. /\ stream_store[k] \in GwStreams /\ s # NoStream
          /\ asked[stream_store[k]] \in ServeKinds \cup {NoServer}
      BY <3>2, ManagerAssumption
         DEF ManagerAssumption, GatewayInv, TypeOK, Inv, ManagerTypeOK
    <3>4. asked[stream_store[k]] # NoServer /\ serves[s] = asked[stream_store[k]]
      BY <3>2, <3>3 DEF Inv, ActionInv, StreamInv, CallerStreamServesCaller
    <3>. QED  BY <3>1, <3>3, <3>4
  <2>4. accepted[<<dc[1], dc[2], output'.from>>] > 0
    BY <1>1, <2>1 DEF GatewayInv, AnswersReachAskers
  <2>5. <<device_listeners[dc[1]], dc[2], output'.from>> \in wrote
    BY <1>5, <2>1, <2>2, <2>3, <2>4 DEF SimInv, AskersWrote
  <2>. QED  BY <2>1, <2>5
<1>6. AnswersHeardByWriters'
  BY <1>1, <1>5 DEF AnswersHeardByWriters
<1>. QED  BY <1>2, <1>4, <1>6 DEF SimInv

\* Steps that concern neither the applications nor what was taken in.
LEMMA OtherStepsInv ==
    ASSUME SimInv, GatewayStep \/ GatewayRestart \/ PortChange \/ UNCHANGED simVars
    PROVE  SimInv'
<1>1. UNCHANGED <<next_device_id, device_listeners, device_id, overflowed, accepted>>
  <2>1. CASE GatewayStep \/ GatewayRestart
    BY <2>1, BusFollowsFacts, LoopAcceptsNothing DEF GatewayStep, GatewayRestart
  <2>2. CASE PortChange
    BY <2>2 DEF PortChange, GatewayIdle, vars, streamVars, Bus!RegGatewayListener,
                Bus!RemoveGatewayListener
  <2>3. CASE UNCHANGED simVars
    BY <2>3 DEF simVars, busVars, vars, streamVars
  <2>. QED  BY <2>1, <2>2, <2>3
<1>2. /\ UNCHANGED <<builder, transport, wrote>>
      /\ heard' = {} \/ UNCHANGED <<heard, output>>
  BY DEF GatewayStep, GatewayRestart, PortChange, Silent, clientVars, simVars, vars
<1>3. AnswersHeardByWriters'
  BY <1>1, <1>2 DEF SimInv, AnswersHeardByWriters
<1>4. ClientTypeOK'
  BY <1>2 DEF SimInv, ClientTypeOK
<1>. QED  BY <1>1, <1>2, <1>3, <1>4 DEF SimInv, TransportsConnected, AskersWrote

\* The bus starts as SimDataBus does.
LEMMA SimBusInit == SimInit => BusProofs!Init
BY DEF SimInit, Bus!Init, BusProofs!Init, Bus!DeviceIds, BusProofs!DeviceIds, Bus!NoId,
       BusProofs!NoId

\* The invariants of the gateway and of the bus and what ties them.
THEOREM SimInvariant == SimSpec => [](Inv /\ GatewayInv /\ BusInv /\ SimInv)
<1>1. SimInit => Inv /\ GatewayInv /\ BusInv /\ SimInv
  <2>. SUFFICES ASSUME SimInit  PROVE Inv /\ GatewayInv /\ BusInv /\ SimInv
    OBVIOUS
  <2>1. Inv /\ GatewayInv
    BY InitInv, GatewayInitInv DEF SimInit, Init
  <2>2. BusInv
    <3>1. BusProofs!BusAssumption
      BY SimAssumption DEF SimAssumption, BusProofs!BusAssumption
    <3>. QED  BY <3>1, SimBusInit, BusProofs!BusInitInv DEF BusInv
  <2>3. ClientTypeOK /\ TransportsConnected /\ AnswersHeardByWriters
    BY DEF SimInit, ClientTypeOK, TransportsConnected, AnswersHeardByWriters, BuilderStates
  <2>4. AskersWrote
    BY DEF SimInit, Init, AskersWrote, Conversations
  <2>. QED  BY <2>1, <2>2, <2>3, <2>4 DEF SimInv
<1>2. ASSUME Inv, GatewayInv, BusInv, SimInv, [SimNext]_simVars
      PROVE  Inv' /\ GatewayInv' /\ BusInv' /\ SimInv'
  <2>1. BusInv'
    BY <1>2, SimBusInv
  <2>2. [Next]_vars
    BY <1>2, NextIsGatewayNext
  <2>3. Inv'
    BY <1>2, <2>2, NextIsManagerNext, NextInv
  <2>4. GatewayInv'
    BY <1>2, <2>2, <2>3, GatewayNextInv
  <2>5. SimInv'
    BY <1>2, <2>4, BuildInv, ClientExitInv, ToServerInv, FromServerInv, OtherStepsInv
       DEF SimNext
  <2>. QED  BY <2>1, <2>3, <2>4, <2>5
<1>. QED  BY <1>1, <1>2, PTL DEF SimSpec

\* The simulation uses the gateway only as Spec allows: all that is proved of
\* Gateway, and of the manager in it, holds in the simulation.
THEOREM SimRunsGateway == SimSpec => Spec
<1>1. SimInit => Init
  BY DEF SimInit
<1>. QED  BY <1>1, SimInvariant, NextIsGatewayNext, PTL DEF SimSpec, Spec

\* The simulation uses the bus only as SimDataBus allows: the devices of the
\* access points and the one port are an instance of the bus that SimDataBus
\* models with any devices and ports.
THEOREM SimRunsBus == SimSpec => BusProofs!Spec
<1>. QED  BY SimBusInit, NextIsBusNext, PTL DEF SimSpec, BusProofs!Spec

\* With ids that are given out again, access points that come and go and a
\* port that leaves the bus, packets that applications write still leave the
\* gateway in order, each at most once, and only to their own server.
THEOREM SimRelaysPackets ==
    ASSUME IdentityInjective
    PROVE  SimSpec => RelaySpec
BY SimRunsGateway, GatewayRelaysPackets

\* No exit of an application, and no coming or going of the port, costs a
\* packet that the gateway took in: only a failed stream or a restart does.
THEOREM SimLosesByFailureOnly == SimSpec => LossNeedsFailure
BY SimRunsGateway, PacketsLostByFailureOnly

\* Type correctness of the simulation.
THEOREM SimTypeCorrect == SimSpec => []SimTypeOK
<1>1. GatewayInv /\ BusInv /\ SimInv => SimTypeOK
  BY DEF GatewayInv, BusInv, BusProofs!BusInv, BusProofs!TypeOK, BusProofs!DeviceIds,
         BusProofs!NoId, Bus!TypeOK, Bus!DeviceIds, Bus!NoId, SimInv, ClientTypeOK,
         SimTypeOK
<1>. QED  BY <1>1, SimInvariant, PTL

\* However builders, exits and restarts interleave, a transport is on the
\* device its access point has.
THEOREM TransportsStayConnected == SimSpec => []TransportsConnected
<1>1. SimInv => TransportsConnected
  BY DEF SimInv
<1>. QED  BY <1>1, SimInvariant, PTL

\* Until ids have come round, data from a server comes only to clients that
\* wrote to it on the access point they have.
THEOREM AnswersComeToWriters == SimSpec => []AnswersHeardByWriters
<1>1. SimInv => AnswersHeardByWriters
  BY DEF SimInv
<1>. QED  BY <1>1, SimInvariant, PTL

============================================================================
