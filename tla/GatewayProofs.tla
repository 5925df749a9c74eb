------------------------------ MODULE GatewayProofs ------------------------------
(***************************************************************************)
(* The safety of Gateway, for any devices, clients, servers and objects.   *)
(*                                                                         *)
(* Every step of the gateway is a step of the ServerStreamManager or       *)
(* leaves it alone, so that the manager's theorems hold in the gateway.    *)
(* GatewayInv says what LocalPort adds to them.                            *)
(***************************************************************************)
EXTENDS Gateway, ServerStreamManagerProofs

\* A stream is opened by a packet.
OpenedByPacket ==
    \A k \in Keys : stream_store[k] # NoGwStream =>
        accepted[<<k[1], k[2], asked[stream_store[k]]>>] > 0

GatewayInv ==
    /\ TypeOK
    /\ StoreOwnsStreams
    /\ TiedStreamsUsable
    /\ OpenedByPacket
    /\ AnswersReachAskers

\* The packets a GwStream buffers name the server it was made for.
BufferedForServer ==
    \A g \in GwStreams : \A i \in DOMAIN gw_buffer[g] :
        gw_buffer[g][i].conv[3] = asked[g]

----------------------------------------------------------------------------
(* The manager in the gateway.                                             *)

\* A step of the gateway is one of the manager's.
LEMMA NextIsManagerNext == [Next]_vars => [ManagerNext]_managerVars
<1>. SUFFICES ASSUME [Next]_vars PROVE [ManagerNext]_managerVars
  OBVIOUS
<1>1. ASSUME NEW conv \in Conversations, Input(conv)
      PROVE  [ManagerNext]_managerVars
  <2>1. conv[3] \in ServeKinds
    BY DEF Conversations
  <2>. QED
    BY <1>1, <2>1 DEF Input, WriteToOpenStream, WriteToNewStream, GetStream, ManagerNext
<1>2. ASSUME NEW g \in GwStreams,
             GetStreamStep(g) \/ TieStream(g) \/ TieFailedStream(g) \/ Forward(g)
      PROVE  [ManagerNext]_managerVars
  BY <1>2 DEF GetStreamStep, TieStream, TieFailedStream, Forward, ManagerNext, Update
<1>3. ASSUME NEW s \in ServerStreams,
             Send(s) \/ OutData(s) \/ StreamState(s) \/ LinkChange(s)
      PROVE  [ManagerNext]_managerVars
  BY <1>3 DEF Send, OutData, StreamState, LinkChange, ManagerNext
<1>4. ASSUME NEW id \in ServerIds, OtherServerAdded(id)
      PROVE  [ManagerNext]_managerVars
  BY <1>4 DEF OtherServerAdded, ManagerNext
<1>5. CASE Restart
  BY <1>5 DEF Restart, ManagerNext
<1>6. CASE UNCHANGED vars
  BY <1>6 DEF vars
<1>. QED  BY <1>1, <1>2, <1>3, <1>4, <1>5, <1>6 DEF Next

\* The gateway uses the ServerStreamManager only as ManagerSpec allows.
THEOREM GatewayRunsManager == Spec => ManagerSpec
<1>1. Init => ManagerInit
  BY DEF Init
<1>. QED  BY <1>1, NextIsManagerNext, PTL DEF Spec, ManagerSpec

\* So the GwStreams of the gateway are served as StreamService says.
THEOREM GatewayKeepsService == Spec => ServiceSpec
BY GatewayRunsManager, ManagerKeepsService

----------------------------------------------------------------------------
(* LocalPort.                                                              *)

\* The parts of a conversation, and its Key.
LEMMA ConversationKey ==
    ASSUME NEW conv \in Conversations
    PROVE  /\ conv[1] \in Devices /\ conv[2] \in Clients /\ conv[3] \in ServeKinds
           /\ conv = <<conv[1], conv[2], conv[3]>>
           /\ Key(conv) \in Keys
           /\ Key(conv) = <<conv[1], conv[2], Identity[conv[3]]>>
BY GatewayAssumption DEF Conversations, Key, Keys, Identities

\* A packet opens a stream or goes to the one that is open.
LEMMA InputInv ==
    ASSUME Inv, Inv', GatewayInv, NEW conv \in Conversations, Input(conv)
    PROVE  GatewayInv'
<1>. DEFINE packet == [conv |-> conv, n |-> accepted[conv] + 1]
            key == Key(conv)
<1>. USE GatewayAssumption
<1>1. /\ packet \in Packet
      /\ accepted' \in [Conversations -> 0..MaxPackets]
      /\ accepted'[conv] > 0
      /\ \A c \in Conversations : accepted'[c] >= accepted[c]
  BY DEF GatewayInv, TypeOK, Input, Packet
<1>2. /\ key \in Keys /\ conv[1] \in Devices /\ conv[2] \in Clients
      /\ conv[3] \in ServeKinds /\ conv = <<conv[1], conv[2], conv[3]>>
      /\ key[1] = conv[1] /\ key[2] = conv[2] /\ key[3] = Identity[conv[3]]
  BY ConversationKey
<1>3. /\ output' = NoOutput
      /\ out_buffer' = out_buffer /\ sent' = sent
  BY DEF Input, Quiet
<1>4. AnswersReachAskers'
  BY <1>3 DEF AnswersReachAskers, NoOutput
<1>5. output' \in [from : ServeKinds \cup {NoServer}, to : SUBSET (Devices \X Clients)]
  BY <1>3 DEF NoOutput
<1>6. CASE WriteToOpenStream(conv, packet)
  <2>1. /\ stream_store[key] \in GwStreams
        /\ gw_buffer' \in [GwStreams -> Seq(Packet)]
        /\ UNCHANGED <<managerVars, stream_store>>
    BY <1>1, <1>2, <1>6 DEF WriteToOpenStream, GatewayInv, TypeOK
  <2>2. TypeOK'
    BY <1>1, <1>3, <1>5, <2>1 DEF GatewayInv, TypeOK, Inv
  <2>3. StoreOwnsStreams' /\ TiedStreamsUsable'
    BY <2>1 DEF GatewayInv, StoreOwnsStreams, TiedStreamsUsable, managerVars
  <2>4. OpenedByPacket'
    <3>. SUFFICES ASSUME NEW k \in Keys, stream_store[k] # NoGwStream
                  PROVE  accepted'[<<k[1], k[2], asked[stream_store[k]]>>] > 0
      BY <2>1 DEF OpenedByPacket, managerVars
    <3>1. <<k[1], k[2], asked[stream_store[k]]>> \in Conversations
      BY DEF GatewayInv, TypeOK, ManagerTypeOK, StoreOwnsStreams, Keys, Conversations
    <3>2. /\ accepted[<<k[1], k[2], asked[stream_store[k]]>>] > 0
          /\ accepted[<<k[1], k[2], asked[stream_store[k]]>>] \in Nat
      BY <3>1 DEF GatewayInv, OpenedByPacket, TypeOK
    <3>. QED  BY <1>1, <3>1, <3>2
  <2>. QED  BY <1>4, <2>2, <2>3, <2>4 DEF GatewayInv
<1>7. CASE WriteToNewStream(conv, packet)
  <2>1. PICK g \in GwStreams :
            /\ GetStream(g, conv[3])
            /\ stream_store[key] = NoGwStream
            /\ stream_store' = [stream_store EXCEPT ![key] = g]
            /\ gw_buffer' = [gw_buffer EXCEPT ![g] = <<packet>>]
    BY <1>7 DEF WriteToNewStream
  <2>2. /\ asked[g] = NoServer
        /\ asked' = [asked EXCEPT ![g] = conv[3]]
        /\ UNCHANGED <<server_stream, link_state>>
    BY <2>1 DEF GetStream, GetStreamById, GetStreamByEndpoints, MakeStream
  <2>3. \A k \in Keys : stream_store[k] # g
    BY <2>2 DEF GatewayInv, StoreOwnsStreams
  <2>4. conv[3] # NoServer /\ g # NoGwStream /\ \A h \in GwStreams : asked[h] \in ServeKinds \cup {NoServer}
    BY <1>2, ManagerAssumption DEF Inv, ManagerTypeOK
  <2>5. TypeOK'
    BY <1>1, <1>2, <1>3, <1>5, <2>1 DEF GatewayInv, TypeOK, Inv
  <2>6. TiedStreamsUsable'
    BY <2>2 DEF GatewayInv, TiedStreamsUsable
  <2>7. StoreOwnsStreams'
    <3>1. \A k \in Keys : stream_store'[k] = IF k = key THEN g ELSE stream_store[k]
      BY <2>1 DEF GatewayInv, TypeOK
    <3>2. \A h \in GwStreams : asked'[h] = IF h = g THEN conv[3] ELSE asked[h]
      BY <2>2 DEF Inv, ManagerTypeOK
    <3>3. \A k \in Keys : stream_store[k] \in GwStreams \cup {NoGwStream}
      BY DEF GatewayInv, TypeOK
    <3>. QED  BY <1>2, <2>1, <2>3, <2>4, <3>1, <3>2, <3>3 DEF GatewayInv, StoreOwnsStreams
  <2>8. OpenedByPacket'
    <3>. SUFFICES ASSUME NEW k \in Keys, stream_store'[k] # NoGwStream
                  PROVE  accepted'[<<k[1], k[2], asked'[stream_store'[k]]>>] > 0
      BY DEF OpenedByPacket
    <3>1. CASE k = key
      BY <1>1, <1>2, <2>1, <2>2, <3>1 DEF GatewayInv, TypeOK, Inv, ManagerTypeOK
    <3>2. CASE k # key
      <4>1. /\ stream_store'[k] = stream_store[k]
            /\ stream_store[k] \in GwStreams /\ stream_store[k] # g
            /\ asked'[stream_store[k]] = asked[stream_store[k]]
        BY <2>1, <2>2, <2>3, <3>2 DEF GatewayInv, TypeOK, Inv, ManagerTypeOK
      <4>2. <<k[1], k[2], asked[stream_store[k]]>> \in Conversations
        BY <4>1 DEF GatewayInv, TypeOK, ManagerTypeOK, StoreOwnsStreams, Keys, Conversations
      <4>3. /\ accepted[<<k[1], k[2], asked[stream_store[k]]>>] > 0
            /\ accepted[<<k[1], k[2], asked[stream_store[k]]>>] \in Nat
        BY <4>1, <4>2 DEF GatewayInv, OpenedByPacket, TypeOK
      <4>. QED  BY <1>1, <4>1, <4>2, <4>3
    <3>. QED  BY <3>1, <3>2
  <2>. QED  BY <1>4, <2>5, <2>6, <2>7, <2>8 DEF GatewayInv
<1>. QED  BY <1>6, <1>7 DEF Input

\* Nothing changes the store, and no answer comes in.
LEMMA StoreKeptInv ==
    ASSUME Inv, Inv', GatewayInv, UNCHANGED <<stream_store, accepted, asked>>, Quiet
    PROVE  StoreOwnsStreams' /\ OpenedByPacket' /\ AnswersReachAskers'
BY DEF GatewayInv, StoreOwnsStreams, OpenedByPacket, AnswersReachAskers, Quiet, NoOutput

\* A get action goes on; no stream of a GwStream is touched.
LEMMA GetStreamStepInv ==
    ASSUME Inv, Inv', GatewayInv, NEW g \in GwStreams, GetStreamStep(g)
    PROVE  GatewayInv'
<1>1. UNCHANGED <<asked, server_stream, link_state, streamVars>> /\ Quiet
  BY DEF GetStreamStep, CheckServerExists, RequestServer, GetServersResult, GetServersError,
         ReportError, MakeStream
<1>2. TypeOK'
  BY <1>1 DEF GatewayInv, TypeOK, Inv, streamVars, Quiet, NoOutput
<1>3. TiedStreamsUsable'
  BY <1>1 DEF GatewayInv, TiedStreamsUsable
<1>. QED  BY <1>1, <1>2, <1>3, StoreKeptInv DEF GatewayInv, streamVars

\* A GwStream takes a stream that has not failed.
LEMMA TieStreamInv ==
    ASSUME Inv, Inv', GatewayInv, NEW g \in GwStreams, TieStream(g)
    PROVE  GatewayInv'
<1>1. /\ server_stream' = [server_stream EXCEPT ![g] = get_stream[g]]
      /\ link_state[get_stream[g]] # "kLinkError"
      /\ UNCHANGED <<asked, link_state, streamVars>> /\ Quiet
  BY DEF TieStream, DeliverStream
<1>2. TypeOK'
  BY <1>1 DEF GatewayInv, TypeOK, Inv, streamVars, Quiet, NoOutput
<1>3. TiedStreamsUsable'
  BY <1>1 DEF GatewayInv, TiedStreamsUsable, Inv, ManagerTypeOK
<1>. QED  BY <1>1, <1>2, <1>3, StoreKeptInv DEF GatewayInv, streamVars

\* Packets move on between buffers, or links change short of an error.
LEMMA TransferInv ==
    ASSUME Inv, Inv', GatewayInv,
           \/ \E g \in GwStreams : Forward(g)
           \/ \E s \in ServerStreams : Send(s) \/ LinkChange(s)
           \/ \E id \in ServerIds : OtherServerAdded(id)
           \/ UNCHANGED vars
    PROVE  GatewayInv'
<1>1. ASSUME NEW g \in GwStreams, Forward(g) PROVE GatewayInv'
  <2>. DEFINE s == server_stream[g]
  <2>1. s \in ServerStreams /\ Head(gw_buffer[g]) \in Packet
        /\ Tail(gw_buffer[g]) \in Seq(Packet)
    BY <1>1 DEF Forward, Inv, ManagerTypeOK, GatewayInv, TypeOK
  <2>2. TypeOK'
    BY <1>1, <2>1 DEF Forward, GatewayInv, TypeOK, Inv, Quiet, NoOutput
  <2>3. TiedStreamsUsable'
    BY <1>1 DEF Forward, managerVars, GatewayInv, TiedStreamsUsable
  <2>. QED  BY <1>1, <2>2, <2>3, StoreKeptInv DEF Forward, managerVars, GatewayInv
<1>2. ASSUME NEW s \in ServerStreams, Send(s) PROVE GatewayInv'
  <2>1. /\ Head(out_buffer[s]) \in Packet
        /\ Tail(out_buffer[s]) \in Seq(Packet)
    BY <1>2 DEF Send, GatewayInv, TypeOK
  <2>2. TypeOK'
    <3>1. Head(out_buffer[s]).n \in 0..MaxPackets
      BY <2>1, GatewayAssumption DEF Packet
    <3>2. /\ sent' \in [Conversations -> 0..MaxPackets]
          /\ out_buffer' \in [ServerStreams -> Seq(Packet)]
      BY <1>2, <2>1, <3>1 DEF Send, GatewayInv, TypeOK
    <3>. QED  BY <1>2, <3>2 DEF Send, GatewayInv, TypeOK, Inv, Quiet, NoOutput
  <2>3. TiedStreamsUsable'
    BY <1>2 DEF Send, managerVars, GatewayInv, TiedStreamsUsable
  <2>. QED  BY <1>2, <2>2, <2>3, StoreKeptInv DEF Send, managerVars, GatewayInv
<1>3. ASSUME NEW s \in ServerStreams, LinkChange(s) PROVE GatewayInv'
  <2>1. TypeOK'
    BY <1>3 DEF LinkChange, GatewayInv, TypeOK, Inv, streamVars, Quiet, NoOutput
  <2>2. TiedStreamsUsable'
    BY <1>3 DEF LinkChange, LinkUp, LinkDown, GatewayInv, TiedStreamsUsable, Inv, ManagerTypeOK
  <2>3. UNCHANGED <<asked, stream_store, accepted>> /\ Quiet
    BY <1>3 DEF LinkChange, LinkUp, LinkDown, streamVars
  <2>. QED  BY <2>1, <2>2, <2>3, StoreKeptInv DEF GatewayInv
<1>4. ASSUME NEW id \in ServerIds, OtherServerAdded(id) PROVE GatewayInv'
  <2>1. UNCHANGED <<asked, server_stream, link_state, streamVars>> /\ Quiet
    BY <1>4 DEF OtherServerAdded, AetherAddServer
  <2>2. TypeOK' /\ TiedStreamsUsable'
    BY <2>1 DEF GatewayInv, TypeOK, TiedStreamsUsable, Inv, streamVars, Quiet, NoOutput
  <2>. QED  BY <2>1, <2>2, StoreKeptInv DEF GatewayInv, streamVars
<1>5. CASE UNCHANGED vars
  BY <1>5 DEF vars, managerVars, streamVars, GatewayInv, TypeOK, Inv, StoreOwnsStreams,
              TiedStreamsUsable, OpenedByPacket, AnswersReachAskers
<1>. QED  BY <1>1, <1>2, <1>3, <1>4, <1>5

\* An answer goes to the Keys whose GwStream is tied to the stream, and the
\* stream's server is the one each of them was opened for by a packet.
LEMMA OutDataInv ==
    ASSUME Inv, Inv', GatewayInv, NEW s \in ServerStreams, OutData(s)
    PROVE  GatewayInv'
<1>. USE DEF OutData
<1>1. ASSUME NEW k \in TiedKeys(s)
      PROVE  /\ k \in Keys /\ stream_store[k] \in GwStreams
             /\ asked[stream_store[k]] = serves[s]
  <2>1. k \in Keys /\ stream_store[k] # NoGwStream /\ server_stream[stream_store[k]] = s
    BY DEF TiedKeys
  <2>2. stream_store[k] \in GwStreams
    BY <2>1 DEF GatewayInv, TypeOK
  <2>3. serves[s] = asked[stream_store[k]]
    BY <2>1, <2>2, ManagerAssumption DEF Inv, StreamInv, CallerStreamServesCaller
  <2>. QED  BY <2>1, <2>2, <2>3
<1>2. AnswersReachAskers'
  BY <1>1, GatewayAssumption DEF GatewayInv, OpenedByPacket, AnswersReachAskers, streamVars
<1>3. output' \in [from : ServeKinds \cup {NoServer}, to : SUBSET (Devices \X Clients)]
  BY <1>1 DEF Keys, Inv, ManagerTypeOK
<1>4. TypeOK'
  BY <1>3 DEF GatewayInv, TypeOK, Inv, streamVars
<1>5. StoreOwnsStreams' /\ TiedStreamsUsable' /\ OpenedByPacket'
  BY DEF GatewayInv, StoreOwnsStreams, TiedStreamsUsable, OpenedByPacket, streamVars, managerVars
<1>. QED  BY <1>2, <1>4, <1>5 DEF GatewayInv

\* Erased GwStreams leave the store and are free; the others stay.
LEMMA EraseInv ==
    ASSUME Inv, Inv', GatewayInv, NEW gs \in SUBSET GwStreams,
           stream_store' = StoreWithout(gs),
           \A h \in GwStreams : asked'[h] = IF h \in gs THEN NoServer ELSE asked[h],
           gw_buffer' \in [GwStreams -> Seq(Packet)],
           out_buffer' = OutBufferOfLive, Quiet, UNCHANGED <<accepted, sent>>
    PROVE  TypeOK' /\ StoreOwnsStreams' /\ OpenedByPacket' /\ AnswersReachAskers'
<1>. USE GatewayAssumption
<1>1. \A k \in Keys :
          /\ stream_store[k] \in GwStreams \cup {NoGwStream}
          /\ stream_store'[k] = IF stream_store[k] \in gs THEN NoGwStream ELSE stream_store[k]
  BY DEF GatewayInv, TypeOK, StoreWithout
<1>2. TypeOK'
  BY DEF GatewayInv, TypeOK, Inv, StoreWithout, OutBufferOfLive, Quiet, NoOutput
<1>3. StoreOwnsStreams'
  <2>1. \A k \in Keys : stream_store'[k] # NoGwStream =>
            /\ stream_store'[k] = stream_store[k]
            /\ asked'[stream_store'[k]] = asked[stream_store[k]]
    BY <1>1
  <2>2. \A g \in GwStreams : asked'[g] # NoServer =>
            \E k \in Keys : stream_store'[k] = g
    <3>. SUFFICES ASSUME NEW g \in GwStreams, asked'[g] # NoServer
                  PROVE  \E k \in Keys : stream_store'[k] = g
      OBVIOUS
    <3>1. g \notin gs /\ asked[g] # NoServer
      OBVIOUS
    <3>2. PICK k \in Keys : stream_store[k] = g
      BY <3>1 DEF GatewayInv, StoreOwnsStreams
    <3>. QED  BY <1>1, <3>1, <3>2
  <2>3. \A j, k \in Keys :
            stream_store'[j] = stream_store'[k] /\ stream_store'[j] # NoGwStream => j = k
    BY <2>1 DEF GatewayInv, StoreOwnsStreams
  <2>. QED  BY <2>1, <2>2, <2>3 DEF GatewayInv, StoreOwnsStreams
<1>4. OpenedByPacket'
  BY <1>1 DEF GatewayInv, OpenedByPacket
<1>5. AnswersReachAskers'
  BY DEF AnswersReachAskers, Quiet, NoOutput
<1>. QED  BY <1>2, <1>3, <1>4, <1>5

\* A GwStream that is given a failed stream is erased.
LEMMA TieFailedStreamInv ==
    ASSUME Inv, Inv', GatewayInv, NEW g \in GwStreams, TieFailedStream(g)
    PROVE  GatewayInv'
<1>. USE DEF TieFailedStream, DeliverToDestroyed
<1>1. \A h \in GwStreams : asked'[h] = IF h \in {g} THEN NoServer ELSE asked[h]
  BY DEF Inv, ManagerTypeOK
<1>2. gw_buffer' \in [GwStreams -> Seq(Packet)]
  BY DEF GatewayInv, TypeOK
<1>3. TypeOK' /\ StoreOwnsStreams' /\ OpenedByPacket' /\ AnswersReachAskers'
  BY <1>1, <1>2, EraseInv
<1>4. TiedStreamsUsable'
  BY DEF DestroyUnheld, GatewayInv, TiedStreamsUsable, Inv, ManagerTypeOK
<1>. QED  BY <1>3, <1>4 DEF GatewayInv

\* The GwStreams tied to a failed stream are erased, all of them.
LEMMA StreamStateInv ==
    ASSUME Inv, Inv', GatewayInv, NEW s \in ServerStreams, StreamState(s)
    PROVE  GatewayInv'
<1>. DEFINE gs == {g \in GwStreams : server_stream[g] = s}
<1>. USE DEF StreamState, LinkError
<1>1. \A h \in GwStreams :
          /\ asked'[h] = IF h \in gs THEN NoServer ELSE asked[h]
          /\ server_stream'[h] = IF h \in gs THEN NoStream ELSE server_stream[h]
  OBVIOUS
<1>2. gw_buffer' \in [GwStreams -> Seq(Packet)]
  BY DEF GatewayInv, TypeOK
<1>3. TypeOK' /\ StoreOwnsStreams' /\ OpenedByPacket' /\ AnswersReachAskers'
  <2>. HIDE DEF gs
  <2>1. /\ gs \in SUBSET GwStreams
        /\ stream_store' = StoreWithout(gs)
        /\ out_buffer' = OutBufferOfLive /\ Quiet /\ UNCHANGED <<accepted, sent>>
    BY DEF gs
  <2>. QED  BY <1>1, <1>2, <2>1, EraseInv
<1>4. TiedStreamsUsable'
  <2>1. \A t \in ServerStreams :
            link_state'[t] = "kLinkError" => t = s \/ link_state[t] = "kLinkError"
    BY DEF DestroyUnheld, Inv, ManagerTypeOK
  <2>. QED  BY <1>1, <2>1 DEF GatewayInv, TiedStreamsUsable, Inv, ManagerTypeOK
<1>. QED  BY <1>3, <1>4 DEF GatewayInv

\* The restarted gateway has no stream.
LEMMA RestartInv ==
    ASSUME Inv, Inv', GatewayInv, Restart
    PROVE  GatewayInv'
<1>. USE GatewayAssumption DEF Restart, ManagerRestart
<1>1. TypeOK'
  BY DEF GatewayInv, TypeOK, Inv, Quiet, NoOutput
<1>2. StoreOwnsStreams' /\ TiedStreamsUsable' /\ OpenedByPacket' /\ AnswersReachAskers'
  BY DEF StoreOwnsStreams, TiedStreamsUsable, OpenedByPacket, AnswersReachAskers, Quiet,
         NoOutput
<1>. QED  BY <1>1, <1>2 DEF GatewayInv

\* The initial states satisfy GatewayInv.
LEMMA GatewayInitInv == Init => GatewayInv
<1>. SUFFICES ASSUME Init PROVE GatewayInv
  OBVIOUS
<1>1. ManagerTypeOK
  BY InitInv DEF Init, Inv
<1>2. TypeOK
  BY <1>1, GatewayAssumption DEF Init, TypeOK, NoOutput
<1>3. StoreOwnsStreams /\ TiedStreamsUsable /\ OpenedByPacket /\ AnswersReachAskers
  BY DEF Init, ManagerInit, StoreOwnsStreams, TiedStreamsUsable, OpenedByPacket,
         AnswersReachAskers, NoOutput
<1>. QED  BY <1>2, <1>3 DEF GatewayInv

\* Every step preserves GatewayInv.
LEMMA GatewayNextInv == Inv /\ Inv' /\ GatewayInv /\ [Next]_vars => GatewayInv'
<1>. SUFFICES ASSUME Inv, Inv', GatewayInv, [Next]_vars PROVE GatewayInv'
  OBVIOUS
<1>1. CASE \E conv \in Conversations : Input(conv)
  BY <1>1, InputInv
<1>2. CASE \E g \in GwStreams : GetStreamStep(g)
  BY <1>2, GetStreamStepInv
<1>3. CASE \E g \in GwStreams : TieStream(g)
  BY <1>3, TieStreamInv
<1>4. CASE \E g \in GwStreams : TieFailedStream(g)
  BY <1>4, TieFailedStreamInv
<1>5. CASE \E s \in ServerStreams : OutData(s)
  BY <1>5, OutDataInv
<1>6. CASE \E s \in ServerStreams : StreamState(s)
  BY <1>6, StreamStateInv
<1>7. CASE \/ \E g \in GwStreams : Forward(g)
           \/ \E s \in ServerStreams : Send(s) \/ LinkChange(s)
           \/ \E id \in ServerIds : OtherServerAdded(id)
           \/ UNCHANGED vars
  BY <1>7, TransferInv
<1>8. CASE Restart
  BY <1>8, RestartInv
<1>. QED  BY <1>1, <1>2, <1>3, <1>4, <1>5, <1>6, <1>7, <1>8 DEF Next

\* The manager's invariant and the gateway's hold in every state of the gateway.
THEOREM GatewayInvariant == Spec => [](Inv /\ GatewayInv)
<1>1. Init => Inv /\ GatewayInv
  BY InitInv, GatewayInitInv DEF Init
<1>2. Inv /\ GatewayInv /\ [Next]_vars => (Inv /\ GatewayInv)'
  BY NextIsManagerNext, NextInv, GatewayNextInv
<1>. QED  BY <1>1, <1>2, PTL DEF Spec

\* The gateway's state stays of its types.
THEOREM GatewayTypeCorrect == Spec => []TypeOK
<1>1. GatewayInv => TypeOK
  BY DEF GatewayInv
<1>. QED  BY <1>1, GatewayInvariant, PTL

\* Every GwStream is in the store under exactly one Key, that of its server.
THEOREM StreamsOwned == Spec => []StoreOwnsStreams
<1>1. GatewayInv => StoreOwnsStreams
  BY DEF GatewayInv
<1>. QED  BY <1>1, GatewayInvariant, PTL

\* No GwStream stays tied to a failed stream, whatever order the failure and
\* the delivery of the stream come in.
THEOREM FailedStreamsRemoved == Spec => []TiedStreamsUsable
<1>1. GatewayInv => TiedStreamsUsable
  BY DEF GatewayInv
<1>. QED  BY <1>1, GatewayInvariant, PTL

\* A server's data reaches only clients that sent to that server.
THEOREM AnswersOnlyToAskers == Spec => []AnswersReachAskers
<1>1. GatewayInv => AnswersReachAskers
  BY DEF GatewayInv
<1>. QED  BY <1>1, GatewayInvariant, PTL

----------------------------------------------------------------------------
(* Packets and their servers.                                              *)

\* Packets in both buffers are for the right server.
PacketInv ==
    /\ BufferedForServer
    /\ PacketsAtTheirServer

\* A buffer holds typed packets.
LEMMA BufferedPackets ==
    ASSUME GatewayInv
    PROVE  /\ \A g \in GwStreams : \A i \in DOMAIN gw_buffer[g] :
                 gw_buffer[g][i] \in Packet /\ gw_buffer[g][i].conv[3] \in ServeKinds
           /\ \A s \in ServerStreams : \A i \in DOMAIN out_buffer[s] :
                 out_buffer[s][i] \in Packet /\ out_buffer[s][i].conv[3] \in ServeKinds
<1>1. ASSUME NEW q \in Seq(Packet), NEW i \in DOMAIN q
      PROVE  q[i] \in Packet /\ q[i].conv[3] \in ServeKinds
  <2>1. q[i] \in Packet
    OBVIOUS
  <2>. QED  BY <2>1 DEF Packet, Conversations
<1>. QED  BY <1>1 DEF GatewayInv, TypeOK

\* A buffer whose stream or GwStream is gone is empty.
LEMMA BuffersOfTheGone ==
    ASSUME GatewayInv, PacketInv
    PROVE  /\ \A g \in GwStreams : asked[g] = NoServer => gw_buffer[g] = <<>>
           /\ \A s \in ServerStreams : serves[s] = NoServer => out_buffer[s] = <<>>
<1>1. ASSUME NEW q \in Seq(Packet), DOMAIN q = {} PROVE q = <<>>
  BY <1>1
<1>2. ASSUME NEW g \in GwStreams, asked[g] = NoServer PROVE DOMAIN gw_buffer[g] = {}
  BY <1>2, BufferedPackets, ManagerAssumption DEF PacketInv, BufferedForServer
<1>3. ASSUME NEW s \in ServerStreams, serves[s] = NoServer PROVE DOMAIN out_buffer[s] = {}
  BY <1>3, BufferedPackets, ManagerAssumption DEF PacketInv, PacketsAtTheirServer
<1>. QED  BY <1>1, <1>2, <1>3 DEF GatewayInv, TypeOK

\* An open stream is one to the packet's server, as no other has its identity.
LEMMA InputPacketInv ==
    ASSUME IdentityInjective, Inv, GatewayInv, PacketInv,
           NEW conv \in Conversations, Input(conv)
    PROVE  PacketInv'
<1>. DEFINE packet == [conv |-> conv, n |-> accepted[conv] + 1]
            key == Key(conv)
<1>1. /\ key \in Keys /\ conv[3] \in ServeKinds /\ key[3] = Identity[conv[3]]
      /\ packet.conv[3] = conv[3]
  BY ConversationKey
<1>2. out_buffer' = out_buffer
  BY DEF Input
<1>3. CASE WriteToOpenStream(conv, packet)
  <2>. DEFINE g == stream_store[key]
  <2>1. /\ g \in GwStreams
        /\ gw_buffer' = [gw_buffer EXCEPT ![g] = Append(@, packet)]
        /\ UNCHANGED <<asked, serves>>
    BY <1>1, <1>3 DEF WriteToOpenStream, GatewayInv, TypeOK, managerVars
  <2>2. asked[g] = conv[3]
    <3>1. asked[g] \in ServeKinds /\ Identity[asked[g]] = Identity[conv[3]]
      BY <1>1, <2>1, GatewayAssumption DEF GatewayInv, StoreOwnsStreams, Inv, ManagerTypeOK
    <3>. QED  BY <1>1, <3>1 DEF IdentityInjective
  <2>3. \A i \in DOMAIN Append(gw_buffer[g], packet) :
            Append(gw_buffer[g], packet)[i].conv[3] = asked[g]
    <3>. HIDE DEF packet
    <3>1. gw_buffer[g] \in Seq(Packet)
      BY <2>1 DEF GatewayInv, TypeOK
    <3>2. \A i \in DOMAIN Append(gw_buffer[g], packet) :
              \/ i \in DOMAIN gw_buffer[g]
                 /\ Append(gw_buffer[g], packet)[i] = gw_buffer[g][i]
              \/ Append(gw_buffer[g], packet)[i] = packet
      BY <3>1
    <3>. QED  BY <1>1, <2>1, <2>2, <3>2 DEF PacketInv, BufferedForServer
  <2>4. \A h \in GwStreams : h # g => gw_buffer'[h] = gw_buffer[h]
    BY <2>1 DEF GatewayInv, TypeOK
  <2>5. gw_buffer'[g] = Append(gw_buffer[g], packet)
    BY <2>1 DEF GatewayInv, TypeOK
  <2>6. BufferedForServer'
    BY <2>1, <2>3, <2>4, <2>5 DEF PacketInv, BufferedForServer
  <2>. QED  BY <1>2, <2>1, <2>6 DEF PacketInv, PacketsAtTheirServer
<1>4. CASE WriteToNewStream(conv, packet)
  <2>1. PICK g \in GwStreams :
            /\ GetStream(g, conv[3])
            /\ gw_buffer' = [gw_buffer EXCEPT ![g] = <<packet>>]
    BY <1>4 DEF WriteToNewStream
  <2>2. /\ asked' = [asked EXCEPT ![g] = conv[3]]
        /\ \A s \in ServerStreams : serves'[s] = serves[s] \/ serves[s] = NoServer
    BY <2>1 DEF GetStream, GetStreamById, GetStreamByEndpoints, MakeStream, Inv, ManagerTypeOK
  <2>3. BufferedForServer'
    BY <1>1, <2>1, <2>2 DEF PacketInv, BufferedForServer, GatewayInv, TypeOK, Inv, ManagerTypeOK
  <2>4. PacketsAtTheirServer'
    BY <1>2, <2>2, BuffersOfTheGone DEF PacketInv, PacketsAtTheirServer
  <2>. QED  BY <2>3, <2>4 DEF PacketInv
<1>. QED  BY <1>3, <1>4 DEF Input

\* A packet is passed to the stream its GwStream is tied to, which serves
\* the same server.
LEMMA ForwardPacketInv ==
    ASSUME Inv, GatewayInv, PacketInv, NEW g \in GwStreams, Forward(g)
    PROVE  PacketInv'
<1>. DEFINE s == server_stream[g]
<1>1. /\ s \in ServerStreams /\ serves[s] = asked[g]
      /\ gw_buffer[g] \in Seq(Packet) /\ gw_buffer[g] # <<>>
      /\ out_buffer[s] \in Seq(Packet)
      /\ UNCHANGED <<asked, serves>>
  BY DEF Forward, Inv, StreamInv, CallerStreamServesCaller, GatewayInv, TypeOK, managerVars
<1>2. /\ \A h \in GwStreams :
            gw_buffer'[h] = IF h = g THEN Tail(gw_buffer[g]) ELSE gw_buffer[h]
      /\ \A t \in ServerStreams :
            out_buffer'[t] = IF t = s THEN Append(out_buffer[s], Head(gw_buffer[g]))
                                      ELSE out_buffer[t]
  BY DEF Forward, GatewayInv, TypeOK
<1>3. /\ Head(gw_buffer[g]).conv[3] = asked[g]
      /\ \A i \in DOMAIN Tail(gw_buffer[g]) : Tail(gw_buffer[g])[i].conv[3] = asked[g]
  BY <1>1 DEF PacketInv, BufferedForServer
<1>4. \A i \in DOMAIN Append(out_buffer[s], Head(gw_buffer[g])) :
          Append(out_buffer[s], Head(gw_buffer[g]))[i].conv[3] = serves[s]
  <2>. DEFINE p == Head(gw_buffer[g])
  <2>1. p.conv[3] = serves[s]
    BY <1>1, <1>3
  <2>. HIDE DEF p, s
  <2>2. \A i \in DOMAIN Append(out_buffer[s], p) :
            \/ i \in DOMAIN out_buffer[s] /\ Append(out_buffer[s], p)[i] = out_buffer[s][i]
            \/ Append(out_buffer[s], p)[i] = p
    BY <1>1
  <2>3. \A i \in DOMAIN Append(out_buffer[s], p) : Append(out_buffer[s], p)[i].conv[3] = serves[s]
    BY <1>1, <2>1, <2>2 DEF PacketInv, PacketsAtTheirServer
  <2>. QED  BY <2>3 DEF p, s
<1>. HIDE DEF s
<1>5. BufferedForServer'
  <2>1. ASSUME NEW h \in GwStreams, NEW i \in DOMAIN gw_buffer'[h]
        PROVE  gw_buffer'[h][i].conv[3] = asked[h]
    <3>1. CASE h = g
      <4>1. gw_buffer'[h] = Tail(gw_buffer[g])
        BY <1>2, <3>1
      <4>. QED  BY <1>3, <2>1, <3>1, <4>1
    <3>2. CASE h # g
      <4>1. gw_buffer'[h] = gw_buffer[h]
        BY <1>2, <3>2
      <4>. QED  BY <2>1, <4>1 DEF PacketInv, BufferedForServer
    <3>. QED  BY <3>1, <3>2
  <2>. QED  BY <1>1, <2>1 DEF BufferedForServer
<1>6. PacketsAtTheirServer'
  <2>1. ASSUME NEW t \in ServerStreams, NEW i \in DOMAIN out_buffer'[t]
        PROVE  out_buffer'[t][i].conv[3] = serves[t]
    <3>1. CASE t = s
      <4>1. out_buffer'[t] = Append(out_buffer[s], Head(gw_buffer[g]))
        BY <1>2, <3>1
      <4>. QED  BY <1>4, <2>1, <3>1, <4>1
    <3>2. CASE t # s
      <4>1. out_buffer'[t] = out_buffer[t]
        BY <1>2, <3>2
      <4>. QED  BY <2>1, <4>1 DEF PacketInv, PacketsAtTheirServer
    <3>. QED  BY <3>1, <3>2
  <2>. QED  BY <1>1, <2>1 DEF PacketsAtTheirServer
<1>. QED  BY <1>5, <1>6 DEF PacketInv

\* The packets of erased GwStreams and of destroyed streams go with them.
LEMMA ErasePacketInv ==
    ASSUME Inv, GatewayInv, PacketInv, NEW gs \in SUBSET GwStreams, NEW links,
           \A h \in GwStreams :
               /\ gw_buffer'[h] = IF h \in gs THEN <<>> ELSE gw_buffer[h]
               /\ h \notin gs => asked'[h] = asked[h],
           DestroyUnheld(links), out_buffer' = OutBufferOfLive
    PROVE  PacketInv'
<1>1. \A s \in ServerStreams : serves'[s] \in {serves[s], NoServer}
  BY DEF DestroyUnheld
<1>2. \A s \in ServerStreams :
          out_buffer'[s] = IF serves'[s] = NoServer THEN <<>> ELSE out_buffer[s]
  BY DEF OutBufferOfLive
<1>3. BufferedForServer'
  BY DEF PacketInv, BufferedForServer
<1>4. PacketsAtTheirServer'
  BY <1>1, <1>2 DEF PacketInv, PacketsAtTheirServer
<1>. QED  BY <1>3, <1>4 DEF PacketInv

\* Every step preserves PacketInv.
LEMMA PacketNextInv ==
    ASSUME IdentityInjective, Inv, GatewayInv, PacketInv, [Next]_vars
    PROVE  PacketInv'
<1>1. CASE \E conv \in Conversations : Input(conv)
  BY <1>1, InputPacketInv
<1>2. ASSUME NEW g \in GwStreams, GetStreamStep(g) PROVE PacketInv'
  <2>1. UNCHANGED <<asked, streamVars>>
        /\ \A s \in ServerStreams : serves'[s] = serves[s] \/ serves[s] = NoServer
    BY <1>2 DEF GetStreamStep, CheckServerExists, RequestServer, GetServersResult,
                GetServersError, ReportError, MakeStream, Inv, ManagerTypeOK
  <2>. QED  BY <2>1, BuffersOfTheGone
               DEF streamVars, PacketInv, BufferedForServer, PacketsAtTheirServer
<1>3. ASSUME NEW g \in GwStreams, TieStream(g) PROVE PacketInv'
  BY <1>3 DEF TieStream, DeliverStream, streamVars, PacketInv, BufferedForServer,
              PacketsAtTheirServer
<1>4. ASSUME NEW g \in GwStreams, TieFailedStream(g) PROVE PacketInv'
  <2>1. \A h \in GwStreams :
            /\ gw_buffer'[h] = IF h \in {g} THEN <<>> ELSE gw_buffer[h]
            /\ h \notin {g} => asked'[h] = asked[h]
    BY <1>4 DEF TieFailedStream, DeliverToDestroyed, GatewayInv, TypeOK, Inv, ManagerTypeOK
  <2>2. DestroyUnheld(link_state) /\ out_buffer' = OutBufferOfLive
    BY <1>4 DEF TieFailedStream, DeliverToDestroyed
  <2>. QED  BY <2>1, <2>2, ErasePacketInv
<1>5. CASE \E g \in GwStreams : Forward(g)
  BY <1>5, ForwardPacketInv
<1>6. ASSUME NEW s \in ServerStreams, Send(s) PROVE PacketInv'
  <2>1. /\ out_buffer[s] \in Seq(Packet) /\ out_buffer[s] # <<>>
        /\ \A t \in ServerStreams :
              out_buffer'[t] = IF t = s THEN Tail(out_buffer[s]) ELSE out_buffer[t]
        /\ UNCHANGED <<asked, serves, gw_buffer>>
    BY <1>6 DEF Send, GatewayInv, TypeOK, managerVars
  <2>2. \A i \in DOMAIN Tail(out_buffer[s]) : Tail(out_buffer[s])[i].conv[3] = serves[s]
    BY <2>1 DEF PacketInv, PacketsAtTheirServer
  <2>. QED  BY <2>1, <2>2 DEF PacketInv, BufferedForServer, PacketsAtTheirServer
<1>7. ASSUME NEW s \in ServerStreams, StreamState(s) PROVE PacketInv'
  <2>. DEFINE gs == {g \in GwStreams : server_stream[g] = s}
  <2>1. \A h \in GwStreams :
            /\ gw_buffer'[h] = IF h \in gs THEN <<>> ELSE gw_buffer[h]
            /\ h \notin gs => asked'[h] = asked[h]
    BY <1>7 DEF StreamState, LinkError
  <2>2. /\ DestroyUnheld([link_state EXCEPT ![s] = "kLinkError"])
        /\ out_buffer' = OutBufferOfLive
    BY <1>7 DEF StreamState, LinkError
  <2>. QED  BY <2>1, <2>2, ErasePacketInv
<1>8. CASE \/ \E s \in ServerStreams : OutData(s) \/ LinkChange(s)
           \/ \E id \in ServerIds : OtherServerAdded(id)
           \/ UNCHANGED vars
  <2>1. UNCHANGED <<asked, serves, gw_buffer, out_buffer>>
    BY <1>8 DEF OutData, LinkChange, LinkUp, LinkDown, OtherServerAdded, AetherAddServer,
                streamVars, vars, managerVars
  <2>. QED  BY <2>1 DEF PacketInv, BufferedForServer, PacketsAtTheirServer
<1>9. CASE Restart
  BY <1>9 DEF Restart, PacketInv, BufferedForServer, PacketsAtTheirServer
<1>. QED  BY <1>1, <1>2, <1>3, <1>4, <1>5, <1>6, <1>7, <1>8, <1>9 DEF Next

\* A packet is buffered for, and sent to, the server it names, if no two
\* servers have one 32-bit identity.
THEOREM PacketsReachTheirServer ==
    ASSUME IdentityInjective PROVE Spec => []PacketsAtTheirServer
<1>1. Init => PacketInv
  BY DEF Init, PacketInv, BufferedForServer, PacketsAtTheirServer
<1>2. Inv /\ GatewayInv /\ PacketInv /\ [Next]_vars => PacketInv'
  BY PacketNextInv, IdentityInjective
<1>3. PacketInv => PacketsAtTheirServer
  BY DEF PacketInv
<1>. QED  BY <1>1, <1>2, <1>3, GatewayInvariant, PTL DEF Spec

----------------------------------------------------------------------------
(* A server that could not be resolved.                                    *)

\* g stays what it is, under its Key, and its buffer only grows.
StaysUnresolved(g) ==
    /\ Unresolved(g)'
    /\ \A k \in Keys : stream_store[k] = g => stream_store'[k] = g
    /\ \/ gw_buffer'[g] = gw_buffer[g]
       \/ \E packet \in Packet : gw_buffer'[g] = Append(gw_buffer[g], packet)

\* Only packets for its Key concern an unresolved GwStream.
LEMMA InputUnresolved ==
    ASSUME Inv, GatewayInv, NEW g \in GwStreams, Unresolved(g),
           NEW conv \in Conversations, Input(conv)
    PROVE  StaysUnresolved(g)
<1>. DEFINE packet == [conv |-> conv, n |-> accepted[conv] + 1]
            key == Key(conv)
<1>. USE DEF Unresolved
<1>1. packet \in Packet /\ key \in Keys
  BY ConversationKey, GatewayAssumption DEF Input, Packet, GatewayInv, TypeOK
<1>2. /\ stream_store \in [Keys -> GwStreams \cup {NoGwStream}]
      /\ gw_buffer \in [GwStreams -> Seq(Packet)]
      /\ asked \in [GwStreams -> ServeKinds \cup {NoServer}]
      /\ get_state \in [GwStreams -> GetStates]
  BY DEF GatewayInv, TypeOK, Inv, ManagerTypeOK
<1>3. CASE WriteToOpenStream(conv, packet)
  <2>1. /\ stream_store[key] \in GwStreams
        /\ gw_buffer' = [gw_buffer EXCEPT ![stream_store[key]] = Append(@, packet)]
        /\ UNCHANGED <<managerVars, stream_store>>
    BY <1>1, <1>2, <1>3 DEF WriteToOpenStream
  <2>2. \/ gw_buffer'[g] = gw_buffer[g]
        \/ gw_buffer'[g] = Append(gw_buffer[g], packet)
    BY <1>2, <2>1
  <2>3. Unresolved(g)'
    BY <2>1 DEF managerVars
  <2>. QED  BY <1>1, <2>1, <2>2, <2>3 DEF StaysUnresolved
<1>4. CASE WriteToNewStream(conv, packet)
  <2>1. PICK f \in GwStreams :
            /\ GetStream(f, conv[3])
            /\ stream_store' = [stream_store EXCEPT ![key] = f]
            /\ gw_buffer' = [gw_buffer EXCEPT ![f] = <<packet>>]
    BY <1>4 DEF WriteToNewStream
  <2>2. /\ asked[f] = NoServer
        /\ \A h \in GwStreams \ {f} : asked'[h] = asked[h] /\ get_state'[h] = get_state[h]
        /\ server_stream' = server_stream
    BY <1>2, <2>1 DEF GetStream, GetStreamById, GetStreamByEndpoints
  <2>3. f # g
    BY <2>2
  <2>4. Unresolved(g)'
    BY <2>2, <2>3
  <2>5. gw_buffer'[g] = gw_buffer[g]
    BY <1>2, <2>1, <2>3
  <2>6. stream_store[key] = NoGwStream
    BY <1>4 DEF WriteToNewStream
  <2>7. \A k \in Keys : stream_store[k] = g => stream_store'[k] = g
    BY <1>2, <2>1, <2>6, GatewayAssumption
  <2>. QED  BY <2>4, <2>5, <2>7 DEF StaysUnresolved
<1>. QED  BY <1>3, <1>4 DEF Input

\* What happens to other streams leaves an unresolved one alone.
LEMMA NextUnresolved ==
    ASSUME Inv, GatewayInv, NEW g \in GwStreams, Unresolved(g), [Next]_vars
    PROVE  Restart \/ StaysUnresolved(g)
<1>1. /\ asked[g] # NoServer /\ get_state[g] = "none" /\ server_stream[g] = NoStream
      /\ asked \in [GwStreams -> ServeKinds \cup {NoServer}]
      /\ get_state \in [GwStreams -> GetStates]
      /\ server_stream \in [GwStreams -> ServerStreams \cup {NoStream}]
      /\ stream_store \in [Keys -> GwStreams \cup {NoGwStream}]
      /\ gw_buffer \in [GwStreams -> Seq(Packet)]
  BY DEF Unresolved, GatewayInv, TypeOK, Inv, ManagerTypeOK
<1>2. ASSUME asked'[g] = asked[g], get_state'[g] = get_state[g],
             server_stream'[g] = server_stream[g], gw_buffer'[g] = gw_buffer[g],
             \A k \in Keys : stream_store[k] = g => stream_store'[k] = g
      PROVE  StaysUnresolved(g)
  BY <1>1, <1>2 DEF StaysUnresolved, Unresolved
<1>3. CASE \E conv \in Conversations : Input(conv)
  BY <1>3, InputUnresolved
<1>4. ASSUME NEW f \in GwStreams, GetStreamStep(f)  PROVE StaysUnresolved(g)
  <2>1. f # g /\ UNCHANGED <<asked, server_stream, stream_store, gw_buffer>>
    BY <1>1, <1>4
       DEF GetStreamStep, CheckServerExists, RequestServer, GetServersResult,
           GetServersError, ReportError, streamVars
  <2>2. get_state'[g] = get_state[g]
    BY <1>1, <1>4, <2>1
       DEF GetStreamStep, CheckServerExists, RequestServer, GetServersResult,
           GetServersError, ReportError
  <2>. QED  BY <1>2, <2>1, <2>2
<1>5. ASSUME NEW f \in GwStreams, TieStream(f)  PROVE StaysUnresolved(g)
  <2>1. f # g
    BY <1>1, <1>5 DEF TieStream, DeliverStream
  <2>. QED  BY <1>1, <1>2, <1>5, <2>1 DEF TieStream, DeliverStream, streamVars
<1>6. ASSUME NEW f \in GwStreams, TieFailedStream(f)  PROVE StaysUnresolved(g)
  <2>1. f # g
    BY <1>1, <1>6 DEF TieFailedStream, DeliverToDestroyed
  <2>2. /\ asked'[g] = asked[g] /\ get_state'[g] = get_state[g]
        /\ server_stream' = server_stream /\ gw_buffer'[g] = gw_buffer[g]
    BY <1>1, <1>6, <2>1 DEF TieFailedStream, DeliverToDestroyed
  <2>3. \A k \in Keys : stream_store[k] = g => stream_store'[k] = g
    BY <1>6, <2>1 DEF TieFailedStream, StoreWithout
  <2>. QED  BY <1>2, <2>2, <2>3
<1>7. ASSUME NEW f \in GwStreams, Forward(f)  PROVE StaysUnresolved(g)
  <2>1. f # g
    BY <1>1, <1>7 DEF Forward
  <2>. QED  BY <1>1, <1>2, <1>7, <2>1 DEF Forward, managerVars
<1>8. ASSUME NEW s \in ServerStreams, StreamState(s)  PROVE StaysUnresolved(g)
  <2>. DEFINE gs == {f \in GwStreams : server_stream[f] = s}
  <2>1. g \notin gs
    BY <1>1, ManagerAssumption DEF ManagerAssumption
  <2>2. /\ asked'[g] = asked[g] /\ get_state' = get_state
        /\ server_stream'[g] = server_stream[g] /\ gw_buffer'[g] = gw_buffer[g]
    BY <1>8, <2>1 DEF StreamState, LinkError
  <2>3. \A k \in Keys : stream_store[k] = g => stream_store'[k] = g
    BY <1>8, <2>1 DEF StreamState, StoreWithout
  <2>. QED  BY <1>2, <2>2, <2>3
<1>9. CASE \/ \E s \in ServerStreams : Send(s) \/ OutData(s) \/ LinkChange(s)
           \/ \E id \in ServerIds : OtherServerAdded(id)
           \/ UNCHANGED vars
  <2>1. UNCHANGED <<asked, get_state, server_stream, gw_buffer, stream_store>>
    BY <1>9 DEF Send, OutData, LinkChange, OtherServerAdded, LinkUp, LinkDown,
                AetherAddServer, vars, managerVars, streamVars
  <2>. QED  BY <1>2, <2>1
<1>. QED  BY <1>3, <1>4, <1>5, <1>6, <1>7, <1>8, <1>9 DEF Next

\* A GwStream whose server could not be resolved keeps its Key and every packet
\* it has been given, and is given all that follow, until a restart: nothing
\* in the gateway ends or resolves it, not even the server becoming known.
THEOREM UnresolvedStays ==
    Spec => [][\A g \in GwStreams : Unresolved(g) => Restart \/ StaysUnresolved(g)]_vars
<1>1. Inv /\ GatewayInv /\ [Next]_vars =>
          [\A g \in GwStreams : Unresolved(g) => Restart \/ StaysUnresolved(g)]_vars
  BY NextUnresolved
<1>. QED  BY <1>1, GatewayInvariant, PTL DEF Spec

============================================================================
