------------------------------ MODULE Gateway ------------------------------
(***************************************************************************)
(* The gateway: LocalPort (libs/gateway/local_port) and its GwStreams      *)
(* (libs/gateway/gw_stream) over the ServerStreamManager.                  *)
(*                                                                         *)
(* A device's packet names a client of the device and a server.  LocalPort *)
(* keeps one GwStream per Key, makes it at the first packet, and writes    *)
(* the packet to it; the GwStream buffers until the manager has delivered  *)
(* its ServerStream.  Data that arrives from a server is emitted to the    *)
(* device and client of every GwStream on the server's ServerStream.  A    *)
(* GwStream whose link state turns to kLinkError leaves the store.         *)
(*                                                                         *)
(* Everything runs in one event loop: an action is one handler with all    *)
(* the callbacks it makes.                                                 *)
(***************************************************************************)
EXTENDS ServerStreamManager, Sequences

CONSTANTS
    Devices, Clients,
    Identity,   \* Key::server_identity, the 32 bits a server is known by
    MaxPackets, \* bound: packets a device's client sends to one server
    NoGwStream

Identities == {Identity[k] : k \in ServeKinds}
Keys == Devices \X Clients \X Identities
Conversations == Devices \X Clients \X ServeKinds

ASSUME GatewayAssumption ==
    /\ Identity \in [ServeKinds -> Identities]
    /\ NoGwStream \notin GwStreams
    /\ MaxPackets \in Nat \ {0}

\* No two servers are known by the same 32 bits.
IdentityInjective ==
    \A j, k \in ServeKinds : Identity[j] = Identity[k] => j = k

VARIABLES
    stream_store, \* LocalPort::stream_store_, the GwStream of a Key
    gw_buffer,    \* GwStream::buffer_stream_, packets not passed on yet
    out_buffer,   \* ServerStream::buffer_stream_, packets not sent yet
    accepted,     \* history: packets taken in per conversation
    sent,         \* history: number of the last packet sent per conversation
    output        \* what LocalPort's output event emitted in the last step

streamVars == <<stream_store, gw_buffer, out_buffer, accepted, sent>>
vars == <<managerVars, streamVars, output>>

\* The i-th packet of a conversation.
Packet == [conv : Conversations, n : 1..MaxPackets]

\* Mutant: one stream for all servers of a client.
KeyOfClient(conv) ==
    <<conv[1], conv[2], Identity[CHOOSE k \in ServeKinds : TRUE]>>

\* LocalPort::Key
Key(conv) == <<conv[1], conv[2], Identity[conv[3]]>>

NoOutput == [from |-> NoServer, to |-> {}]
Quiet == output' = NoOutput

TypeOK ==
    /\ ManagerTypeOK
    /\ stream_store \in [Keys -> GwStreams \cup {NoGwStream}]
    /\ gw_buffer \in [GwStreams -> Seq(Packet)]
    /\ out_buffer \in [ServerStreams -> Seq(Packet)]
    /\ accepted \in [Conversations -> 0..MaxPackets]
    /\ sent \in [Conversations -> 0..MaxPackets]
    /\ output \in [from : ServeKinds \cup {NoServer},
                   to : SUBSET (Devices \X Clients)]

Init ==
    /\ ManagerInit
    /\ stream_store = [k \in Keys |-> NoGwStream]
    /\ gw_buffer = [g \in GwStreams |-> <<>>]
    /\ out_buffer = [s \in ServerStreams |-> <<>>]
    /\ accepted = [conv \in Conversations |-> 0]
    /\ sent = [conv \in Conversations |-> 0]
    /\ output = NoOutput

----------------------------------------------------------------------------
(* Packets from the devices.                                               *)

\* Mutant: an erased GwStream is left in the store.
StoreKept(gs) == stream_store

\* The store without the GwStreams of gs.
StoreWithout(gs) ==
    [k \in Keys |-> IF stream_store[k] \in gs THEN NoGwStream ELSE stream_store[k]]

\* Mutant: the packet goes to the front of the buffer.
WriteToFront(conv, packet) ==
    LET g == stream_store[Key(conv)] IN
    /\ g # NoGwStream
    /\ gw_buffer' = [gw_buffer EXCEPT ![g] = <<packet>> \o @]
    /\ UNCHANGED <<managerVars, stream_store>>

\* OpenStream finds the Key: the packet goes to the stream that is there.
WriteToOpenStream(conv, packet) ==
    LET g == stream_store[Key(conv)] IN
    /\ g # NoGwStream
    /\ gw_buffer' = [gw_buffer EXCEPT ![g] = Append(@, packet)]
    /\ UNCHANGED <<managerVars, stream_store>>

\* OpenStream makes a GwStream, whose constructor asks for the server's
\* stream; the packet waits in its buffer.
WriteToNewStream(conv, packet) ==
    /\ stream_store[Key(conv)] = NoGwStream
    /\ \E g \in GwStreams :
           /\ GetStream(g, conv[3])
           /\ stream_store' = [stream_store EXCEPT ![Key(conv)] = g]
           /\ gw_buffer' = [gw_buffer EXCEPT ![g] = <<packet>>]

\* Input parses ToServerId or ToServer, opens the stream and writes to it.
Input(conv) ==
    LET packet == [conv |-> conv, n |-> accepted[conv] + 1] IN
    /\ accepted[conv] < MaxPackets
    /\ accepted' = [accepted EXCEPT ![conv] = @ + 1]
    /\ WriteToOpenStream(conv, packet) \/ WriteToNewStream(conv, packet)
    /\ Quiet
    /\ UNCHANGED <<out_buffer, sent>>

----------------------------------------------------------------------------
(* The loop's updates of the get actions.                                  *)

\* Steps of a get action the GwStream does not see; it has no OnError handler.
GetStreamStep(g) ==
    /\ \/ CheckServerExists(g)
       \/ RequestServer(g)
       \/ GetServersResult(g)
       \/ GetServersError(g)
       \/ ReportError(g)
    /\ Quiet
    /\ UNCHANGED streamVars

\* Mutant: the state of a stream that has failed is not reported.
TieUnchecked(g) ==
    /\ DeliverStream(g)
    /\ Quiet
    /\ UNCHANGED streamVars

\* OnResult: the GwStream takes the stream and ties its buffer to it.
TieStream(g) ==
    /\ DeliverStream(g)
    /\ link_state[get_stream[g]] # "kLinkError"
    /\ Quiet
    /\ UNCHANGED streamVars

\* The buffers of the ServerStreams that are left after this step.
OutBufferOfLive ==
    [s \in ServerStreams |-> IF serves'[s] = NoServer THEN <<>> ELSE out_buffer[s]]

\* OnResult with a stream that has failed meanwhile: tying reports its state
\* at once and StreamState erases the GwStream with the packets it buffers.
TieFailedStream(g) ==
    /\ DeliverToDestroyed(g)
    /\ link_state[get_stream[g]] = "kLinkError"
    /\ stream_store' = StoreWithout({g})
    /\ gw_buffer' = [gw_buffer EXCEPT ![g] = <<>>]
    /\ out_buffer' = OutBufferOfLive
    /\ Quiet
    /\ UNCHANGED <<accepted, sent>>

----------------------------------------------------------------------------
(* The streams at work.                                                    *)

\* Mutant: a ServerStream that is not linked drops what it is given.
ForwardUnbuffered(g) ==
    LET s == server_stream[g] IN
    /\ s # NoStream
    /\ gw_buffer[g] # <<>>
    /\ gw_buffer' = [gw_buffer EXCEPT ![g] = Tail(@)]
    /\ out_buffer' =
           IF link_state[s] = "kLinked"
           THEN [out_buffer EXCEPT ![s] = Append(@, Head(gw_buffer[g]))]
           ELSE out_buffer
    /\ Quiet
    /\ UNCHANGED <<managerVars, stream_store, accepted, sent>>

\* A tied GwStream passes its oldest packet to the ServerStream.
Forward(g) ==
    LET s == server_stream[g] IN
    /\ s # NoStream
    /\ gw_buffer[g] # <<>>
    /\ gw_buffer' = [gw_buffer EXCEPT ![g] = Tail(@)]
    /\ out_buffer' = [out_buffer EXCEPT ![s] = Append(@, Head(gw_buffer[g]))]
    /\ Quiet
    /\ UNCHANGED <<managerVars, stream_store, accepted, sent>>

\* A linked ServerStream sends its oldest packet to its server.
Send(s) ==
    /\ link_state[s] = "kLinked"
    /\ out_buffer[s] # <<>>
    /\ out_buffer' = [out_buffer EXCEPT ![s] = Tail(@)]
    /\ sent' = [sent EXCEPT ![Head(out_buffer[s]).conv] = Head(out_buffer[s]).n]
    /\ Quiet
    /\ UNCHANGED <<managerVars, stream_store, gw_buffer, accepted>>

\* Mutant: the output event of every GwStream fires.
StoredKeys(s) == {k \in Keys : stream_store[k] # NoGwStream}

\* The Keys whose GwStream is tied to s.
TiedKeys(s) ==
    {k \in Keys : stream_store[k] # NoGwStream /\ server_stream[stream_store[k]] = s}

\* Data from the server: OutData emits it for the Key of every tied GwStream.
OutData(s) ==
    /\ link_state[s] = "kLinked"
    /\ output' = [from |-> serves[s], to |-> {<<k[1], k[2]>> : k \in TiedKeys(s)}]
    /\ UNCHANGED <<managerVars, streamVars>>

\* The stream reports kLinkError: StreamState erases every tied GwStream.
StreamState(s) ==
    LET gs == {g \in GwStreams : server_stream[g] = s} IN
    /\ LinkError(s, gs)
    /\ stream_store' = StoreWithout(gs)
    /\ gw_buffer' = [g \in GwStreams |-> IF g \in gs THEN <<>> ELSE gw_buffer[g]]
    /\ out_buffer' = OutBufferOfLive
    /\ Quiet
    /\ UNCHANGED <<accepted, sent>>

LinkChange(s) ==
    /\ LinkUp(s) \/ LinkDown(s)
    /\ Quiet
    /\ UNCHANGED streamVars

\* The link of s, which is not up, comes up or fails.
LinkSetUp(s) ==
    /\ link_state[s] = "kUnlinked"
    /\ LinkChange(s) \/ StreamState(s)

OtherServerAdded(id) ==
    /\ AetherAddServer(id)
    /\ Quiet
    /\ UNCHANGED streamVars

\* The gateway's process ends and starts again: every stream and every packet
\* that waits is gone.  The devices go on with their conversations.
Restart ==
    /\ ManagerRestart
    /\ stream_store' = [k \in Keys |-> NoGwStream]
    /\ gw_buffer' = [g \in GwStreams |-> <<>>]
    /\ out_buffer' = [s \in ServerStreams |-> <<>>]
    /\ Quiet
    /\ UNCHANGED <<accepted, sent>>

----------------------------------------------------------------------------

Next ==
    \/ \E conv \in Conversations : Input(conv)
    \/ \E g \in GwStreams :
           GetStreamStep(g) \/ TieStream(g) \/ TieFailedStream(g) \/ Forward(g)
    \/ \E s \in ServerStreams :
           Send(s) \/ OutData(s) \/ StreamState(s) \/ LinkChange(s)
    \/ \E id \in ServerIds : OtherServerAdded(id)
    \/ Restart

Spec == Init /\ [][Next]_vars

\* The loop updates the get actions and flushes the buffers; a buffer is
\* flushed whenever its link comes up, so a stream that is linked again and
\* again sends.  Resolving and setting up a link end, well or not: they have
\* timeouts of their own in the client library.  A link that is up need never
\* go down.
Fairness ==
    /\ \A g \in GwStreams :
           /\ WF_vars(GetStreamStep(g))
           /\ WF_vars(TieStream(g) \/ TieFailedStream(g))
           /\ WF_vars(Forward(g))
    /\ \A s \in ServerStreams :
           /\ SF_vars(Send(s))
           /\ WF_vars(LinkSetUp(s))

FairSpec == Spec /\ Fairness

----------------------------------------------------------------------------
(* Correctness.                                                            *)

\* stream_store_ owns every GwStream: one that exists is found under one Key,
\* the Key of the server it was made for, and no erased one is left in it.
StoreOwnsStreams ==
    /\ \A k \in Keys :
           stream_store[k] # NoGwStream =>
               /\ asked[stream_store[k]] # NoServer
               /\ Identity[asked[stream_store[k]]] = k[3]
    /\ \A g \in GwStreams :
           asked[g] # NoServer => \E k \in Keys : stream_store[k] = g
    /\ \A j, k \in Keys :
           stream_store[j] = stream_store[k] /\ stream_store[j] # NoGwStream
               => j = k

\* "Write data to the stream": the ServerStream that buffers a packet is one
\* to the server the packet names.
PacketsAtTheirServer ==
    \A s \in ServerStreams : \A i \in DOMAIN out_buffer[s] :
        out_buffer[s][i].conv[3] = serves[s]

\* "if link in error state, remove the stream": no GwStream stays tied to a
\* ServerStream in link error, also not one that got it from the cache while
\* it failed.
TiedStreamsUsable ==
    \A g \in GwStreams :
        server_stream[g] # NoStream => link_state[server_stream[g]] # "kLinkError"

\* Data from a server is emitted only to clients that sent to this server.
\* (It is emitted to all of them that are tied to the stream it came from.)
AnswersReachAskers ==
    \A dc \in output.to : accepted[<<dc[1], dc[2], output.from>>] > 0

\* The packet is in the buffer.
Holds(buffer, packet) == \E i \in DOMAIN buffer : buffer[i] = packet

\* The packet waits in a GwStream, or in a ServerStream that can still send.
Buffered(packet) ==
    \/ \E g \in GwStreams : Holds(gw_buffer[g], packet)
    \/ \E s \in ServerStreams :
           link_state[s] # "kLinkError" /\ Holds(out_buffer[s], packet)

\* The ServerStream of g fails now, or is handed over after it has failed.
StreamFails(g) ==
    \E s \in ServerStreams :
        \/ server_stream[g] = s /\ StreamState(s)
        \/ get_stream[g] = s /\ TieFailedStream(g)

\* A packet leaves the buffers unsent only when the stream that its own
\* conversation has open fails, or in a restart: never by what happens to the
\* streams of others, by being overtaken or by a reopening under its Key.
LossNeedsFailure ==
    [][\A packet \in Packet :
           Buffered(packet) /\ ~Buffered(packet)' /\ sent'[packet.conv] # packet.n =>
               \/ Restart
               \/ \E g \in GwStreams :
                      stream_store[Key(packet.conv)] = g /\ StreamFails(g)]_vars

\* A GwStream whose get action ended in an error: nothing will ever tie it.
Unresolved(g) ==
    /\ asked[g] # NoServer
    /\ get_state[g] = "none"
    /\ server_stream[g] = NoStream

\* A packet is sent or lost with its stream, unless it waits in a GwStream
\* whose server could not be resolved.
PacketSettles ==
    \A packet \in Packet :
        Buffered(packet) ~>
            \/ ~Buffered(packet)
            \/ \E g \in GwStreams : Unresolved(g) /\ Holds(gw_buffer[g], packet)

\* A GwStream that cannot get its server's stream is removed in the end, as
\* local_port.cpp removes one "if link in error state".
UnresolvedRemoved ==
    \A g \in GwStreams : Unresolved(g) ~> ~Unresolved(g)

\* The numbers of the packets of the conversation that wait.
Waiting(conv) ==
    {n \in 1..accepted[conv] : Buffered([conv |-> conv, n |-> n])}

\* The least number of those that wait, or the one to come after last.
Oldest(waiting, last) ==
    IF waiting = {} THEN last + 1
    ELSE CHOOSE n \in waiting : \A m \in waiting : n <= m

\* The gateway keeps the promise of PacketRelay: per conversation packets go
\* out in order and once, and only a failed stream of their server or a
\* restart of the gateway loses any.
Relay == INSTANCE PacketRelay
             WITH next <- [conv \in Conversations |->
                              Oldest(Waiting(conv), accepted[conv])]

RelaySpec == Relay!Spec

============================================================================
