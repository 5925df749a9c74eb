-------------------- MODULE ServerStreamManagerProofs --------------------
(***************************************************************************)
(* The safety of ServerStreamManager, for any ids, callers and streams.    *)
(*                                                                         *)
(* Inv is the inductive invariant: the properties of the module and what   *)
(* ActionInv and CacheInv say of the get actions and of the cache.         *)
(* From it every step is one of StreamService, or leaves it alone.         *)
(***************************************************************************)
EXTENDS ServerStreamManager, TLAPS

RequestStates == {"kCheckServerExists", "kRequestServer", "kGetServers"}
ResultStates == {"kExisting", "kResult"}

\* Only an action about to report Result holds a stream, only a caller whose
\* action is over holds one itself, and only ids are requested.
ActionInv ==
    \A g \in GwStreams :
        /\ get_stream[g] # NoStream => get_state[g] \in ResultStates
        /\ get_state[g] # "none" => asked[g] # NoServer /\ server_stream[g] = NoStream
        /\ asked[g] = NoServer => server_stream[g] = NoStream
        /\ get_state[g] \in RequestStates => asked[g] \in ServerIds

\* While no requests for an id overlapped, its live stream is the cached one,
\* and a request is the only one and finds no entry, so that its stream is
\* the one that gets cached.
CacheInv ==
    \A id \in ServerIds \ raced :
        /\ \A s \in ServerStreams : serves[s] = id => stream_cache[id] = s
        /\ \A g \in GwStreams : Requesting(g, id) => stream_cache[id] = NoStream
        /\ \A g, h \in GwStreams : Requesting(g, id) /\ Requesting(h, id) => g = h

\* What a stream pointer may point to, wherever it is kept.
StreamInv ==
    /\ ResultServesRequest
    /\ CallerStreamServesCaller
    /\ CacheEntryServesItsId

\* The inductive invariant.
Inv ==
    /\ ManagerTypeOK
    /\ ServerBuiltOncePerId
    /\ ActionInv
    /\ StreamInv
    /\ CacheInv

----------------------------------------------------------------------------
(* Each action of ManagerNext preserves Inv.                               *)

\* A request or a cache hit.  A hit locks an entry that is not expired.
LEMMA GetStreamByIdInv ==
    ASSUME Inv, NEW g \in GwStreams, NEW id \in ServerIds, NEW cache \in BOOLEAN,
           GetStreamById(g, id, cache)
    PROVE  Inv'
<1>. USE ManagerAssumption DEF GetStreamById, OpenCache, Lock
<1>1. ManagerTypeOK'
  BY DEF Inv, ManagerTypeOK, GetStates, ServeKinds
<1>2. ServerBuiltOncePerId'
  BY DEF Inv, ServerBuiltOncePerId
<1>3. ActionInv'
  BY DEF Inv, ManagerTypeOK, ActionInv, RequestStates, ResultStates, ServeKinds
<1>4. StreamInv'
  <2>1. ResultServesRequest'
    BY DEF Inv, ManagerTypeOK, ActionInv, StreamInv, ResultServesRequest, CacheEntryServesItsId
  <2>2. CallerStreamServesCaller'
    BY DEF Inv, ManagerTypeOK, ActionInv, StreamInv, CallerStreamServesCaller
  <2>3. CacheEntryServesItsId'
    BY DEF Inv, ManagerTypeOK, StreamInv, CacheEntryServesItsId
  <2>. QED  BY <2>1, <2>2, <2>3 DEF StreamInv
<1>5. CacheInv'
  <2>. SUFFICES ASSUME NEW i \in ServerIds \ raced'
                PROVE  /\ \A s \in ServerStreams : serves'[s] = i => stream_cache'[i] = s
                       /\ \A h \in GwStreams : Requesting(h, i)' => stream_cache'[i] = NoStream
                       /\ \A f, h \in GwStreams : Requesting(f, i)' /\ Requesting(h, i)' => f = h
    BY DEF CacheInv
  <2>1. i \in ServerIds \ raced
    OBVIOUS
  <2>2. \A s \in ServerStreams : serves'[s] = i => stream_cache'[i] = s
    BY <2>1 DEF Inv, ManagerTypeOK, CacheInv
  <2>3. \A h \in GwStreams : Requesting(h, i)' => Requesting(h, i) \/ (h = g /\ i = id)
    BY DEF Inv, ManagerTypeOK, Requesting
  <2>4. Requesting(g, id)' /\ id \notin raced' =>
            /\ \A h \in GwStreams : ~Requesting(h, id)
            /\ stream_cache'[id] = NoStream
    BY DEF Inv, ManagerTypeOK, Requesting
  <2>. QED  BY <2>1, <2>2, <2>3, <2>4 DEF Inv, ManagerTypeOK, CacheInv
<1>. QED  BY <1>1, <1>2, <1>3, <1>4, <1>5 DEF Inv

\* A new server and its stream, with an object identity nobody holds.
LEMMA GetStreamByEndpointsInv ==
    ASSUME Inv, NEW g \in GwStreams, NEW ep \in ServerEndpoints,
           NEW s \in ServerStreams, GetStreamByEndpoints(g, ep, s)
    PROVE  Inv'
<1>. USE ManagerAssumption DEF GetStreamByEndpoints, BuildServer, MakeStream
<1>1. ManagerTypeOK'
  BY DEF Inv, ManagerTypeOK, GetStates, ServeKinds
<1>2. ServerBuiltOncePerId'
  BY DEF Inv, ManagerTypeOK, ServerBuiltOncePerId, ServeKinds
<1>3. ActionInv'
  BY DEF Inv, ManagerTypeOK, ActionInv, RequestStates, ResultStates, ServeKinds
<1>4. StreamInv'
  <2>1. ResultServesRequest'
    BY DEF Inv, ManagerTypeOK, ActionInv, StreamInv, ResultServesRequest, ServeKinds,
           ResultStates
  <2>2. CallerStreamServesCaller'
    BY DEF Inv, ManagerTypeOK, ActionInv, StreamInv, CallerStreamServesCaller, ServeKinds
  <2>3. CacheEntryServesItsId'
    BY DEF Inv, ManagerTypeOK, StreamInv, CacheEntryServesItsId, ServeKinds
  <2>. QED  BY <2>1, <2>2, <2>3 DEF StreamInv
<1>5. CacheInv'
  BY DEF Inv, ManagerTypeOK, CacheInv, Requesting, ServeKinds
<1>. QED  BY <1>1, <1>2, <1>3, <1>4, <1>5 DEF Inv

\* A request for id ends with the stream s, made now and cached.
LEMMA NewStreamInv ==
    ASSUME Inv, NEW g \in GwStreams, NEW s \in ServerStreams,
           Requesting(g, asked[g]),
           MakeStream(s, asked[g]), CacheStream(asked[g], s),
           get_stream' = [get_stream EXCEPT ![g] = s],
           get_state' = [get_state EXCEPT ![g] = "kResult"],
           UNCHANGED <<asked, server_stream, raced>>
    PROVE  ActionInv' /\ StreamInv' /\ CacheInv'
<1>. DEFINE id == asked[g]
<1>. USE ManagerAssumption DEF MakeStream, CacheStream
<1>1. /\ id \in ServerIds
      /\ server_stream[g] = NoStream
      /\ \A h \in GwStreams : get_stream[h] # s /\ server_stream[h] # s
  BY DEF Inv, ManagerTypeOK, ActionInv, StreamInv, ResultServesRequest,
         CallerStreamServesCaller, Requesting, RequestStates, ResultStates, ServeKinds
<1>2. ActionInv'
  BY <1>1 DEF Inv, ManagerTypeOK, ActionInv, RequestStates, ResultStates, ServeKinds
<1>3. StreamInv'
  <2>1. ResultServesRequest'
    BY <1>1 DEF Inv, ManagerTypeOK, ActionInv, StreamInv, ResultServesRequest, ServeKinds,
                ResultStates
  <2>2. CallerStreamServesCaller'
    BY <1>1 DEF Inv, ManagerTypeOK, ActionInv, StreamInv, CallerStreamServesCaller
  <2>3. CacheEntryServesItsId'
    BY <1>1 DEF Inv, ManagerTypeOK, StreamInv, CacheEntryServesItsId, ServeKinds
  <2>. QED  BY <2>1, <2>2, <2>3 DEF StreamInv
<1>4. CacheInv'
  <2>. SUFFICES ASSUME NEW i \in ServerIds \ raced
                PROVE  /\ \A t \in ServerStreams : serves'[t] = i => stream_cache'[i] = t
                       /\ \A h \in GwStreams : Requesting(h, i)' => stream_cache'[i] = NoStream
                       /\ \A f, h \in GwStreams : Requesting(f, i)' /\ Requesting(h, i)' => f = h
    BY DEF CacheInv
  <2>1. \A h \in GwStreams : Requesting(h, i)' => Requesting(h, i) /\ h # g
    BY DEF Inv, ManagerTypeOK, Requesting
  <2>2. CASE i = id
    BY <1>1, <2>1, <2>2 DEF Inv, ManagerTypeOK, CacheInv
  <2>3. CASE i # id
    BY <1>1, <2>1, <2>3 DEF Inv, ManagerTypeOK, CacheInv
  <2>. QED  BY <2>2, <2>3
<1>. QED  BY <1>2, <1>3, <1>4

\* A known server's stream is made and cached, an unknown server requested.
LEMMA CheckServerExistsInv ==
    ASSUME Inv, NEW g \in GwStreams, CheckServerExists(g)
    PROVE  Inv'
<1>1. CASE asked[g] \in known
  <2>1. PICK s \in ServerStreams :
            /\ MakeStream(s, asked[g])
            /\ CacheStream(asked[g], s)
            /\ get_stream' = [get_stream EXCEPT ![g] = s]
            /\ get_state' = [get_state EXCEPT ![g] = "kResult"]
    BY <1>1 DEF CheckServerExists
  <2>2. /\ asked[g] \in ServerIds /\ Requesting(g, asked[g])
        /\ UNCHANGED <<known, gateway_cloud, asked, server_stream, raced>>
    BY DEF Inv, ActionInv, CheckServerExists, Requesting, RequestStates
  <2>3. ManagerTypeOK'
    BY <2>1, <2>2 DEF Inv, ManagerTypeOK, MakeStream, CacheStream, GetStates, ServeKinds
  <2>4. ServerBuiltOncePerId'
    BY <2>2 DEF Inv, ServerBuiltOncePerId
  <2>5. ActionInv' /\ StreamInv' /\ CacheInv'
    BY <2>1, <2>2, NewStreamInv
  <2>. QED  BY <2>3, <2>4, <2>5 DEF Inv
<1>2. CASE asked[g] \notin known
  <2>. USE <1>2 DEF CheckServerExists
  <2>1. ManagerTypeOK' /\ ServerBuiltOncePerId'
    BY DEF Inv, ManagerTypeOK, ServerBuiltOncePerId, GetStates
  <2>2. ActionInv' /\ StreamInv'
    BY DEF Inv, ManagerTypeOK, ActionInv, RequestStates, ResultStates, StreamInv,
           ResultServesRequest, CallerStreamServesCaller, CacheEntryServesItsId
  <2>3. CacheInv'
    BY DEF Inv, ManagerTypeOK, CacheInv, Requesting
  <2>. QED  BY <2>1, <2>2, <2>3 DEF Inv
<1>. QED  BY <1>1, <1>2

\* The id is looked up again, so that a Server is built only if there is none.
LEMMA GetServersResultInv ==
    ASSUME Inv, NEW g \in GwStreams, GetServersResult(g)
    PROVE  Inv'
<1>1. PICK s \in ServerStreams :
          /\ MakeStream(s, asked[g])
          /\ CacheStream(asked[g], s)
          /\ get_stream' = [get_stream EXCEPT ![g] = s]
          /\ get_state' = [get_state EXCEPT ![g] = "kResult"]
  BY DEF GetServersResult
<1>2. /\ asked[g] \in ServerIds /\ Requesting(g, asked[g]) /\ BuildServer(asked[g])
      /\ UNCHANGED <<asked, server_stream, raced>>
  BY DEF Inv, ActionInv, GetServersResult, Requesting, RequestStates
<1>3. ServerBuiltOncePerId'
  BY <1>2 DEF Inv, ManagerTypeOK, ServerBuiltOncePerId, BuildServer, ServeKinds
<1>4. ManagerTypeOK'
  BY <1>1, <1>2, ManagerAssumption
     DEF Inv, ManagerTypeOK, ServerBuiltOncePerId, BuildServer, MakeStream, CacheStream,
         GetStates, ServeKinds
<1>5. ActionInv' /\ StreamInv' /\ CacheInv'
  BY <1>1, <1>2, NewStreamInv
<1>. QED  BY <1>3, <1>4, <1>5 DEF Inv

\* An update that only moves the action of g on, without a stream.
LEMMA StateStepInv ==
    ASSUME Inv, NEW g \in GwStreams,
           RequestServer(g) \/ GetServersError(g) \/ ReportError(g)
    PROVE  Inv'
<1>. USE DEF RequestServer, GetServersError, ReportError
<1>1. ManagerTypeOK' /\ ServerBuiltOncePerId'
  BY DEF Inv, ManagerTypeOK, ServerBuiltOncePerId, GetStates
<1>2. ActionInv' /\ StreamInv'
  BY DEF Inv, ManagerTypeOK, ActionInv, RequestStates, ResultStates, StreamInv,
         ResultServesRequest, CallerStreamServesCaller, CacheEntryServesItsId
<1>3. CacheInv'
  BY DEF Inv, ManagerTypeOK, CacheInv, Requesting
<1>. QED  BY <1>1, <1>2, <1>3 DEF Inv

\* The stream passes from the action to its caller.
LEMMA DeliverStreamInv ==
    ASSUME Inv, NEW g \in GwStreams, DeliverStream(g)
    PROVE  Inv'
<1>. USE DEF DeliverStream
<1>1. ManagerTypeOK' /\ ServerBuiltOncePerId'
  BY DEF Inv, ManagerTypeOK, ServerBuiltOncePerId, GetStates
<1>2. ActionInv'
  BY DEF Inv, ManagerTypeOK, ActionInv, RequestStates, ResultStates
<1>3. StreamInv'
  BY DEF Inv, ManagerTypeOK, ActionInv, ResultStates, StreamInv,
         ResultServesRequest, CallerStreamServesCaller, CacheEntryServesItsId
<1>4. CacheInv'
  BY DEF Inv, ManagerTypeOK, CacheInv, Requesting
<1>. QED  BY <1>1, <1>2, <1>3, <1>4 DEF Inv

\* Callers let go of streams: what is still held stays what it was, and an
\* entry of a stream that is not expires.
LEMMA DestroyUnheldInv ==
    ASSUME Inv, NEW links \in [ServerStreams -> LinkStates], DestroyUnheld(links),
           get_stream' \in [GwStreams -> ServerStreams \cup {NoStream}],
           server_stream' \in [GwStreams -> ServerStreams \cup {NoStream}],
           \A h \in GwStreams :
               /\ get_stream'[h] # NoStream =>
                      get_stream'[h] = get_stream[h] /\ asked'[h] = asked[h]
               /\ server_stream'[h] # NoStream =>
                      server_stream'[h] = server_stream[h] /\ asked'[h] = asked[h]
               /\ get_state'[h] \in ResultStates => get_stream'[h] # NoStream
               /\ \A i \in ServerIds : Requesting(h, i)' => Requesting(h, i),
           raced' = raced
    PROVE  /\ serves' \in [ServerStreams -> ServeKinds \cup {NoServer}]
           /\ link_state' \in [ServerStreams -> LinkStates]
           /\ stream_cache' \in [ServerIds -> ServerStreams \cup {NoStream, Expired}]
           /\ StreamInv' /\ CacheInv'
<1>. DEFINE held(s) == \E g \in GwStreams : s = get_stream'[g] \/ s = server_stream'[g]
<1>. USE ManagerAssumption
<1>1. \A s \in ServerStreams :
          /\ serves'[s] = IF held(s) THEN serves[s] ELSE NoServer
          /\ link_state'[s] = IF held(s) THEN links[s] ELSE "kUnlinked"
  BY DEF DestroyUnheld
<1>2. \A i \in ServerIds :
          stream_cache'[i] = IF stream_cache[i] \in ServerStreams /\ ~held(stream_cache[i])
                             THEN Expired ELSE stream_cache[i]
  BY DEF DestroyUnheld
<1>3. /\ serves' \in [ServerStreams -> ServeKinds \cup {NoServer}]
      /\ link_state' \in [ServerStreams -> LinkStates]
      /\ stream_cache' \in [ServerIds -> ServerStreams \cup {NoStream, Expired}]
  BY DEF Inv, ManagerTypeOK, DestroyUnheld, LinkStates
<1>4. StreamInv'
  <2>1. ResultServesRequest'
    BY <1>1 DEF Inv, ManagerTypeOK, StreamInv, ResultServesRequest, ActionInv, ResultStates
  <2>2. CallerStreamServesCaller'
    BY <1>1 DEF Inv, ManagerTypeOK, StreamInv, CallerStreamServesCaller
  <2>3. CacheEntryServesItsId'
    BY <1>1, <1>2 DEF Inv, ManagerTypeOK, StreamInv, CacheEntryServesItsId
  <2>. QED  BY <2>1, <2>2, <2>3 DEF StreamInv
<1>5. CacheInv'
  <2>. SUFFICES ASSUME NEW i \in ServerIds \ raced
                PROVE  /\ \A t \in ServerStreams : serves'[t] = i => stream_cache'[i] = t
                       /\ \A h \in GwStreams : Requesting(h, i)' => stream_cache'[i] = NoStream
                       /\ \A f, h \in GwStreams : Requesting(f, i)' /\ Requesting(h, i)' => f = h
    BY DEF CacheInv
  <2>1. \A t \in ServerStreams : serves'[t] = i => held(t) /\ serves[t] = i
    BY <1>1 DEF ServeKinds
  <2>. QED  BY <1>2, <2>1 DEF Inv, ManagerTypeOK, CacheInv
<1>. QED  BY <1>3, <1>4, <1>5

\* The action and its caller go, and with them maybe the last shared_ptr.
LEMMA DeliverToDestroyedInv ==
    ASSUME Inv, NEW g \in GwStreams, DeliverToDestroyed(g)
    PROVE  Inv'
<1>. USE DEF DeliverToDestroyed
<1>1. ActionInv'
  BY DEF Inv, ManagerTypeOK, ActionInv, RequestStates, ResultStates
<1>2. /\ serves' \in [ServerStreams -> ServeKinds \cup {NoServer}]
      /\ link_state' \in [ServerStreams -> LinkStates]
      /\ stream_cache' \in [ServerIds -> ServerStreams \cup {NoStream, Expired}]
      /\ StreamInv' /\ CacheInv'
  <2>1. \A h \in GwStreams : get_state[h] \in ResultStates => get_stream[h] # NoStream
    BY ManagerAssumption DEF Inv, StreamInv, ResultServesRequest, ResultStates
  <2>. QED  BY <2>1, DestroyUnheldInv
               DEF Inv, ManagerTypeOK, ActionInv, Requesting, ResultStates
<1>3. ManagerTypeOK' /\ ServerBuiltOncePerId'
  BY <1>2 DEF Inv, ManagerTypeOK, ServerBuiltOncePerId, GetStates
<1>. QED  BY <1>1, <1>2, <1>3 DEF Inv

\* A caller goes, and with it maybe the last shared_ptr.
LEMMA ReleaseInv ==
    ASSUME Inv, NEW g \in GwStreams, Release(g)
    PROVE  Inv'
<1>. USE DEF Release
<1>1. ActionInv'
  BY DEF Inv, ManagerTypeOK, ActionInv, RequestStates, ResultStates
<1>2. /\ serves' \in [ServerStreams -> ServeKinds \cup {NoServer}]
      /\ link_state' \in [ServerStreams -> LinkStates]
      /\ stream_cache' \in [ServerIds -> ServerStreams \cup {NoStream, Expired}]
      /\ StreamInv' /\ CacheInv'
  <2>1. \A h \in GwStreams : get_state[h] \in ResultStates => get_stream[h] # NoStream
    BY ManagerAssumption DEF Inv, StreamInv, ResultServesRequest, ResultStates
  <2>. QED  BY <2>1, DestroyUnheldInv
               DEF Inv, ManagerTypeOK, ActionInv, Requesting, ResultStates
<1>3. ManagerTypeOK' /\ ServerBuiltOncePerId'
  BY <1>2 DEF Inv, ManagerTypeOK, ServerBuiltOncePerId
<1>. QED  BY <1>1, <1>2, <1>3 DEF Inv

\* The callers that are dropped all had the stream that fails.
LEMMA LinkErrorInv ==
    ASSUME Inv, NEW s \in ServerStreams, NEW dropped \in SUBSET GwStreams,
           LinkError(s, dropped)
    PROVE  Inv'
<1>. USE ManagerAssumption DEF LinkError
<1>1. \A g \in dropped : get_state[g] = "none"
  BY DEF Inv, ManagerTypeOK, ActionInv
<1>2. ActionInv'
  BY <1>1 DEF Inv, ManagerTypeOK, ActionInv, RequestStates, ResultStates
<1>3. /\ serves' \in [ServerStreams -> ServeKinds \cup {NoServer}]
      /\ link_state' \in [ServerStreams -> LinkStates]
      /\ stream_cache' \in [ServerIds -> ServerStreams \cup {NoStream, Expired}]
      /\ StreamInv' /\ CacheInv'
  <2>1. \A h \in GwStreams : get_state[h] \in ResultStates => get_stream[h] # NoStream
    BY DEF Inv, StreamInv, ResultServesRequest, ResultStates
  <2>2. [link_state EXCEPT ![s] = "kLinkError"] \in [ServerStreams -> LinkStates]
    BY DEF Inv, ManagerTypeOK, LinkStates
  <2>. QED  BY <1>1, <2>1, <2>2, DestroyUnheldInv
               DEF Inv, ManagerTypeOK, ActionInv, Requesting, ResultStates
<1>4. ManagerTypeOK' /\ ServerBuiltOncePerId'
  BY <1>3 DEF Inv, ManagerTypeOK, ServerBuiltOncePerId
<1>. QED  BY <1>2, <1>3, <1>4 DEF Inv

\* What happens around the gateway touches neither actions nor the cache.
LEMMA EnvironmentInv ==
    ASSUME Inv,
           \/ \E s \in ServerStreams : LinkUp(s) \/ LinkDown(s)
           \/ \E id \in ServerIds : AetherAddServer(id)
           \/ UNCHANGED managerVars
    PROVE  Inv'
<1>. USE DEF LinkUp, LinkDown, AetherAddServer, managerVars
<1>1. ManagerTypeOK' /\ ServerBuiltOncePerId'
  BY DEF Inv, ManagerTypeOK, ServerBuiltOncePerId, LinkStates
<1>2. ActionInv' /\ StreamInv'
  BY DEF Inv, ActionInv, StreamInv, ResultServesRequest, CallerStreamServesCaller,
         CacheEntryServesItsId
<1>3. CacheInv'
  BY DEF Inv, CacheInv, Requesting
<1>. QED  BY <1>1, <1>2, <1>3 DEF Inv

\* The servers built are saved together with the registry they are in.
LEMMA ManagerRestartInv ==
    ASSUME Inv, ManagerRestart
    PROVE  Inv'
<1>. USE ManagerAssumption DEF ManagerRestart
<1>1. ManagerTypeOK' /\ ServerBuiltOncePerId'
  BY DEF Inv, ManagerTypeOK, ServerBuiltOncePerId, GetStates, LinkStates
<1>2. ActionInv' /\ StreamInv' /\ CacheInv'
  BY DEF ActionInv, StreamInv, ResultServesRequest, CallerStreamServesCaller,
         CacheEntryServesItsId, CacheInv, Requesting, RequestStates, ServeKinds
<1>. QED  BY <1>1, <1>2 DEF Inv

----------------------------------------------------------------------------
(* The theorems.                                                           *)

\* The initial states satisfy Inv.
LEMMA InitInv == ManagerInit => Inv
BY ManagerAssumption
   DEF ManagerInit, Inv, ManagerTypeOK, ServerBuiltOncePerId, ActionInv, StreamInv,
       ResultServesRequest, CallerStreamServesCaller, CacheEntryServesItsId, CacheInv,
       Requesting, GetStates, LinkStates, ServeKinds, RequestStates

\* Every step preserves Inv.
LEMMA NextInv == Inv /\ [ManagerNext]_managerVars => Inv'
<1>. SUFFICES ASSUME Inv, [ManagerNext]_managerVars PROVE Inv'
  OBVIOUS
<1>1. CASE \E g \in GwStreams, id \in ServerIds, cache \in BOOLEAN :
               GetStreamById(g, id, cache)
  BY <1>1, GetStreamByIdInv
<1>2. CASE \E g \in GwStreams, ep \in ServerEndpoints, s \in ServerStreams :
               GetStreamByEndpoints(g, ep, s)
  BY <1>2, GetStreamByEndpointsInv
<1>3. CASE \E g \in GwStreams : Update(g)
  BY <1>3, CheckServerExistsInv, StateStepInv, DeliverStreamInv, DeliverToDestroyedInv
     DEF Update
<1>4. CASE \E g \in GwStreams : GetServersResult(g)
  BY <1>4, GetServersResultInv
<1>5. CASE \E g \in GwStreams : GetServersError(g)
  BY <1>5, StateStepInv
<1>6. CASE \E s \in ServerStreams, dropped \in SUBSET GwStreams : LinkError(s, dropped)
  BY <1>6, LinkErrorInv
<1>7. CASE \E g \in GwStreams : Release(g)
  BY <1>7, ReleaseInv
<1>8. CASE \/ \E s \in ServerStreams : LinkUp(s) \/ LinkDown(s)
           \/ \E id \in ServerIds : AetherAddServer(id)
           \/ UNCHANGED managerVars
  BY <1>8, EnvironmentInv
<1>9. CASE ManagerRestart
  BY <1>9, ManagerRestartInv
<1>. QED  BY <1>1, <1>2, <1>3, <1>4, <1>5, <1>6, <1>7, <1>8, <1>9 DEF ManagerNext

\* Inv holds in every state the manager reaches.
THEOREM ManagerInvariant == ManagerSpec => []Inv
BY InitInv, NextInv, PTL DEF ManagerSpec

\* The manager's state stays of its types.
THEOREM ManagerTypeCorrect == ManagerSpec => []ManagerTypeOK
<1>1. Inv => ManagerTypeOK
  BY DEF Inv
<1>. QED  BY <1>1, ManagerInvariant, PTL

\* However many requests for an id overlap, BuildServer builds one Server.
THEOREM ServersBuiltOnce == ManagerSpec => []ServerBuiltOncePerId
<1>1. Inv => ServerBuiltOncePerId
  BY DEF Inv
<1>. QED  BY <1>1, ManagerInvariant, PTL

\* No caller is ever given a null stream, or one of another server.
THEOREM ResultsServeRequests == ManagerSpec => []ResultServesRequest
<1>1. Inv => ResultServesRequest
  BY DEF Inv, StreamInv
<1>. QED  BY <1>1, ManagerInvariant, PTL

\* A caller's stream stays a live one of its server, whatever other callers
\* of the stream do.
THEOREM StreamsServeCallers == ManagerSpec => []CallerStreamServesCaller
<1>1. Inv => CallerStreamServesCaller
  BY DEF Inv, StreamInv
<1>. QED  BY <1>1, ManagerInvariant, PTL

\* The cache never resolves an id to the stream of another server.
THEOREM CacheSound == ManagerSpec => []CacheEntryServesItsId
<1>1. Inv => CacheEntryServesItsId
  BY DEF Inv, StreamInv
<1>. QED  BY <1>1, ManagerInvariant, PTL

\* Callers of an id share its stream as long as no requests for it overlap.
THEOREM StreamsShared == ManagerSpec => []SharedUnlessRaced
<1>1. Inv => SharedUnlessRaced
  BY DEF Inv, CacheInv, SharedUnlessRaced
<1>. QED  BY <1>1, ManagerInvariant, PTL

----------------------------------------------------------------------------
(* The manager keeps the promise of StreamService: one lemma for each kind *)
(* of step, under the mapping of Service.                                  *)

\* A step that only resolves, or that the service does not see.
LEMMA ResolveStep ==
    ASSUME NEW servers \in SUBSET ServeKinds,
           known' = known \cup servers,
           Doubtful' \subseteq Doubtful,
           \A g \in Doubtful \ Doubtful' : asked[g] \in known',
           Unanswered' = Unanswered,
           UNCHANGED <<asked, server_stream>>
    PROVE  Service!Next
<1>1. Service!Resolve(servers)
  BY DEF Service!Resolve
<1>. QED  BY <1>1 DEF Service!Next

\* Both forms of GetStream ask; only an id that is not in the registry leaves
\* the caller in doubt.
LEMMA AskStep ==
    ASSUME Inv, NEW g \in GwStreams, NEW k \in ServeKinds,
           asked[g] = NoServer, asked' = [asked EXCEPT ![g] = k],
           known' = known, server_stream' = server_stream,
           \/ get_state' = [get_state EXCEPT ![g] = "kExisting"]
           \/ k \in ServerIds /\ get_state' = [get_state EXCEPT ![g] = "kCheckServerExists"]
    PROVE  Service!Next
<1>1. get_state[g] = "none" /\ get_state \in [GwStreams -> GetStates]
  BY DEF Inv, ManagerTypeOK, ActionInv
<1>2. get_state'[g] # "none" /\ \A h \in GwStreams \ {g} : get_state'[h] = get_state[h]
  BY <1>1
<1>3. asked \in [GwStreams -> ServeKinds \cup {NoServer}]
  BY DEF Inv, ManagerTypeOK
<1>4. asked'[g] = k /\ \A h \in GwStreams \ {g} : asked'[h] = asked[h]
  BY <1>3
<1>5. Unanswered' = Unanswered \cup {g}
  BY <1>2 DEF Unanswered
<1>6. g \notin Doubtful
  BY <1>1 DEF Doubtful, Unanswered
<1>7. \A h \in GwStreams \ {g} : h \in Doubtful' <=> h \in Doubtful
  BY <1>2, <1>4 DEF Doubtful, Unanswered
<1>8. g \in Doubtful' <=> k \notin known /\ get_state'[g] = "kCheckServerExists"
  BY <1>1, <1>2, <1>4 DEF Doubtful, Unanswered
<1>9. Doubtful \subseteq GwStreams /\ Doubtful' \subseteq GwStreams
  BY DEF Doubtful, Unanswered
<1>10. CASE g \notin Doubtful'
  <2>1. Doubtful' = Doubtful
    BY <1>6, <1>7, <1>9, <1>10
  <2>2. Service!Ask(g, k)
    BY <1>5, <2>1 DEF Service!Ask
  <2>. QED  BY <2>2 DEF Service!Next
<1>11. CASE g \in Doubtful'
  <2>1. Doubtful' = Doubtful \cup {g}
    BY <1>6, <1>7, <1>9, <1>11
  <2>2. k \in ServerIds /\ k \notin known
    BY <1>1, <1>8, <1>11
  <2>3. k \notin known \cup ServerEndpoints
    BY <2>2, ManagerAssumption DEF ManagerAssumption
  <2>4. Service!Ask(g, k)
    BY <1>5, <2>1, <2>3 DEF Service!Ask
  <2>. QED  BY <2>4 DEF Service!Next
<1>. QED  BY <1>10, <1>11

\* An update of a request that does not report: what it finds or builds is in
\* the registry before a caller's doubt goes.
LEMMA RequestStep ==
    ASSUME Inv, NEW g \in GwStreams,
           \/ CheckServerExists(g) \/ RequestServer(g)
           \/ GetServersResult(g) \/ GetServersError(g)
    PROVE  Service!Next
<1>1. get_state \in [GwStreams -> GetStates] /\ known \subseteq ServerIds
  BY DEF Inv, ManagerTypeOK
<1>2. /\ get_state[g] \in {"kCheckServerExists", "kRequestServer", "kGetServers"}
      /\ asked[g] \in ServerIds
      /\ get_state'[g] # "none"
      /\ \A h \in GwStreams \ {g} : get_state'[h] = get_state[h]
      /\ UNCHANGED <<asked, server_stream>>
  BY <1>1 DEF Inv, ActionInv, RequestStates, CheckServerExists, RequestServer,
              GetServersResult, GetServersError
<1>3. Unanswered' = Unanswered
  BY <1>2 DEF Unanswered
<1>4. PICK servers \in SUBSET ServeKinds : known' = known \cup servers
  <2>1. CASE known' = known
    <3>1. known' = known \cup {}
      BY <2>1
    <3>. QED  BY <3>1
  <2>2. CASE known' = known \cup ({asked[g]} \cap ServerIds)
    <3>1. {asked[g]} \cap ServerIds \in SUBSET ServeKinds
      BY DEF ServeKinds
    <3>. QED  BY <2>2, <3>1
  <2>. QED
    BY <2>1, <2>2
       DEF CheckServerExists, RequestServer, GetServersResult, GetServersError, BuildServer
<1>5. \A h \in GwStreams \ {g} :
          /\ h \in Doubtful' => h \in Doubtful
          /\ h \in Doubtful /\ h \notin Doubtful' => asked[h] \in known'
  BY <1>2, <1>4 DEF Doubtful, Unanswered
<1>6. /\ g \in Doubtful' => g \in Doubtful
      /\ g \in Doubtful /\ g \notin Doubtful' => asked[g] \in known'
  <2>1. CASE CheckServerExists(g) /\ asked[g] \in known
    BY <1>1, <2>1 DEF CheckServerExists, Doubtful, Unanswered
  <2>2. CASE CheckServerExists(g) /\ asked[g] \notin known
    BY <1>1, <2>2 DEF CheckServerExists, Doubtful, Unanswered
  <2>3. CASE RequestServer(g) \/ GetServersError(g)
    BY <1>1, <2>3 DEF RequestServer, GetServersError, Doubtful, Unanswered
  <2>4. CASE GetServersResult(g)
    <3>1. asked[g] \in known' /\ get_state'[g] = "kResult" /\ get_state[g] = "kGetServers"
      BY <1>1, <1>2, <2>4 DEF GetServersResult, BuildServer
    <3>. QED  BY <3>1 DEF Doubtful, Unanswered
  <2>. QED  BY <2>1, <2>2, <2>3, <2>4
<1>7. Doubtful \subseteq GwStreams /\ Doubtful' \subseteq GwStreams
  BY DEF Doubtful, Unanswered
<1>8. Doubtful' \subseteq Doubtful /\ \A h \in Doubtful \ Doubtful' : asked[h] \in known'
  BY <1>5, <1>6, <1>7
<1>. QED  BY <1>2, <1>3, <1>4, <1>8, ResolveStep

\* A report: the stream of the action, which all its holders want for the same
\* server, or the error that the caller was in doubt of.
LEMMA ReportStep ==
    ASSUME Inv, NEW g \in GwStreams, DeliverStream(g) \/ ReportError(g)
    PROVE  Service!Next
<1>1. get_state \in [GwStreams -> GetStates]
  BY DEF Inv, ManagerTypeOK
<1>2. /\ get_state[g] # "none" /\ get_state'[g] = "none"
      /\ \A h \in GwStreams \ {g} : get_state'[h] = get_state[h]
      /\ UNCHANGED <<known, asked>>
  BY <1>1 DEF DeliverStream, ReportError
<1>3. g \in Unanswered /\ Unanswered' = Unanswered \ {g}
  BY <1>2 DEF Unanswered
<1>4. Doubtful' = Doubtful \ {g}
  BY <1>2 DEF Doubtful, Unanswered
<1>5. CASE DeliverStream(g)
  <2>1. PICK s \in ServerStreams : get_stream[g] = s /\ serves[s] = asked[g]
    BY <1>5 DEF DeliverStream, Inv, StreamInv, ResultServesRequest
  <2>2. \A h \in GwStreams : server_stream[h] = s => asked[h] = asked[g]
    BY <2>1, ManagerAssumption
       DEF ManagerAssumption, Inv, StreamInv, CallerStreamServesCaller
  <2>3. g \notin Doubtful
    BY <1>5 DEF DeliverStream, Doubtful
  <2>4. Doubtful' = Doubtful
    BY <1>4, <2>3
  <2>5. Service!Deliver(g, s)
    BY <1>2, <1>3, <1>5, <2>1, <2>2, <2>3, <2>4 DEF DeliverStream, Service!Deliver
  <2>. QED  BY <2>5 DEF Service!Next
<1>6. CASE ReportError(g)
  <2>1. g \in Doubtful
    BY <1>3, <1>6 DEF ReportError, Doubtful
  <2>2. Service!Refuse(g)
    BY <1>2, <1>3, <1>4, <1>6, <2>1 DEF ReportError, Service!Refuse
  <2>. QED  BY <2>2 DEF Service!Next
<1>. QED  BY <1>5, <1>6

\* Callers that go are not in doubt: their action is over, or is the one that
\* brings them a stream.
LEMMA LeaveStep ==
    ASSUME Inv, NEW gs \in SUBSET GwStreams,
           asked' = [g \in GwStreams |-> IF g \in gs THEN NoServer ELSE asked[g]],
           server_stream' =
               [g \in GwStreams |-> IF g \in gs THEN NoStream ELSE server_stream[g]],
           \A g \in gs :
               /\ get_state[g] \in {"none", "kExisting", "kResult"}
               /\ get_state'[g] = "none",
           \A g \in GwStreams \ gs : get_state'[g] = get_state[g],
           known' = known
    PROVE  Service!Next
<1>1. gs \cap Doubtful = {}
  BY DEF Doubtful, Unanswered
<1>2. Unanswered' = Unanswered \ gs
  BY DEF Unanswered
<1>3. \A g \in GwStreams : g \in Doubtful' <=> g \in Doubtful
  BY DEF Doubtful, Unanswered
<1>4. Doubtful' = Doubtful
  BY <1>3 DEF Doubtful, Unanswered
<1>5. Service!Leave(gs)
  BY <1>1, <1>2, <1>4 DEF Service!Leave
<1>. QED  BY <1>5 DEF Service!Next

\* The ways in which callers go.
LEMMA CallersGoStep ==
    ASSUME Inv,
           \/ \E g \in GwStreams : DeliverToDestroyed(g) \/ Release(g)
           \/ \E s \in ServerStreams, dropped \in SUBSET GwStreams : LinkError(s, dropped)
    PROVE  Service!Next
<1>1. /\ get_state \in [GwStreams -> GetStates]
      /\ asked \in [GwStreams -> ServeKinds \cup {NoServer}]
      /\ server_stream \in [GwStreams -> ServerStreams \cup {NoStream}]
  BY DEF Inv, ManagerTypeOK
<1>2. ASSUME NEW g \in GwStreams, DeliverToDestroyed(g)
      PROVE  Service!Next
  <2>1. server_stream[g] = NoStream
    BY <1>2 DEF DeliverToDestroyed, Inv, ActionInv
  <2>2. asked' = [h \in GwStreams |-> IF h \in {g} THEN NoServer ELSE asked[h]]
    BY <1>1, <1>2 DEF DeliverToDestroyed
  <2>3. server_stream' =
            [h \in GwStreams |-> IF h \in {g} THEN NoStream ELSE server_stream[h]]
    BY <1>1, <1>2, <2>1 DEF DeliverToDestroyed
  <2>4. /\ get_state[g] \in {"none", "kExisting", "kResult"} /\ get_state'[g] = "none"
        /\ \A h \in GwStreams \ {g} : get_state'[h] = get_state[h]
        /\ known' = known
    BY <1>1, <1>2 DEF DeliverToDestroyed
  <2>5. {g} \in SUBSET GwStreams /\ \A h \in {g} : h = g
    OBVIOUS
  <2>. QED  BY <2>2, <2>3, <2>4, <2>5, LeaveStep
<1>3. ASSUME NEW g \in GwStreams, Release(g)
      PROVE  Service!Next
  <2>1. asked' = [h \in GwStreams |-> IF h \in {g} THEN NoServer ELSE asked[h]]
    BY <1>1, <1>3 DEF Release
  <2>2. server_stream' =
            [h \in GwStreams |-> IF h \in {g} THEN NoStream ELSE server_stream[h]]
    BY <1>1, <1>3 DEF Release
  <2>3. get_state[g] = "none" /\ get_state' = get_state /\ known' = known
    BY <1>3 DEF Release
  <2>4. {g} \in SUBSET GwStreams /\ \A h \in {g} : h = g
    OBVIOUS
  <2>. QED  BY <2>1, <2>2, <2>3, <2>4, LeaveStep
<1>4. ASSUME NEW s \in ServerStreams, NEW dropped \in SUBSET GwStreams,
             LinkError(s, dropped)
      PROVE  Service!Next
  <2>1. \A g \in dropped : get_state[g] = "none"
    BY <1>4, ManagerAssumption DEF ManagerAssumption, LinkError, Inv, ActionInv
  <2>2. get_state' = get_state /\ known' = known
    BY <1>4 DEF LinkError
  <2>. QED  BY <1>4, <2>1, <2>2, LeaveStep DEF LinkError
<1>. QED  BY <1>2, <1>3, <1>4

\* The environment resolves or does nothing that the service sees.
LEMMA EnvironmentStep ==
    ASSUME \/ \E s \in ServerStreams : LinkUp(s) \/ LinkDown(s)
           \/ \E id \in ServerIds : AetherAddServer(id)
    PROVE  Service!Next
<1>1. UNCHANGED <<asked, get_state, server_stream>>
  BY DEF LinkUp, LinkDown, AetherAddServer
<1>2. PICK servers \in SUBSET ServeKinds : known' = known \cup servers
  <2>1. CASE \E s \in ServerStreams : LinkUp(s) \/ LinkDown(s)
    <3>1. known' = known \cup {}
      BY <2>1 DEF LinkUp, LinkDown
    <3>. QED  BY <3>1
  <2>2. CASE \E id \in ServerIds : AetherAddServer(id)
    BY <2>2 DEF AetherAddServer, ServeKinds
  <2>. QED  BY <2>1, <2>2
<1>3. Unanswered' = Unanswered
  BY <1>1 DEF Unanswered
<1>4. Doubtful' \subseteq Doubtful /\ \A g \in Doubtful \ Doubtful' : asked[g] \in known'
  BY <1>1, <1>2 DEF Doubtful, Unanswered
<1>. QED  BY <1>1, <1>2, <1>3, <1>4, ResolveStep

\* A restart leaves no caller and no doubt, and the registry as it was.
LEMMA ManagerRestartStep ==
    ASSUME ManagerRestart
    PROVE  Service!Next
<1>1. Service!Restart
  BY DEF ManagerRestart, Service!Restart, Unanswered, Doubtful
<1>. QED  BY <1>1 DEF Service!Next

\* Every step of the manager is one of the service or leaves it alone.
LEMMA NextIsServiceNext == Inv /\ [ManagerNext]_managerVars => [Service!Next]_Service!vars
<1>. SUFFICES ASSUME Inv, [ManagerNext]_managerVars
              PROVE  [Service!Next]_Service!vars
  OBVIOUS
<1>1. ASSUME NEW g \in GwStreams, NEW id \in ServerIds, NEW cache \in BOOLEAN,
             GetStreamById(g, id, cache)
      PROVE  Service!Next
  <2>1. /\ id \in ServeKinds /\ asked[g] = NoServer
        /\ asked' = [asked EXCEPT ![g] = id]
        /\ known' = known /\ server_stream' = server_stream
        /\ \/ get_state' = [get_state EXCEPT ![g] = "kExisting"]
           \/ get_state' = [get_state EXCEPT ![g] = "kCheckServerExists"]
    BY <1>1 DEF GetStreamById, ServeKinds
  <2>. QED  BY <2>1, AskStep
<1>2. ASSUME NEW g \in GwStreams, NEW ep \in ServerEndpoints, NEW s \in ServerStreams,
             GetStreamByEndpoints(g, ep, s)
      PROVE  Service!Next
  <2>1. known' = known
    BY <1>2, ManagerAssumption DEF ManagerAssumption, GetStreamByEndpoints, BuildServer
  <2>2. /\ ep \in ServeKinds /\ asked[g] = NoServer
        /\ asked' = [asked EXCEPT ![g] = ep] /\ server_stream' = server_stream
        /\ get_state' = [get_state EXCEPT ![g] = "kExisting"]
    BY <1>2 DEF GetStreamByEndpoints, ServeKinds
  <2>. QED  BY <2>1, <2>2, AskStep
<1>3. ASSUME NEW g \in GwStreams, Update(g) \/ GetServersResult(g) \/ GetServersError(g)
      PROVE  Service!Next
  BY <1>3, RequestStep, ReportStep, CallersGoStep DEF Update
<1>4. CASE \/ \E s \in ServerStreams, dropped \in SUBSET GwStreams : LinkError(s, dropped)
           \/ \E g \in GwStreams : Release(g)
  BY <1>4, CallersGoStep
<1>5. CASE \/ \E s \in ServerStreams : LinkUp(s) \/ LinkDown(s)
           \/ \E id \in ServerIds : AetherAddServer(id)
  BY <1>5, EnvironmentStep
<1>6. CASE ManagerRestart
  BY <1>6, ManagerRestartStep
<1>7. CASE UNCHANGED managerVars
  BY <1>7 DEF managerVars, Service!vars, Unanswered, Doubtful
<1>. QED  BY <1>1, <1>2, <1>3, <1>4, <1>5, <1>6, <1>7 DEF ManagerNext

\* The manager implements StreamService: a caller is answered once, shares a
\* stream with callers of its own server only, and is never refused a server
\* that the registry had when it asked, also after restarts.
THEOREM ManagerKeepsService == ManagerSpec => ServiceSpec
<1>1. ManagerInit => Service!Init
  BY DEF ManagerInit, Service!Init, Unanswered, Doubtful, ServeKinds
<1>. QED
  BY <1>1, ManagerInvariant, NextIsServiceNext, PTL
     DEF ManagerSpec, ServiceSpec, Service!Spec

============================================================================
