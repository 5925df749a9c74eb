----------------------- MODULE ServerStreamManager -----------------------
(***************************************************************************)
(* The gateway's ServerStreamManager (libs/gateway/server_stream_manager)  *)
(* with the ServerStream objects it makes.                                 *)
(*                                                                         *)
(* A caller, always a GwStream, asks once for the stream to a server,      *)
(* either by ServerId or by ServerEndpoints.  The answer is an action that *)
(* the event loop updates: an existing stream is handed over on the next   *)
(* turn, a server that the gateway does not know is first resolved in the  *)
(* cloud.  Several callers can wait at once, and every turn of the loop    *)
(* updates them in any order.                                              *)
(*                                                                         *)
(* A ServerStream lives while a shared_ptr to it exists: in the get action *)
(* (get_stream) or in a GwStream (server_stream).  stream_cache keeps only *)
(* weak_ptrs; an entry whose stream is gone reads Expired until OpenCache  *)
(* erases it.  An object identity is free again once its object is gone.   *)
(***************************************************************************)
EXTENDS Naturals

CONSTANTS
    ServerIds,       \* nonzero ids of servers of the cloud
    ServerEndpoints, \* endpoint lists; a server built from one has id 0
    GwStreams,       \* identities of the callers
    ServerStreams,   \* identities of ServerStream objects
    MaxServers,      \* bound: Server objects made for one endpoint list
    NoServer, NoStream, Expired

ServeKinds == ServerIds \cup ServerEndpoints

ASSUME ManagerAssumption ==
    /\ ServerIds \cap ServerEndpoints = {}
    /\ NoServer \notin ServeKinds
    /\ NoStream \notin ServerStreams
    /\ Expired \notin ServerStreams
    /\ NoStream # Expired
    /\ MaxServers \in Nat \ {0}

VARIABLES
    known,         \* ids for which aether->GetServer finds a Server
    gateway_cloud, \* how many Server objects the gateway built per server
    stream_cache,  \* ServerStreamManager::stream_cache_
    asked,         \* the server a caller was made for, NoServer if free
    get_state,     \* state of the caller's get action
    get_stream,    \* the action's stream_
    server_stream, \* the stream the caller took, GwStream::server_stream_
    serves,        \* the server of a ServerStream, NoServer if not alive
    link_state,    \* link state a ServerStream reports
    raced          \* history: ids requested while a request was under way

managerVars == <<known, gateway_cloud, stream_cache, asked, get_state,
                 get_stream, server_stream, serves, link_state, raced>>

GetStates == {"none", "kExisting", "kCheckServerExists", "kRequestServer",
              "kGetServers", "kResult", "kError"}
LinkStates == {"kUnlinked", "kLinked", "kLinkError"}

ManagerTypeOK ==
    /\ known \subseteq ServerIds
    /\ gateway_cloud \in [ServeKinds -> 0..MaxServers]
    /\ stream_cache \in [ServerIds -> ServerStreams \cup {NoStream, Expired}]
    /\ asked \in [GwStreams -> ServeKinds \cup {NoServer}]
    /\ get_state \in [GwStreams -> GetStates]
    /\ get_stream \in [GwStreams -> ServerStreams \cup {NoStream}]
    /\ server_stream \in [GwStreams -> ServerStreams \cup {NoStream}]
    /\ serves \in [ServerStreams -> ServeKinds \cup {NoServer}]
    /\ link_state \in [ServerStreams -> LinkStates]
    /\ raced \subseteq ServerIds

\* The gateway's own client may have met any servers before.
ManagerInit ==
    /\ known \in SUBSET ServerIds
    /\ gateway_cloud = [k \in ServeKinds |-> 0]
    /\ stream_cache = [id \in ServerIds |-> NoStream]
    /\ asked = [g \in GwStreams |-> NoServer]
    /\ get_state = [g \in GwStreams |-> "none"]
    /\ get_stream = [g \in GwStreams |-> NoStream]
    /\ server_stream = [g \in GwStreams |-> NoStream]
    /\ serves = [s \in ServerStreams |-> NoServer]
    /\ link_state = [s \in ServerStreams |-> "kUnlinked"]
    /\ raced = {}

----------------------------------------------------------------------------
(* The helpers of the class.                                               *)

\* Mutant: the entries of streams that are gone stay in the cache.
OpenCacheKeepsExpired == stream_cache

\* The cache without its expired entries.
OpenCache ==
    [id \in ServerIds |->
        IF stream_cache[id] = Expired THEN NoStream ELSE stream_cache[id]]

\* weak_ptr::lock
Lock(entry) == IF entry = Expired THEN NoStream ELSE entry

\* Mutant: the registry is not asked again when the cloud has answered.
BuildServerUnchecked(k) ==
    /\ gateway_cloud' = [gateway_cloud EXCEPT ![k] = @ + 1]
    /\ known' = known \cup ({k} \cap ServerIds)

\* A nonzero id that is known by now gives the known Server; otherwise a new
\* Server goes to the gateway cloud and, when it has an id, to the registry.
BuildServer(k) ==
    IF k \in known
    THEN UNCHANGED <<known, gateway_cloud>>
    ELSE /\ gateway_cloud' = [gateway_cloud EXCEPT ![k] = @ + 1]
         /\ known' = known \cup ({k} \cap ServerIds)

\* s is a ServerStream object that is made now.
MakeStream(s, k) ==
    /\ serves[s] = NoServer
    /\ serves' = [serves EXCEPT ![s] = k]
    /\ UNCHANGED link_state

\* Mutant: the new stream is not cached.
CacheStreamDropped(id, s) ==
    UNCHANGED stream_cache

\* std::map::insert leaves an entry that is there alone, expired or not.
CacheStream(id, s) ==
    stream_cache' = [stream_cache EXCEPT ![id] = IF @ = NoStream THEN s ELSE @]

\* A RequestServerStreamGetAction for id runs.
Requesting(g, id) ==
    /\ asked[g] = id
    /\ get_state[g] \in {"kCheckServerExists", "kRequestServer", "kGetServers"}

\* Mutant: a GwStream keeps its stream by a weak_ptr.
DestroyUnlessInAction(links) ==
    LET held(s) == \E g \in GwStreams : s = get_stream'[g] IN
    /\ serves' = [s \in ServerStreams |-> IF held(s) THEN serves[s] ELSE NoServer]
    /\ UNCHANGED <<link_state, stream_cache>>

\* Mutant: the cache keeps plain pointers.
DestroyKeepingCache(links) ==
    LET held(s) == \E g \in GwStreams :
                       s = get_stream'[g] \/ s = server_stream'[g]
    IN  /\ serves' = [s \in ServerStreams |->
                         IF held(s) THEN serves[s] ELSE NoServer]
        /\ link_state' = [s \in ServerStreams |->
                             IF held(s) THEN links[s] ELSE "kUnlinked"]
        /\ UNCHANGED stream_cache

\* Streams that lost their last shared_ptr in this step are destroyed, with
\* the link states links for those that stay.
DestroyUnheld(links) ==
    LET held(s) == \E g \in GwStreams :
                       s = get_stream'[g] \/ s = server_stream'[g]
    IN  /\ serves' = [s \in ServerStreams |->
                         IF held(s) THEN serves[s] ELSE NoServer]
        /\ link_state' = [s \in ServerStreams |->
                             IF held(s) THEN links[s] ELSE "kUnlinked"]
        /\ stream_cache' =
               [id \in ServerIds |->
                   IF /\ stream_cache[id] \in ServerStreams
                      /\ ~held(stream_cache[id])
                   THEN Expired
                   ELSE stream_cache[id]]

----------------------------------------------------------------------------
(* GetStream.                                                              *)

\* GetStream(server_id, cache): a cache hit makes an ExistingStreamGetAction
\* that holds the stream, a miss a RequestServerStreamGetAction.
GetStreamById(g, id, cache) ==
    LET hit == cache /\ OpenCache[id] # NoStream IN
    /\ asked[g] = NoServer
    /\ asked' = [asked EXCEPT ![g] = id]
    /\ stream_cache' = IF cache THEN OpenCache ELSE stream_cache
    /\ get_state' = [get_state EXCEPT
                        ![g] = IF hit THEN "kExisting" ELSE "kCheckServerExists"]
    /\ get_stream' = [get_stream EXCEPT
                        ![g] = IF hit THEN Lock(OpenCache[id]) ELSE NoStream]
    /\ raced' = IF ~cache \/ (~hit /\ \E h \in GwStreams : Requesting(h, id))
                THEN raced \cup {id} ELSE raced
    /\ UNCHANGED <<known, gateway_cloud, server_stream, serves, link_state>>

\* GetStream(endpoints): server and stream are made at once.
GetStreamByEndpoints(g, ep, s) ==
    /\ asked[g] = NoServer
    /\ gateway_cloud[ep] < MaxServers
    /\ asked' = [asked EXCEPT ![g] = ep]
    /\ BuildServer(ep)
    /\ MakeStream(s, ep)
    /\ get_state' = [get_state EXCEPT ![g] = "kExisting"]
    /\ get_stream' = [get_stream EXCEPT ![g] = s]
    /\ UNCHANGED <<stream_cache, server_stream, raced>>

\* The GetStream call a GwStream's constructor makes for server k.
GetStream(g, k) ==
    \/ k \in ServerIds /\ GetStreamById(g, k, TRUE)
    \/ k \in ServerEndpoints /\ \E s \in ServerStreams :
                                    GetStreamByEndpoints(g, k, s)

----------------------------------------------------------------------------
(* The updates of the get action.                                          *)

\* RequestServerStreamGetAction::CheckServerExists
CheckServerExists(g) ==
    LET id == asked[g] IN
    /\ get_state[g] = "kCheckServerExists"
    /\ \/ /\ id \in known
          /\ \E s \in ServerStreams :
                 /\ MakeStream(s, id)
                 /\ CacheStream(id, s)
                 /\ get_stream' = [get_stream EXCEPT ![g] = s]
          /\ get_state' = [get_state EXCEPT ![g] = "kResult"]
       \/ /\ id \notin known
          /\ get_state' = [get_state EXCEPT ![g] = "kRequestServer"]
          /\ UNCHANGED <<get_stream, stream_cache, serves, link_state>>
    /\ UNCHANGED <<known, gateway_cloud, asked, server_stream, raced>>

\* Mutant: nothing triggers the action when its state changes.
RequestServerNotTriggered(g) ==
    get_state[g] = "kRequestServer" /\ UNCHANGED managerVars

\* RequestServerStreamGetAction::RequestServer starts the GetServersAction.
RequestServer(g) ==
    /\ get_state[g] = "kRequestServer"
    /\ get_state' = [get_state EXCEPT ![g] = "kGetServers"]
    /\ UNCHANGED <<known, gateway_cloud, stream_cache, asked, get_stream,
                   server_stream, serves, link_state, raced>>

\* The cloud's answer: the OnResult handler of the GetServersAction.
GetServersResult(g) ==
    LET id == asked[g] IN
    /\ get_state[g] = "kGetServers"
    /\ BuildServer(id)
    /\ \E s \in ServerStreams :
           /\ MakeStream(s, id)
           /\ CacheStream(id, s)
           /\ get_stream' = [get_stream EXCEPT ![g] = s]
    /\ get_state' = [get_state EXCEPT ![g] = "kResult"]
    /\ UNCHANGED <<asked, server_stream, raced>>

\* The OnError handler of the GetServersAction.
GetServersError(g) ==
    /\ get_state[g] = "kGetServers"
    /\ get_state' = [get_state EXCEPT ![g] = "kError"]
    /\ UNCHANGED <<known, gateway_cloud, stream_cache, asked, get_stream,
                   server_stream, serves, link_state, raced>>

\* Update returns Result: the caller takes the stream, and the action with
\* its shared_ptr is gone.
DeliverStream(g) ==
    /\ get_state[g] \in {"kExisting", "kResult"}
    /\ get_state' = [get_state EXCEPT ![g] = "none"]
    /\ get_stream' = [get_stream EXCEPT ![g] = NoStream]
    /\ server_stream' = [server_stream EXCEPT ![g] = get_stream[g]]
    /\ UNCHANGED <<known, gateway_cloud, stream_cache, asked, serves,
                   link_state, raced>>

\* Update returns Result to a caller that is destroyed in its handler.
DeliverToDestroyed(g) ==
    /\ get_state[g] \in {"kExisting", "kResult"}
    /\ get_state' = [get_state EXCEPT ![g] = "none"]
    /\ get_stream' = [get_stream EXCEPT ![g] = NoStream]
    /\ asked' = [asked EXCEPT ![g] = NoServer]
    /\ UNCHANGED server_stream
    /\ DestroyUnheld(link_state)
    /\ UNCHANGED <<known, gateway_cloud, raced>>

\* Update returns Error: the action is gone and the caller has no stream.
ReportError(g) ==
    /\ get_state[g] = "kError"
    /\ get_state' = [get_state EXCEPT ![g] = "none"]
    /\ UNCHANGED <<known, gateway_cloud, stream_cache, asked, get_stream,
                   server_stream, serves, link_state, raced>>

----------------------------------------------------------------------------
(* The environment: the channels under a ServerStream, the callers that    *)
(* drop their streams, and the rest of the Aether application.             *)

\* A channel is selected and its transport links.
LinkUp(s) ==
    /\ serves[s] # NoServer /\ link_state[s] = "kUnlinked"
    /\ link_state' = [link_state EXCEPT ![s] = "kLinked"]
    /\ UNCHANGED <<known, gateway_cloud, stream_cache, asked, get_state,
                   get_stream, server_stream, serves, raced>>

\* The transport is lost and another channel is tried.
LinkDown(s) ==
    /\ serves[s] # NoServer /\ link_state[s] = "kLinked"
    /\ link_state' = [link_state EXCEPT ![s] = "kUnlinked"]
    /\ UNCHANGED <<known, gateway_cloud, stream_cache, asked, get_state,
                   get_stream, server_stream, serves, raced>>

\* No channel is left.  The callers dropped are destroyed by their handlers
\* of the stream update event, which is emitted to all of them in this step.
LinkError(s, dropped) ==
    /\ serves[s] # NoServer /\ link_state[s] # "kLinkError"
    /\ \A g \in dropped : server_stream[g] = s
    /\ server_stream' = [g \in GwStreams |->
                            IF g \in dropped THEN NoStream ELSE server_stream[g]]
    /\ asked' = [g \in GwStreams |->
                    IF g \in dropped THEN NoServer ELSE asked[g]]
    /\ UNCHANGED get_stream
    /\ DestroyUnheld([link_state EXCEPT ![s] = "kLinkError"])
    /\ UNCHANGED <<known, gateway_cloud, get_state, raced>>

\* A caller whose action is over is destroyed.
Release(g) ==
    /\ asked[g] # NoServer /\ get_state[g] = "none"
    /\ asked' = [asked EXCEPT ![g] = NoServer]
    /\ server_stream' = [server_stream EXCEPT ![g] = NoStream]
    /\ UNCHANGED get_stream
    /\ DestroyUnheld(link_state)
    /\ UNCHANGED <<known, gateway_cloud, get_state, raced>>

\* Another part of the application adds the server to the registry.
AetherAddServer(id) ==
    /\ id \notin known
    /\ known' = known \cup {id}
    /\ UNCHANGED <<gateway_cloud, stream_cache, asked, get_state, get_stream,
                   server_stream, serves, link_state, raced>>

\* The process ends at any point and starts again.  The Gateway object saves
\* its aether, client and cloud (AE_OBJECT_REFLECT) and nothing of the
\* manager, which is made again at its first use.
ManagerRestart ==
    /\ stream_cache' = [id \in ServerIds |-> NoStream]
    /\ asked' = [g \in GwStreams |-> NoServer]
    /\ get_state' = [g \in GwStreams |-> "none"]
    /\ get_stream' = [g \in GwStreams |-> NoStream]
    /\ server_stream' = [g \in GwStreams |-> NoStream]
    /\ serves' = [s \in ServerStreams |-> NoServer]
    /\ link_state' = [s \in ServerStreams |-> "kUnlinked"]
    /\ raced' = {}
    /\ UNCHANGED <<known, gateway_cloud>>

----------------------------------------------------------------------------

\* One turn of the event loop for the action of g.
Update(g) ==
    \/ CheckServerExists(g)
    \/ RequestServer(g)
    \/ DeliverStream(g)
    \/ DeliverToDestroyed(g)
    \/ ReportError(g)

ManagerNext ==
    \/ \E g \in GwStreams, id \in ServerIds, cache \in BOOLEAN :
           GetStreamById(g, id, cache)
    \/ \E g \in GwStreams, ep \in ServerEndpoints, s \in ServerStreams :
           GetStreamByEndpoints(g, ep, s)
    \/ \E g \in GwStreams : Update(g)
    \/ \E g \in GwStreams : GetServersResult(g)
    \/ \E g \in GwStreams : GetServersError(g)
    \/ \E s \in ServerStreams : LinkUp(s)
    \/ \E s \in ServerStreams : LinkDown(s)
    \/ \E s \in ServerStreams, dropped \in SUBSET GwStreams :
           LinkError(s, dropped)
    \/ \E g \in GwStreams : Release(g)
    \/ \E id \in ServerIds : AetherAddServer(id)
    \/ ManagerRestart

ManagerSpec == ManagerInit /\ [][ManagerNext]_managerVars

----------------------------------------------------------------------------
(* Correctness.                                                            *)

\* Requests for one id that overlap build one Server object between them,
\* and a Server the gateway built is in the registry (BuildServer looks the
\* id up again after the cloud's answer).
ServerBuiltOncePerId ==
    \A id \in ServerIds :
        /\ gateway_cloud[id] <= 1
        /\ gateway_cloud[id] = 1 => id \in known

\* A get action that is about to report Result holds a live stream of the
\* server it was asked for: never the null pointer an expired cache entry
\* locks to (GetStream calls OpenCache first).
ResultServesRequest ==
    \A g \in GwStreams :
        get_state[g] \in {"kExisting", "kResult"} =>
            \E s \in ServerStreams : get_stream[g] = s /\ serves[s] = asked[g]

\* The stream a caller took stays a live stream of the caller's server until
\* the caller drops it, whatever becomes of the other callers of the stream.
CallerStreamServesCaller ==
    \A g \in GwStreams :
        server_stream[g] # NoStream =>
            \E s \in ServerStreams : server_stream[g] = s /\ serves[s] = asked[g]

\* A weak_ptr in the cache that is not expired points to a stream of the id
\* it is filed under.
CacheEntryServesItsId ==
    \A id \in ServerIds, s \in ServerStreams :
        stream_cache[id] = s => serves[s] = id

\* As long as no two requests for an id overlapped, its callers share one
\* ServerStream.  (Overlapping requests each make a stream, and CacheStream
\* does not replace the first one's entry even if it is expired.)
SharedUnlessRaced ==
    \A id \in ServerIds \ raced : \A s, t \in ServerStreams :
        serves[s] = id /\ serves[t] = id => s = t

\* Callers whose get action has not reported.
Unanswered == {g \in GwStreams : get_state[g] # "none"}

\* Those of them for which the cloud is asked or will be.
Doubtful ==
    {g \in Unanswered :
        \/ get_state[g] \in {"kRequestServer", "kGetServers", "kError"}
        \/ get_state[g] = "kCheckServerExists" /\ asked[g] \notin known}

\* The manager keeps the promise of StreamService: each caller is answered
\* once, by a stream that only callers of its server have, or by an error,
\* which never comes if the server was in the registry when it was asked for;
\* whatever requests overlap, streams fail and restarts come between.
Service == INSTANCE StreamService
               WITH Callers <- GwStreams, Servers <- ServeKinds,
                    Streams <- ServerStreams, Described <- ServerEndpoints,
                    resolved <- known, wants <- asked, waiting <- Unanswered,
                    doubtful <- Doubtful, stream <- server_stream

ServiceSpec == Service!Spec

\* A server that was made for an endpoint list is used again when the list is
\* asked for again ("existing or newly created server by its descriptor",
\* server_stream_manager.h).
EndpointsServerReused == \A ep \in ServerEndpoints : gateway_cloud[ep] <= 1

\* Every get action reports Result or Error to its caller.
GetStreamEnds ==
    \A g \in GwStreams : get_state[g] # "none" ~> get_state[g] = "none"

============================================================================
