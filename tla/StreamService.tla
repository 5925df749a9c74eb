--------------------------- MODULE StreamService ---------------------------
(***************************************************************************)
(* What the ServerStreamManager promises to its callers, without get       *)
(* actions, cache, registry or lifetimes.  A caller asks once for a stream *)
(* to a server and is answered once.  It gets a stream that no caller of   *)
(* another server has, or is refused; and a server that the service has    *)
(* resolved, or whose endpoints it is told, is never refused, neither to   *)
(* those that ask for it later nor after a restart.                        *)
(***************************************************************************)
CONSTANTS
    Callers, Servers, Streams,
    Described, \* servers that a caller gives the endpoints of
    NoServer, NoStream

VARIABLES
    resolved, \* servers that need not be looked for any more
    wants,    \* the server a caller asked for
    waiting,  \* callers that are not answered yet
    doubtful, \* those of them that may still be refused
    stream    \* the stream a caller got

vars == <<resolved, wants, waiting, doubtful, stream>>

Init ==
    /\ resolved \in SUBSET Servers
    /\ wants = [g \in Callers |-> NoServer]
    /\ waiting = {}
    /\ doubtful = {}
    /\ stream = [g \in Callers |-> NoStream]

Ask(g, k) ==
    /\ wants[g] = NoServer
    /\ wants' = [wants EXCEPT ![g] = k]
    /\ waiting' = waiting \cup {g}
    /\ \/ UNCHANGED doubtful
       \/ k \notin resolved \cup Described /\ doubtful' = doubtful \cup {g}
    /\ UNCHANGED <<resolved, stream>>

\* Servers are resolved, which takes the doubt from callers of theirs.
Resolve(servers) ==
    /\ resolved' = resolved \cup servers
    /\ doubtful' \in SUBSET doubtful
    /\ \A g \in doubtful \ doubtful' : wants[g] \in resolved'
    /\ UNCHANGED <<wants, waiting, stream>>

Deliver(g, s) ==
    /\ g \in waiting \ doubtful
    /\ \A h \in Callers : stream[h] = s => wants[h] = wants[g]
    /\ waiting' = waiting \ {g}
    /\ stream' = [stream EXCEPT ![g] = s]
    /\ UNCHANGED <<resolved, wants, doubtful>>

Refuse(g) ==
    /\ g \in doubtful
    /\ waiting' = waiting \ {g}
    /\ doubtful' = doubtful \ {g}
    /\ UNCHANGED <<resolved, wants, stream>>

\* Callers go, with their streams; one that waits goes with its answer.
Leave(gs) ==
    /\ gs \cap doubtful = {}
    /\ wants' = [g \in Callers |-> IF g \in gs THEN NoServer ELSE wants[g]]
    /\ stream' = [g \in Callers |-> IF g \in gs THEN NoStream ELSE stream[g]]
    /\ waiting' = waiting \ gs
    /\ UNCHANGED <<resolved, doubtful>>

\* Callers and streams are gone; what was resolved stays so.
Restart ==
    /\ wants' = [g \in Callers |-> NoServer]
    /\ waiting' = {}
    /\ doubtful' = {}
    /\ stream' = [g \in Callers |-> NoStream]
    /\ UNCHANGED resolved

Next ==
    \/ \E g \in Callers, k \in Servers : Ask(g, k)
    \/ \E servers \in SUBSET Servers : Resolve(servers)
    \/ \E g \in Callers, s \in Streams : Deliver(g, s)
    \/ \E g \in Callers : Refuse(g)
    \/ \E gs \in SUBSET Callers : Leave(gs)
    \/ Restart

Spec == Init /\ [][Next]_vars

============================================================================
