---------------------------- MODULE PacketRelay ----------------------------
(***************************************************************************)
(* What the gateway promises to a client behind it, without Keys, streams, *)
(* caches or buffers.  The packets of a conversation (a device, a client   *)
(* of the device, a server) are numbered as they come in.  They go out in  *)
(* that order, each at most once, and a packet is passed over only when    *)
(* everything that was waiting for its server in the conversation is lost; *)
(* such a loss concerns one server, or is a restart and takes everything.  *)
(***************************************************************************)
EXTENDS Naturals

CONSTANTS Devices, Clients, ServeKinds

Conversations == Devices \X Clients \X ServeKinds

VARIABLES
    accepted, \* packets taken in
    next,     \* number of the oldest packet that is neither sent nor lost
    sent      \* number of the last packet sent, 0 at first

vars == <<accepted, next, sent>>

Init ==
    /\ accepted = [conv \in Conversations |-> 0]
    /\ next = [conv \in Conversations |-> 1]
    /\ sent = [conv \in Conversations |-> 0]

Accept(conv) ==
    /\ accepted' = [accepted EXCEPT ![conv] = @ + 1]
    /\ UNCHANGED <<next, sent>>

Deliver(conv) ==
    /\ next[conv] <= accepted[conv]
    /\ sent' = [sent EXCEPT ![conv] = next[conv]]
    /\ next' = [next EXCEPT ![conv] = @ + 1]
    /\ UNCHANGED accepted

Lose(convs) ==
    /\ next' = [conv \in Conversations |->
                   IF conv \in convs THEN accepted[conv] + 1 ELSE next[conv]]
    /\ UNCHANGED <<accepted, sent>>

Restart ==
    Lose(Conversations)

Next ==
    \/ \E conv \in Conversations : Accept(conv) \/ Deliver(conv)
    \/ \E k \in ServeKinds :
           \E convs \in SUBSET {conv \in Conversations : conv[3] = k} : Lose(convs)
    \/ Restart

Spec == Init /\ [][Next]_vars

============================================================================
