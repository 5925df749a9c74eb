-------------------------- MODULE OperationQueue --------------------------
(***************************************************************************)
(* What the LoRa driver promises to those who call it, without pipelines,  *)
(* modes or the serial line.  Operations are carried out one at a time, in *)
(* the order of their calls; each reports once, success or failure, and    *)
(* none is passed over.  A call that the driver has no answer to comes to  *)
(* its turn like the others and never reports.  The first operation is the *)
(* driver's own, made by its constructor.                                  *)
(***************************************************************************)
EXTENDS Naturals, Sequences

CONSTANTS
    Operations, \* identities of operations
    First       \* the constructor's

VARIABLES
    queue,  \* the operations that are not over, oldest first, and whether
            \* they will be answered
    outcome \* what an operation reported

vars == <<queue, outcome>>

Init ==
    /\ queue = <<[op |-> First, answered |-> TRUE]>>
    /\ outcome = [o \in Operations |-> IF o = First THEN "pending" ELSE "none"]

\* Another driver is made: what was queued is dropped.
Restart == Init'

\* Only an operation that is over may be called again.
Call(o, answered) ==
    /\ outcome[o] # "pending"
    /\ queue' = Append(queue, [op |-> o, answered |-> answered])
    /\ outcome' = [outcome EXCEPT ![o] = "pending"]

\* The oldest operation is over.
Report(result) ==
    /\ queue # <<>>
    /\ Head(queue).answered
    /\ outcome[Head(queue).op] = "pending"
    /\ queue' = Tail(queue)
    /\ outcome' = [outcome EXCEPT ![Head(queue).op] = result]

\* The oldest operation is one the driver has no answer to.
Forget ==
    /\ queue # <<>>
    /\ ~Head(queue).answered
    /\ queue' = Tail(queue)
    /\ UNCHANGED outcome

Next ==
    \/ \E o \in Operations, answered \in BOOLEAN : Call(o, answered)
    \/ \E result \in {"notified", "failed"} : Report(result)
    \/ Forget
    \/ Restart

Spec == Init /\ [][Next]_vars

============================================================================
