----------------------------- MODULE MCGateway -----------------------------
(* Small instances of Gateway for TLC.                                      *)
EXTENDS Gateway, TLC

\* Every server has an identity of its own.
DistinctIdentity == [k \in ServeKinds |-> k]

\* All endpoint lists hash to one value.
CollidingIdentity ==
    [k \in ServeKinds |-> IF k \in ServerEndpoints THEN "hash" ELSE k]

\* Identities of objects and of devices have no structure.
Symmetry ==
    Permutations(GwStreams) \cup Permutations(ServerStreams)
        \cup Permutations(Devices)

============================================================================
