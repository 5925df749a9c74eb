--------------------------- MODULE MCSimGateway ---------------------------
(* Small instances of SimGateway for TLC.                                   *)
EXTENDS SimGateway, TLC

CONSTANTS a1, c1, c2, i1

DistinctIdentity == [k \in ServeKinds |-> k]

\* Two clients share the access point.
TwoTransports == {<<a1, c1, i1>>, <<a1, c2, i1>>}

Symmetry == Permutations(GwStreams) \cup Permutations(Clients)

============================================================================
