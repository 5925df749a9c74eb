----------------------- MODULE MCServerStreamManager -----------------------
(* Small instances of ServerStreamManager for TLC.                          *)
EXTENDS ServerStreamManager, TLC

\* Callers, streams and ids are identities without structure, and no property
\* names one: any renaming of them is a symmetry.
Symmetry ==
    Permutations(GwStreams) \cup Permutations(ServerStreams) \cup Permutations(ServerIds)

============================================================================
