---------------------------- MODULE MCSimDataBus ----------------------------
(* Small instances of SimDataBus for TLC.                                   *)
EXTENDS SimDataBus, TLC

Symmetry == Permutations(Devices) \cup Permutations(Ports)

============================================================================
