---------------------------- MODULE MCPyDevice ------------------------------
(* Instances of PyDevice for TLC: ids and handles may be exchanged.        *)
EXTENDS PyDevice, TLC

Interchangeable ==
  Permutations(Ids) \cup Permutations(Contexts) \cup Permutations(Queues)
    \cup Permutations(Handles)
=============================================================================
