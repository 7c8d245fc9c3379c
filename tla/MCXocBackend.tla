---------------------------- MODULE MCXocBackend ----------------------------
(* Instances of XocBackend for TLC: handles and threads are model values.  *)
EXTENDS XocBackend, TLC

Interchangeable ==
  Permutations(Threads) \cup Permutations(Contexts) \cup Permutations(Queues)
=============================================================================
