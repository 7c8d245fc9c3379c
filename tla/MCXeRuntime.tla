---------------------------- MODULE MCXeRuntime -----------------------------
(* Instances of XeRuntime for TLC: threads, buffers and programs are model *)
(* values that may be exchanged.                                           *)
EXTENDS XeRuntime, TLC

Interchangeable ==
  Permutations(Threads) \cup Permutations(Buffers) \cup Permutations(Programs)
=============================================================================
