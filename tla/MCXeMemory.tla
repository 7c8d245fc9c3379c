----------------------------- MODULE MCXeMemory -----------------------------
(* Instances of XeMemory for TLC.                                          *)
EXTENDS XeMemory
=============================================================================
