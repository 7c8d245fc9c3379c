---------------------------- MODULE MCXeKernels -----------------------------
(* Instances of XeKernels for TLC: what each thread calls.                 *)
EXTENDS XeKernels

(* Every thread calls any of the entry points: one its own, or a shared    *)
(* one, where it may wait in call_once behind the other's compilation.     *)
AnyEntry == [Threads -> Kernels]

(* Every thread calls xeCublasSgemm.                                       *)
SgemmOnly == [Threads -> {"sgemm"}]
=============================================================================
