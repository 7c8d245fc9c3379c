---------------------------- MODULE KernelLaunch ----------------------------
(***************************************************************************)
(* The CPU emulation of a CUDA launch, xeCudaLaunchKernel of               *)
(* include/xecuda_kernel.h: an OpenMP loop over one flat index, from which *)
(* each iteration computes its blockIdx and threadIdx, stores them in the  *)
(* thread_local g_xeWorkContext and calls the kernel, which reads them.    *)
(*                                                                         *)
(* The divisors of the decomposition are products of unsigned int, so they *)
(* wrap at 2^32; UIntRange is that modulus, small in an instance.  The     *)
(* flat index and its bound are unsigned long long and do not wrap here.   *)
(*                                                                         *)
(* Definitions that no action uses (StaticContext, TakeTwice, ...) are     *)
(* faulty variants of the definition they precede: the README says which   *)
(* property notices each of them.                                          *)
(***************************************************************************)
EXTENDS Integers, Sequences

CONSTANTS
  Workers,     \* the threads of the OpenMP team
  Launches,    \* the <<grid, block>> pairs launched; each is an xeDim3
  UIntRange    \* how many values an unsigned int has

UInt == 0..(UIntRange - 1)
Dim3 == UInt \X UInt \X UInt

ASSUME LaunchAssumption ==
  /\ UIntRange \in Nat \ {0}
  /\ Launches \subseteq Dim3 \X Dim3

VARIABLES
  grid, block,   \* the launch
  pc,            \* where each worker is; the caller's own state is in phase
  phase,         \* of the launch: "enter", "loop", "returned", "crashed"
  next,          \* the next flat index to hand out
  cur,           \* the flat index of each worker's iteration
  context,       \* g_xeWorkContext of each worker: blockIdx and threadIdx
  seen,          \* the blockIdx a running kernel has read
  ran            \* how often the kernel ran as <<blockIdx, threadIdx>>

vars == <<grid, block, pc, phase, next, cur, context, seen, ran>>
launch == <<grid, block>>

Zero == <<0, 0, 0>>
Indices(dim) == (0..(dim[1] - 1)) \X (0..(dim[2] - 1)) \X (0..(dim[3] - 1))
Places == Indices(grid) \X Indices(block)
Volume(dim) == dim[1] * dim[2] * dim[3]
Total == Volume(grid) * Volume(block)

Init ==
  /\ \E l \in Launches : grid = l[1] /\ block = l[2]
  /\ pc = [w \in Workers |-> "idle"]
  /\ phase = "enter"
  /\ next = 0
  /\ cur = [w \in Workers |-> 0]
  /\ context = [w \in Workers |-> [bid |-> Zero, tid |-> Zero]]
  /\ seen = [w \in Workers |-> Zero]
  /\ ran = [p \in Places \cup {<<Zero, Zero>>} |-> 0]

-----------------------------------------------------------------------------
(* bx, by, bz, gx, gy, gz: each is flat divided by the product of the      *)
(* dimensions before it, modulo its own.                                   *)
Dims == <<block[1], block[2], block[3], grid[1], grid[2], grid[3]>>

Times(a, b) == (a * b) % UIntRange
ProductBefore ==
  LET bxy == Times(block[1], block[2])
      bxyz == Times(bxy, block[3])
      gx == Times(bxyz, grid[1])
  IN <<1, block[1], bxy, bxyz, gx, Times(gx, grid[2])>>

Component(flat, i) == (flat \div ProductBefore[i]) % Dims[i]

Decompose(flat) ==
  [bid |-> <<Component(flat, 4), Component(flat, 5), Component(flat, 6)>>,
   tid |-> <<Component(flat, 1), Component(flat, 2), Component(flat, 3)>>]

DividesByZero == \E i \in 1..6 : ProductBefore[i] = 0 \/ Dims[i] = 0

-----------------------------------------------------------------------------
(* At most one thread: no loop, the caller runs the kernel itself.         *)
RunAlone ==
  /\ phase = "enter" /\ Total <= 1
  /\ \E w \in Workers : context' = [context EXCEPT ![w] = [bid |-> Zero, tid |-> Zero]]
  /\ ran' = [ran EXCEPT ![<<Zero, Zero>>] = @ + 1]
  /\ phase' = "returned"
  /\ UNCHANGED <<launch, pc, next, cur, seen>>

EnterLoop ==
  /\ phase = "enter" /\ Total > 1
  /\ phase' = "loop"
  /\ UNCHANGED <<launch, pc, next, cur, context, seen, ran>>

(* schedule(dynamic): a free worker takes the next index.                  *)
TakeButLast(w) ==
  /\ phase = "loop" /\ pc[w] = "idle" /\ next < Total - 1
  /\ cur' = [cur EXCEPT ![w] = next]
  /\ next' = next + 1
  /\ pc' = [pc EXCEPT ![w] = "store"]
  /\ UNCHANGED <<launch, phase, context, seen, ran>>

TakeTwice(w) ==
  /\ phase = "loop" /\ pc[w] = "idle" /\ next < Total
  /\ \E n \in {next, next + 1} : next' = n
  /\ cur' = [cur EXCEPT ![w] = next]
  /\ pc' = [pc EXCEPT ![w] = "store"]
  /\ UNCHANGED <<launch, phase, context, seen, ran>>

Take(w) ==
  /\ phase = "loop" /\ pc[w] = "idle" /\ next < Total
  /\ cur' = [cur EXCEPT ![w] = next]
  /\ next' = next + 1
  /\ pc' = [pc EXCEPT ![w] = "store"]
  /\ UNCHANGED <<launch, phase, context, seen, ran>>

(* A zero divisor ends the process.                                        *)
StaticContext(w) ==
  /\ phase = "loop" /\ pc[w] = "store" /\ ~DividesByZero
  /\ context' = [v \in Workers |-> Decompose(cur[w])]
  /\ pc' = [pc EXCEPT ![w] = "kernel"]
  /\ UNCHANGED <<launch, phase, next, cur, seen, ran>>

StoreContext(w) ==
  /\ phase = "loop" /\ pc[w] = "store" /\ ~DividesByZero
  /\ context' = [context EXCEPT ![w] = Decompose(cur[w])]
  /\ pc' = [pc EXCEPT ![w] = "kernel"]
  /\ UNCHANGED <<launch, phase, next, cur, seen, ran>>

Crash(w) ==
  /\ phase = "loop" /\ pc[w] = "store" /\ DividesByZero
  /\ phase' = "crashed"
  /\ UNCHANGED <<launch, pc, next, cur, context, seen, ran>>

(* The kernel reads blockIdx, and threadIdx later on.                      *)
KernelReadsBlock(w) ==
  /\ phase = "loop" /\ pc[w] = "kernel"
  /\ seen' = [seen EXCEPT ![w] = context[w].bid]
  /\ pc' = [pc EXCEPT ![w] = "body"]
  /\ UNCHANGED <<launch, phase, next, cur, context, ran>>

KernelReadsThread(w) ==
  /\ phase = "loop" /\ pc[w] = "body"
  /\ ran' = [ran EXCEPT ![<<seen[w], context[w].tid>>] = @ + 1]
  /\ pc' = [pc EXCEPT ![w] = "idle"]
  /\ UNCHANGED <<launch, phase, next, cur, context, seen>>

(* The end of the parallel loop is a barrier: the launch returns when      *)
(* every iteration is over.                                                *)
ReturnAtLastIndex ==
  /\ phase = "loop" /\ next = Total
  /\ phase' = "returned"
  /\ UNCHANGED <<launch, pc, next, cur, context, seen, ran>>

Return ==
  /\ phase = "loop" /\ next = Total
  /\ \A w \in Workers : pc[w] = "idle"
  /\ phase' = "returned"
  /\ UNCHANGED <<launch, pc, next, cur, context, seen, ran>>

Iteration(w) ==
  \/ Take(w) \/ StoreContext(w) \/ Crash(w)
  \/ KernelReadsBlock(w) \/ KernelReadsThread(w)

Next == RunAlone \/ EnterLoop \/ Return \/ \E w \in Workers : Iteration(w)

Spec == Init /\ [][Next]_vars /\ WF_vars(Next)

-----------------------------------------------------------------------------
(* Properties                                                              *)

(* The values every variable may take; every step of a worker is within    *)
(* the index range of the loop.                                            *)
TypeOK ==
  /\ <<grid, block>> \in Launches
  /\ pc \in [Workers -> {"idle", "store", "kernel", "body"}]
  /\ phase \in {"enter", "loop", "returned", "crashed"}
  /\ next \in 0..Total
  /\ \A w \in Workers : pc[w] # "idle" => cur[w] \in 0..(next - 1)

(* The largest divisor, the product of all dimensions but the grid's last, *)
(* fits an unsigned int, and no dimension is zero.                         *)
DivisorsFit ==
  /\ block[1] * block[2] * block[3] * grid[1] * grid[2] \in 1..(UIntRange - 1)
  /\ grid[3] > 0

RunsOnceEach == \A p \in Places : ran[p] = 1

(* When the launch returns, the kernel has run exactly once as each thread *)
(* of each block, although its index lives in a variable each iteration of *)
(* each worker overwrites (xecuda_kernel.h:60-100): for every launch whose *)
(* divisors fit.                                                           *)
FittingLaunchesAreComplete == DivisorsFit /\ phase = "returned" => RunsOnceEach

(* No two iterations run as the same thread, at any moment of a fitting    *)
(* launch, and a kernel never sees one thread's block with another's index. *)
NoThreadTwice == DivisorsFit => \A p \in DOMAIN ran : ran[p] <= 1

(* A fitting launch comes to its end.                                      *)
FittingLaunchesReturn == DivisorsFit ~> phase = "returned"
=============================================================================
