---------------------------- MODULE GgmlThreads ----------------------------
(***************************************************************************)
(* How the threads of the reference's CPU operators share one tensor       *)
(* operator (src/tools/ref/ops.cpp): every thread of the pool runs the     *)
(* same function with its own params->ith, does its share, and may meet    *)
(* the others in ggml_barrier.                                             *)
(*                                                                         *)
(* A plan is what one call of an operator does: its threads' programs, the *)
(* cells (elements of tensors and of wdata) it is given, and for each cell *)
(* of the result the inputs it must be computed from.  A program is a      *)
(* sequence of steps; a step is Barrier, SetChunks, Claims, or a function  *)
(* from the cells it writes to the set of cells each is computed from.     *)
(* Claims is the loop over chunks: a thread's first chunk is its own       *)
(* number, and the pool's counter hands out the next ones.                 *)
(*                                                                         *)
(* The work-items of an OpenCL kernel (GpuKernels) are threads of the same *)
(* kind: a barrier of theirs waits for the work-group, plan.team, only.    *)
(* The threads of the reference's pool are one team.                       *)
(*                                                                         *)
(* What is followed is from where each value comes, not the arithmetic:    *)
(* from[c] is the set of inputs cell c has been computed from, Garbage for *)
(* a cell nobody wrote.                                                    *)
(***************************************************************************)
EXTENDS GgmlLayout

CONSTANTS
  Plans,     \* the calls of operators that are considered
  Garbage    \* what a cell comes from that nobody wrote

\* Threads are numbered from 0; programs and chunks are sequences.
IsSequence(s) == Len(s) \in Nat /\ DOMAIN s = 1 .. Len(s)
ASSUME PlansAssumption ==
  \A p \in Plans :
    /\ \E n \in {Cardinality(DOMAIN p.program)} : n \in Nat /\ DOMAIN p.program = Upto(n)
    /\ \A t \in DOMAIN p.program : IsSequence(p.program[t]) /\ IsSequence(p.chunks[t])
    /\ Garbage \notin p.given

VARIABLES
  plan,      \* the call being run (never changes)
  at,        \* at[t]: the step thread t is at
  from,      \* from[c]: the inputs the value of cell c comes from
  next,      \* the pool's counter of chunks
  current    \* current[t]: the chunk thread t works on, or would

vars == <<plan, at, from, next, current>>

Threads == DOMAIN plan.program
Given   == plan.given
Result  == plan.result
Scratch == plan.scratch
Chunks(t) == plan.chunks[t]
Program(t) == plan.program[t]
Teams == {plan.team[t] : t \in Threads}
Team(g) == {t \in Threads : plan.team[t] = g}

Allowed == Given \cup DOMAIN Result \cup Scratch

Init ==
  /\ plan \in Plans
  /\ at = [t \in Threads |-> 1]
  /\ from = [c \in DOMAIN Result \cup Scratch |-> IF c \in Given THEN {c} ELSE {Garbage}]
  /\ next = 0
  /\ current = [t \in Threads |-> t]

Done(t) == at[t] > Len(Program(t))
Marked(t, mark) == ~Done(t) /\ Program(t)[at[t]] = mark
Running(t) == ~Done(t) /\ Program(t)[at[t]] \notin {Barrier, SetChunks, Claims}
Chunking(t) == Marked(t, Claims) /\ current[t] < Len(Chunks(t))

\* The step thread t is about to do or doing: none while it waits or is done.
Doing(t) == IF Running(t) THEN Program(t)[at[t]]
            ELSE IF Chunking(t) THEN Chunks(t)[current[t] + 1] ELSE Idle

Touched(step) == DOMAIN step \cup UNION {step[c] : c \in DOMAIN step}

\* The inputs cell c comes from: an input nobody writes comes from itself.
Origin(c) == IF c \in DOMAIN from THEN from[c]
             ELSE IF c \in Given THEN {c} ELSE {Garbage}

Perform(step) ==
  from' = [c \in DOMAIN from |->
             IF c \in DOMAIN step THEN UNION {Origin(d) : d \in step[c]} ELSE from[c]]

\* A thread does its step.
Work(t) ==
  /\ Running(t)
  /\ Perform(Doing(t))
  /\ at' = [at EXCEPT ![t] = @ + 1]
  /\ UNCHANGED <<plan, next, current>>

\* ggml_barrier, barrier(CLK_LOCAL_MEM_FENCE): nobody passes before the whole
\* team g has arrived.
Meet(g) ==
  /\ \A t \in Team(g) : Marked(t, Barrier)
  /\ at' = [t \in Threads |-> IF t \in Team(g) THEN at[t] + 1 ELSE at[t]]
  /\ UNCHANGED <<plan, from, next, current>>

\* ggml_threadpool_chunk_set: the first chunk nobody starts with.
SetCounter(t) ==
  /\ Marked(t, SetChunks)
  /\ next' = Cardinality(Threads)
  /\ at' = [at EXCEPT ![t] = @ + 1]
  /\ UNCHANGED <<plan, from, current>>

\* The thread does a chunk and takes the next one (ggml_threadpool_chunk_add).
WorkChunk(t) ==
  /\ Chunking(t)
  /\ Perform(Doing(t))
  /\ current' = [current EXCEPT ![t] = next]
  /\ next' = next + 1
  /\ UNCHANGED <<plan, at>>

LeaveChunks(t) ==
  /\ Marked(t, Claims) /\ ~Chunking(t)
  /\ at' = [at EXCEPT ![t] = @ + 1]
  /\ UNCHANGED <<plan, from, next, current>>

Finished == \A t \in Threads : Done(t)

Next ==
  \/ \E g \in Teams : Meet(g)
  \/ \E t \in Threads : Work(t) \/ SetCounter(t) \/ WorkChunk(t) \/ LeaveChunks(t)

\* The pool's threads are threads of the system: each goes on if it can.
Spec == Init /\ [][Next]_vars /\ WF_vars(Next)
-----------------------------------------------------------------------------
(* What makes a plan safe, read off its programs.                          *)

\* The barriers in front of step k of thread t.
BarriersBefore(p, t, k) == Cardinality({j \in 1 .. k - 1 : p.program[t][j] = Barrier})

\* What thread t may do at step k, each with its number if it is a chunk.
Jobs(p, t, k) ==
  LET step == p.program[t][k]
  IN IF step = Claims THEN {<<c, p.chunks[t][c]>> : c \in DOMAIN p.chunks[t]}
     ELSE IF step \in {Barrier, SetChunks} THEN {} ELSE {<<0, step>>}

\* What two threads may do between the same barriers does not conflict; two
\* of them never get the same chunk.
IsOrdered(p) ==
  \A t, u \in DOMAIN p.program : t # u =>
    \A j \in DOMAIN p.program[t], k \in DOMAIN p.program[u] :
      p.team[t] # p.team[u] \/ BarriersBefore(p, t, j) = BarriersBefore(p, u, k) =>
        \A a \in Jobs(p, t, j), b \in Jobs(p, u, k) :
          a[1] = 0 \/ a[1] # b[1] => DOMAIN a[2] \cap Touched(b[2]) = {}

\* The counter is set before a barrier that all who take chunks wait for.
SetsCounterFirst(p) ==
  \A t \in DOMAIN p.program : \A k \in DOMAIN p.program[t] : p.program[t][k] = Claims =>
    /\ \E u \in DOMAIN p.program : \E j \in DOMAIN p.program[u] : p.program[u][j] = SetChunks
    /\ \A u \in DOMAIN p.program : \A j \in DOMAIN p.program[u] : p.program[u][j] = SetChunks =>
         p.team[u] = p.team[t] /\ BarriersBefore(p, u, j) < BarriersBefore(p, t, k)

IsInside(p) ==
  \A t \in DOMAIN p.program : \A k \in DOMAIN p.program[t] : \A a \in Jobs(p, t, k) :
    Touched(a[2]) \subseteq p.given \cup DOMAIN p.result \cup p.scratch

(* The discipline that keeps a call safe whatever the threads do, a       *)
(* condition on its text: barriers between conflicts, the counter set      *)
(* before the first chunk, and no step that leaves its tensors.            *)
Disciplined == IsOrdered(plan) /\ SetsCounterFirst(plan) /\ IsInside(plan)
-----------------------------------------------------------------------------
(* Where the values come from, in every state.                             *)
TypeOK ==
  /\ \A t \in Threads : at[t] \in 1 .. Len(Program(t)) + 1
  /\ \A c \in DOMAIN from : from[c] \subseteq Given \cup {Garbage}
  /\ \A t, u \in Threads : t # u => current[t] # current[u]

(* No thread writes what another one reads or writes at the same time:     *)
(* every conflict of two threads' steps is separated by a barrier.         *)
RaceFree ==
  \A t, u \in Threads :
    t # u => DOMAIN Doing(t) \cap Touched(Doing(u)) = {}

(* No step reaches outside the tensors it was given and the parts of wdata *)
(* it has: the last thread's share is cut, and the indices that rows and   *)
(* offsets are turned into exist.                                          *)
WithinBounds == \A t \in Threads : Touched(Doing(t)) \subseteq Allowed

(* When every thread has returned, each element of the result has been     *)
(* computed, and from exactly the inputs its definition names: whatever    *)
(* the number of threads, nothing is forgotten, taken from a wrong place,  *)
(* or read before it was there.                                            *)
ResultsAreComplete ==
  Finished => \A c \in DOMAIN Result : from[c] = Result[c]

(* Every call of an operator ends, in every thread: no barrier is left     *)
(* waiting for a thread that has returned.                                 *)
CallsEnd == <>Finished
=============================================================================
