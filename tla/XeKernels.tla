----------------------------- MODULE XeKernels ------------------------------
(***************************************************************************)
(* The entry points that run a built-in OpenCL kernel: xeCublasSgemm and   *)
(* xeCudaMatVecQ4KM of src/xecuda_blas.cpp and xeCudaMemset of             *)
(* src/xecuda_runtime.cpp.  Each kernel is one static cl_kernel of the     *)
(* process, compiled under std::call_once by the first caller; a call      *)
(* sets its arguments one clSetKernelArg at a time, launches, and waits.   *)
(* The arguments live in the kernel object, so a launch runs with whatever *)
(* the object holds at that moment.                                        *)
(*                                                                         *)
(* Arguments are grouped by what they carry: the sizes, the input buffers  *)
(* (or the fill value), the output buffer, the scalars.  A value is the    *)
(* call it belongs to, which is named by its thread.                       *)
(*                                                                         *)
(* Definitions that no action uses (SyncNotWaiting, SetArgButLast, ...)    *)
(* are faulty variants of the definition they precede: the README says     *)
(* which property notices each of them.                                    *)
(***************************************************************************)
EXTENDS Naturals, Sequences

CONSTANTS
  Threads,
  Assignments, \* the functions entryOf may be in this instance
  NoCall,      \* an argument that was never set
  MaxEpoch,    \* bound on the number of times the backend comes up
  MayFail      \* the external calls that may fail in this instance

Kernels == {"sgemm", "matvec", "memset"}
Fallible == {"compile", "buffer", "write", "launch", "read"}

ASSUME KernelsAssumption ==
  /\ Assignments \subseteq [Threads -> Kernels]
  /\ NoCall \notin Threads
  /\ MaxEpoch \in Nat \ {0}
  /\ MayFail \subseteq Fallible

VARIABLES
  entryOf,   \* entryOf[t]: the entry point thread t calls, again and again
  up,        \* xoc::isInitialized()
  epoch,     \* which OpenCL context is, or was last, the backend's
  once,      \* the once_flag of each kernel: unset, running, done
  kernel,    \* the cl_kernel: the epoch of its context, 0 for nullptr
  args,      \* the arguments each kernel object holds
  jobs,      \* the in-order command queue
  pc,        \* where each thread is
  nextArg,   \* the position of the next argument to set
  temps,     \* the temporaries of xeCudaMatVecQ4KM that exist
  out,       \* out[t]: the calls whose arguments produced t's output
  refused,   \* the launch of t's call was refused (history)
  ret        \* what t's last call returned

vars == <<entryOf, up, epoch, once, kernel, args, jobs, pc, nextArg, temps, out, refused, ret>>
backend == <<entryOf, up, epoch>>

Temporaries == {"q4", "x", "y"}
Steps == {"idle", "ensure", "compile", "alloc", "write", "arg", "launch", "sync",
          "read", "free"}

(* The order of the clSetKernelArg calls.                                  *)
ArgOrder ==
  [sgemm  |-> <<"dims", "in", "out", "scale">>,
   matvec |-> <<"in", "out", "dims">>,
   memset |-> <<"out", "in", "dims">>]

ArgsOf(k) == {ArgOrder[k][i] : i \in DOMAIN ArgOrder[k]}

K(t) == entryOf[t]

Transition(t, from, to) ==
  /\ pc[t] = from
  /\ pc' = [pc EXCEPT ![t] = to]

Return(t, from, r) ==
  /\ Transition(t, from, "idle")
  /\ ret' = [ret EXCEPT ![t] = r]

Init ==
  /\ entryOf \in Assignments
  /\ up = TRUE /\ epoch = 1
  /\ once = [k \in Kernels |-> "unset"]
  /\ kernel = [k \in Kernels |-> 0]
  /\ args = [k \in Kernels |-> [a \in ArgsOf(k) |-> NoCall]]
  /\ jobs = << >>
  /\ pc = [t \in Threads |-> "idle"]
  /\ nextArg = [t \in Threads |-> 1]
  /\ temps = [t \in Threads |-> {}]
  /\ out = [t \in Threads |-> {}]
  /\ refused = [t \in Threads |-> FALSE]
  /\ ret = [t \in Threads |-> "none"]

-----------------------------------------------------------------------------
(* Entering a call and getting the kernel                                  *)

(* Null arguments, an unsupported transposition and a backend that is down *)
(* return an error and change nothing.                                     *)
Call(t) ==
  /\ up
  /\ Transition(t, "idle", "ensure")
  /\ nextArg' = [nextArg EXCEPT ![t] = 1]
  /\ out' = [out EXCEPT ![t] = {}]
  /\ refused' = [refused EXCEPT ![t] = FALSE]
  /\ ret' = [ret EXCEPT ![t] = "none"]
  /\ UNCHANGED <<backend, once, kernel, args, jobs, temps>>

(* std::call_once: the first caller runs the compilation, the others wait. *)
OnceEnter(t) ==
  /\ once[K(t)] = "unset"
  /\ Transition(t, "ensure", "compile")
  /\ once' = [once EXCEPT ![K(t)] = "running"]
  /\ UNCHANGED <<backend, kernel, args, jobs, nextArg, temps, out, refused, ret>>

CompileFlagOnSuccess(t) ==
  /\ Transition(t, "compile", "ensure")
  /\ \/ kernel' = [kernel EXCEPT ![K(t)] = epoch] /\ once' = [once EXCEPT ![K(t)] = "done"]
     \/ "compile" \in MayFail /\ UNCHANGED <<kernel, once>>
  /\ UNCHANGED <<backend, args, jobs, nextArg, temps, out, refused, ret>>

(* Whatever comes out, the flag is spent: a failure is final.              *)
Compile(t) ==
  /\ Transition(t, "compile", "ensure")
  /\ once' = [once EXCEPT ![K(t)] = "done"]
  /\ \/ kernel' = [kernel EXCEPT ![K(t)] = epoch]
     \/ "compile" \in MayFail /\ UNCHANGED kernel
  /\ UNCHANGED <<backend, args, jobs, nextArg, temps, out, refused, ret>>

OnceDone(t) ==
  /\ once[K(t)] = "done"
  /\ \/ /\ kernel[K(t)] # 0
        /\ Transition(t, "ensure", IF K(t) = "matvec" THEN "alloc" ELSE "arg")
        /\ UNCHANGED ret
     \/ kernel[K(t)] = 0 /\ Return(t, "ensure", "error")
  /\ UNCHANGED <<backend, once, kernel, args, jobs, nextArg, temps, out, refused>>

-----------------------------------------------------------------------------
(* Setting the arguments, launching, waiting                               *)

SetArgButLast(t) ==
  LET order == ArgOrder[K(t)] IN
  /\ Transition(t, "arg", IF nextArg[t] = Len(order) - 1 THEN "launch" ELSE "arg")
  /\ args' = [args EXCEPT ![K(t)][order[nextArg[t]]] = t]
  /\ nextArg' = [nextArg EXCEPT ![t] = @ + 1]
  /\ UNCHANGED <<backend, once, kernel, jobs, temps, out, refused, ret>>

SetArg(t) ==
  LET order == ArgOrder[K(t)] IN
  /\ Transition(t, "arg", IF nextArg[t] = Len(order) THEN "launch" ELSE "arg")
  /\ args' = [args EXCEPT ![K(t)][order[nextArg[t]]] = t]
  /\ nextArg' = [nextArg EXCEPT ![t] = @ + 1]
  /\ UNCHANGED <<backend, once, kernel, jobs, temps, out, refused, ret>>

(* clEnqueueNDRangeKernel takes the arguments the object holds now.  It    *)
(* refuses a kernel of another context.                                    *)
LaunchAccepted(t) ==
  /\ kernel[K(t)] = epoch
  /\ Transition(t, "launch", "sync")
  /\ jobs' = Append(jobs, [by |-> t, kernel |-> K(t), args |-> args[K(t)]])
  /\ UNCHANGED <<backend, once, kernel, args, nextArg, temps, out, refused, ret>>

(* Only xeCublasSgemm looks at the result of the launch.                   *)
LaunchRefused(t) ==
  /\ kernel[K(t)] # epoch \/ "launch" \in MayFail
  /\ \/ K(t) = "sgemm" /\ Return(t, "launch", "error")
     \/ K(t) # "sgemm" /\ Transition(t, "launch", "sync") /\ UNCHANGED ret
  /\ refused' = [refused EXCEPT ![t] = TRUE]
  /\ UNCHANGED <<backend, once, kernel, args, jobs, nextArg, temps, out>>

(* clFinish.  What other threads enqueued later is not waited for here,    *)
(* which only leaves more interleavings.                                   *)
Finished(t) == \A i \in DOMAIN jobs : jobs[i].by # t

SyncNotWaiting(t) ==
  /\ \/ K(t) = "matvec" /\ Transition(t, "sync", "read") /\ UNCHANGED ret
     \/ K(t) # "matvec" /\ Return(t, "sync", "success")
  /\ UNCHANGED <<backend, once, kernel, args, jobs, nextArg, temps, out, refused>>

Sync(t) ==
  /\ Finished(t)
  /\ \/ K(t) = "matvec" /\ Transition(t, "sync", "read") /\ UNCHANGED ret
     \/ K(t) # "matvec" /\ Return(t, "sync", "success")
  /\ UNCHANGED <<backend, once, kernel, args, jobs, nextArg, temps, out, refused>>

-----------------------------------------------------------------------------
(* The temporaries of xeCudaMatVecQ4KM                                     *)

MatVecAllocLeaving(t) ==
  /\ \E got \in SUBSET Temporaries :
       /\ got = Temporaries \/ "buffer" \in MayFail
       /\ temps' = [temps EXCEPT ![t] = got]
       /\ \/ got = Temporaries /\ Transition(t, "alloc", "write") /\ UNCHANGED ret
          \/ got # Temporaries /\ Return(t, "alloc", "error")
  /\ UNCHANGED <<backend, once, kernel, args, jobs, nextArg, out, refused>>

(* All three gpuMalloc calls are made before any of them is tested.        *)
MatVecAlloc(t) ==
  /\ \E got \in SUBSET Temporaries :
       /\ got = Temporaries \/ "buffer" \in MayFail
       /\ temps' = [temps EXCEPT ![t] = got]
       /\ \/ got = Temporaries /\ Transition(t, "alloc", "write") /\ UNCHANGED ret
          \/ /\ got # Temporaries
             /\ Transition(t, "alloc", "free")
             /\ ret' = [ret EXCEPT ![t] = "error"]
  /\ UNCHANGED <<backend, once, kernel, args, jobs, nextArg, out, refused>>

MatVecWrite(t) ==
  /\ \/ Transition(t, "write", "arg") /\ UNCHANGED ret
     \/ /\ "write" \in MayFail
        /\ Transition(t, "write", "free")
        /\ ret' = [ret EXCEPT ![t] = "error"]
  /\ UNCHANGED <<backend, once, kernel, args, jobs, nextArg, temps, out, refused>>

(* A blocking read of dY, behind everything already in the queue.          *)
MatVecRead(t) ==
  /\ Transition(t, "read", "free")
  /\ \/ Finished(t) /\ ret' = [ret EXCEPT ![t] = "success"]
     \/ "read" \in MayFail /\ ret' = [ret EXCEPT ![t] = "error"]
  /\ UNCHANGED <<backend, once, kernel, args, jobs, nextArg, temps, out, refused>>

(* gpuFree(dQ4), gpuFree(dX), gpuFree(dY), on every path that allocated.   *)
MatVecFree(t) ==
  /\ Transition(t, "free", "idle")
  /\ temps' = [temps EXCEPT ![t] = {}]
  /\ UNCHANGED <<backend, once, kernel, args, jobs, nextArg, out, refused, ret>>

-----------------------------------------------------------------------------
(* The device runs the queue in order: the output buffer among the job's   *)
(* arguments gets a result of all of them.                                 *)
BuffersExist(job) ==
  job.kernel = "matvec" => \A a \in {"in", "out"} : temps[job.args[a]] = Temporaries

Execute ==
  /\ jobs # << >>
  /\ LET job == Head(jobs) IN
       out' = IF BuffersExist(job)
              THEN [out EXCEPT ![job.args["out"]] = {job.args[a] : a \in ArgsOf(job.kernel)}]
              ELSE out
  /\ jobs' = Tail(jobs)
  /\ UNCHANGED <<backend, once, kernel, args, pc, nextArg, temps, refused, ret>>

(* xeL0Shutdown, called when no other call is running, and the next        *)
(* initialisation.  The static kernels keep their handles.                 *)
Shutdown ==
  /\ up /\ epoch < MaxEpoch
  /\ \A t \in Threads : pc[t] = "idle"
  /\ up' = FALSE
  /\ UNCHANGED <<entryOf, epoch, once, kernel, args, jobs, pc, nextArg, temps, out, refused, ret>>

Reinit ==
  /\ ~up
  /\ up' = TRUE /\ epoch' = epoch + 1
  /\ UNCHANGED <<entryOf, once, kernel, args, jobs, pc, nextArg, temps, out, refused, ret>>

-----------------------------------------------------------------------------
CallCode(t) ==
  \/ OnceEnter(t) \/ Compile(t) \/ OnceDone(t)
  \/ SetArg(t) \/ LaunchAccepted(t) \/ LaunchRefused(t) \/ Sync(t)
  \/ MatVecAlloc(t) \/ MatVecWrite(t) \/ MatVecRead(t) \/ MatVecFree(t)

Next ==
  \/ \E t \in Threads : Call(t) \/ CallCode(t)
  \/ Execute \/ Shutdown \/ Reinit

Spec == Init /\ [][Next]_vars

(* A thread inside a call goes on, and so does the device; nobody has to   *)
(* start a call or to shut the backend down.                               *)
Fairness == WF_vars(Execute) /\ \A t \in Threads : WF_vars(CallCode(t))

FairSpec == Spec /\ Fairness
-----------------------------------------------------------------------------
(* Properties                                                              *)

(* The values every variable may take; in particular no job ever runs with *)
(* an argument that was never set.                                         *)
TypeOK ==
  /\ entryOf \in Assignments
  /\ up \in BOOLEAN /\ epoch \in 1..MaxEpoch
  /\ once \in [Kernels -> {"unset", "running", "done"}]
  /\ kernel \in [Kernels -> 0..MaxEpoch]
  /\ \A k \in Kernels : args[k] \in [ArgsOf(k) -> Threads \cup {NoCall}]
  /\ \A i \in DOMAIN jobs : jobs[i].by \in Threads /\ jobs[i].kernel \in Kernels
  /\ pc \in [Threads -> Steps]
  /\ \A t \in Threads : nextArg[t] \in 1..(Len(ArgOrder[K(t)]) + 1)
  /\ temps \in [Threads -> SUBSET Temporaries]
  /\ out \in [Threads -> SUBSET Threads]
  /\ refused \in [Threads -> BOOLEAN]
  /\ ret \in [Threads -> {"none", "success", "error"}]

(* No other thread uses the entry point of t.                              *)
Alone(t) == \A u \in Threads \ {t} : K(u) # K(t)

Returned(t) == pc[t] = "idle" /\ ret[t] = "success"

(* A call that returned xeCudaSuccess left a result computed from its own  *)
(* arguments and from no other call's, while other entry points were       *)
(* running: "Computes C = alpha * op(A) * op(B) + beta * C"                *)
(* (xecuda_blas.h:28), "Computes y = W_q4 * x" (xecuda_blas.h:44).         *)
SuccessMeansComputed == \A t \in Threads : Returned(t) => out[t] = {t}

(* The same for a thread that has its entry point to itself, but for the   *)
(* calls that do not look at their launch's result (xecuda_blas.cpp:183,   *)
(* xecuda_runtime.cpp:159): those either computed the result or had the    *)
(* launch refused, and nothing in between.                                 *)
ComputedOrRefused ==
  \A t \in Threads : Alone(t) /\ Returned(t) =>
    \/ out[t] = {t}
    \/ K(t) # "sgemm" /\ refused[t] /\ out[t] = {}

(* A job still in the queue only names buffers that exist: no path of      *)
(* xeCudaMatVecQ4KM frees its temporaries while its kernel may run         *)
(* (xecuda_blas.cpp:183-192), unless two threads share the kernel object.  *)
QueuedBuffersExist == \A i \in DOMAIN jobs : Alone(jobs[i].by) => BuffersExist(jobs[i])

(* Whichever of its allocations, writes, launch and read failed, a call of *)
(* xeCudaMatVecQ4KM leaves no temporary behind (xecuda_blas.cpp:160-193).  *)
NoTemporaryLeft == \A t \in Threads : pc[t] = "idle" => temps[t] = {}

(* Every call returns: a thread that waits in call_once behind another     *)
(* one's compilation is let through even when that compilation fails, and  *)
(* a refused launch does not leave anybody in clFinish.                    *)
CallsReturn == \A t \in Threads : pc[t] # "idle" ~> pc[t] = "idle"
=============================================================================
