----------------------------- MODULE XeRuntime ------------------------------
(***************************************************************************)
(* Copies, launches, modules and errors: xeCudaMemcpy, the synchronising   *)
(* calls and the error variable of src/xecuda_runtime.cpp, the module and  *)
(* launch calls of src/xecuda_l0.cpp, and the events of xecuda_stream.cpp. *)
(* The backend is up (XocBackend), the buffers exist (XeMemory), and any   *)
(* number of threads share one in-order command queue.                     *)
(*                                                                         *)
(* A buffer and what a copy reads hold one value: the buffer or the host   *)
(* block it first came from.  A command carries what its enqueue call was  *)
(* given.                                                                  *)
(*                                                                         *)
(* Definitions that no action uses (CopyReadDoneUnwaited, ...) are faulty  *)
(* variants of the definition they precede: the README says which property *)
(* notices each of them.                                                   *)
(***************************************************************************)
EXTENDS Naturals, Sequences

CONSTANTS
  Threads,    \* each with a host block of its own
  Buffers,    \* cl_mem handles
  Programs,   \* cl_program handles the driver can hand out
  None,
  MaxErrors,  \* bound on the errors a thread raises
  MayFail     \* the external calls that may fail in this instance

Fallible == {"read", "write", "launch", "build", "createKernel", "malloc"}

ASSUME RuntimeAssumption ==
  /\ Threads \cap Buffers = {} /\ None \notin Threads \cup Programs
  /\ MaxErrors \in Nat
  /\ MayFail \subseteq Fallible

VARIABLES
  content,    \* content[b]: the value buffer b holds
  tmp,        \* tmp[t]: what a copy of t read, into host memory or a temporary
  jobs,       \* the in-order command queue
  pc,         \* where each thread is
  src, dst,   \* the places the call of t copies or computes from and to
  seen,       \* the values src[t] held since a copy out of it began (history)
  live,       \* programs the driver holds
  prog,       \* prog[t]: the program t has compiled and not yet returned
  held,       \* programs returned to callers
  lastError,  \* g_lastError, named by the thread that set it
  raised, reported,  \* errors of t: set, and fetched by anybody (history)
  recorded    \* commands of t that its last event was recorded before (history)

memory == <<content, tmp>>
calls == <<src, dst, seen>>
modules == <<live, prog, held>>
errors == <<lastError, raised, reported>>
vars == <<memory, jobs, pc, calls, modules, errors, recorded>>

Places == Threads \cup Buffers
Values == Places \cup {"computed"}

Transition(t, from, to) ==
  /\ pc[t] = from
  /\ pc' = [pc EXCEPT ![t] = to]

(* The parameters of a call that is over are forgotten.                    *)
Forget(t) ==
  /\ src' = [src EXCEPT ![t] = t] /\ dst' = [dst EXCEPT ![t] = t]
  /\ seen' = [seen EXCEPT ![t] = {}]

Enqueue(t, op) == jobs' = Append(jobs, [op EXCEPT !.by = t])
Finished(t) == \A i \in DOMAIN jobs : jobs[i].by # t

(* clEnqueueReadBuffer, clEnqueueWriteBuffer, clEnqueueNDRangeKernel and   *)
(* what clFinish waits for.                                                *)
Read(from) == [op |-> "read", by |-> None, from |-> from]
Write(to, val) == [op |-> "write", by |-> None, to |-> to, val |-> val]
Kernel(to) == [op |-> "kernel", by |-> None, to |-> to]
Marker == [op |-> "marker", by |-> None]

Init ==
  /\ content = [b \in Buffers |-> b]
  /\ tmp = [t \in Threads |-> None]
  /\ jobs = << >>
  /\ pc = [t \in Threads |-> "idle"]
  /\ src = [t \in Threads |-> t] /\ dst = [t \in Threads |-> t]
  /\ seen = [t \in Threads |-> {}]
  /\ live = {} /\ held = {} /\ prog = [t \in Threads |-> None]
  /\ lastError = None
  /\ raised = [t \in Threads |-> 0] /\ reported = [t \in Threads |-> 0]
  /\ recorded = [t \in Threads |-> {}]

-----------------------------------------------------------------------------
(* xeCudaMemcpy                                                            *)

(* Host to device writes, device to host and device to device read first.  *)
CopyCall(t) ==
  /\ \E s \in Buffers \cup {t}, d \in Buffers \cup {t} :
       /\ s # d
       /\ src' = [src EXCEPT ![t] = s] /\ dst' = [dst EXCEPT ![t] = d]
       /\ seen' = [seen EXCEPT ![t] = IF s = t THEN {} ELSE {content[s]}]
       /\ Transition(t, "idle",
            IF s = t THEN "put" ELSE IF d = t THEN "read" ELSE "alloc")
  /\ UNCHANGED <<memory, jobs, modules, errors, recorded>>

CopyAlloc(t) ==
  /\ \/ Transition(t, "alloc", "read")
     \/ "malloc" \in MayFail /\ Transition(t, "alloc", "idle")
  /\ IF pc'[t] = "idle" THEN Forget(t) ELSE UNCHANGED calls
  /\ UNCHANGED <<memory, jobs, modules, errors, recorded>>

(* A blocking read: the call that enqueues it waits for it.                *)
CopyRead(t) ==
  /\ \/ Transition(t, "read", "reading") /\ Enqueue(t, Read(src[t])) /\ UNCHANGED calls
     \/ "read" \in MayFail /\ Transition(t, "read", "idle") /\ UNCHANGED jobs /\ Forget(t)
  /\ UNCHANGED <<memory, modules, errors, recorded>>

CopyReadDoneUnwaited(t) ==
  /\ Transition(t, "reading", IF dst[t] = t THEN "got" ELSE "store")
  /\ UNCHANGED <<memory, jobs, calls, modules, errors, recorded>>

CopyReadDone(t) ==
  /\ Finished(t)
  /\ Transition(t, "reading", IF dst[t] = t THEN "got" ELSE "store")
  /\ UNCHANGED <<memory, jobs, calls, modules, errors, recorded>>

(* The caller of a copy to the host has its data.                          *)
CopyReturn(t) ==
  /\ Transition(t, "got", "idle")
  /\ tmp' = [tmp EXCEPT ![t] = None]
  /\ Forget(t)
  /\ UNCHANGED <<content, jobs, modules, errors, recorded>>

(* A blocking write, of the host block or of the temporary, which is freed *)
(* whether the write succeeds or not.                                      *)
CopyWrite(t) ==
  /\ \/ Transition(t, "put", "wait") /\ Enqueue(t, Write(dst[t], t))
     \/ Transition(t, "store", "wait") /\ Enqueue(t, Write(dst[t], tmp[t]))
     \/ /\ "write" \in MayFail
        /\ Transition(t, "put", "idle") \/ Transition(t, "store", "idle")
        /\ UNCHANGED jobs
  /\ tmp' = [tmp EXCEPT ![t] = None]
  /\ Forget(t)
  /\ UNCHANGED <<content, modules, errors, recorded>>

(* Any other kind sets g_lastError, which no other failure does.           *)
CopyUnknownKind(t) ==
  /\ pc[t] = "idle" /\ raised[t] < MaxErrors
  /\ lastError' = t
  /\ raised' = [raised EXCEPT ![t] = @ + 1]
  /\ UNCHANGED <<memory, jobs, pc, calls, modules, reported, recorded>>

-----------------------------------------------------------------------------
(* Launching and waiting                                                   *)

(* xeL0LaunchKernel: of the three group counts only the first is used.     *)
LaunchKernel(t) ==
  /\ \/ /\ Transition(t, "idle", "sync")
        /\ \E d \in Buffers : Enqueue(t, Kernel(d))
     \/ "launch" \in MayFail /\ pc[t] = "idle" /\ UNCHANGED <<pc, jobs>>
  /\ UNCHANGED <<memory, calls, modules, errors, recorded>>

(* xeCudaStreamSynchronize and xeCudaDeviceSynchronize.                    *)
SynchronizeCall(t) ==
  /\ Transition(t, "idle", "sync")
  /\ UNCHANGED <<memory, jobs, calls, modules, errors, recorded>>

SyncUnwaited(t) ==
  /\ Transition(t, "sync", "idle")
  /\ UNCHANGED <<memory, jobs, calls, modules, errors, recorded>>

(* gpuSync: clFinish returns once all that was queued before it has run.   *)
Sync(t) ==
  /\ Transition(t, "sync", "wait") /\ Enqueue(t, Marker)
  /\ UNCHANGED <<memory, calls, modules, errors, recorded>>

Wait(t) ==
  /\ Finished(t)
  /\ Transition(t, "wait", "idle")
  /\ UNCHANGED <<memory, jobs, calls, modules, errors, recorded>>

(* xeCudaEventRecord takes the host's time: the event comes after whatever *)
(* the thread has no command in the queue of.                              *)
EventRecord(t) ==
  /\ pc[t] = "idle"
  /\ recorded' = [recorded EXCEPT ![t] = {i \in DOMAIN jobs : jobs[i].by = t}]
  /\ UNCHANGED <<memory, jobs, pc, calls, modules, errors>>

-----------------------------------------------------------------------------
(* xeL0CreateModuleFromSpirv                                               *)

(* gpuCompileProgram releases a program that does not build.               *)
CompileProgram(t) ==
  /\ \/ \E p \in Programs \ live :
          /\ Transition(t, "idle", "createKernel")
          /\ live' = live \cup {p} /\ prog' = [prog EXCEPT ![t] = p]
     \/ /\ "build" \in MayFail /\ pc[t] = "idle"
        /\ UNCHANGED <<pc, live, prog>>
  /\ UNCHANGED <<memory, jobs, calls, held, errors, recorded>>

CreateKernelKeeping(t) ==
  /\ Transition(t, "createKernel", "idle")
  /\ \/ held' = held \cup {prog[t]}
     \/ "createKernel" \in MayFail /\ UNCHANGED held
  /\ prog' = [prog EXCEPT ![t] = None]
  /\ UNCHANGED <<memory, jobs, calls, live, errors, recorded>>

CreateKernel(t) ==
  /\ Transition(t, "createKernel", "idle")
  /\ \/ held' = held \cup {prog[t]} /\ UNCHANGED live
     \/ /\ "createKernel" \in MayFail
        /\ live' = live \ {prog[t]} /\ UNCHANGED held
  /\ prog' = [prog EXCEPT ![t] = None]
  /\ UNCHANGED <<memory, jobs, calls, errors, recorded>>

-----------------------------------------------------------------------------
(* xeCudaGetLastError: the thread that asks plays no part.                 *)
GetLastErrorKeeping ==
  /\ lastError # None
  /\ reported' = [reported EXCEPT ![lastError] = @ + 1]
  /\ UNCHANGED <<memory, jobs, pc, calls, modules, lastError, raised, recorded>>

GetLastError ==
  /\ lastError # None
  /\ reported' = [reported EXCEPT ![lastError] = @ + 1]
  /\ lastError' = None
  /\ UNCHANGED <<memory, jobs, pc, calls, modules, raised, recorded>>

(* The device runs the first command of the queue.                         *)
Execute ==
  /\ jobs # << >>
  /\ LET job == Head(jobs) IN
       /\ content' = CASE job.op = "write" -> [content EXCEPT ![job.to] = job.val]
                       [] job.op = "kernel" -> [content EXCEPT ![job.to] = "computed"]
                       [] OTHER -> content
       /\ tmp' = IF job.op = "read" THEN [tmp EXCEPT ![job.by] = content[job.from]] ELSE tmp
  /\ seen' = [t \in Threads |->
                IF seen[t] = {} THEN {} ELSE seen[t] \cup {content'[src[t]]}]
  /\ jobs' = Tail(jobs)
  /\ UNCHANGED <<pc, src, dst, modules, errors, recorded>>

-----------------------------------------------------------------------------
CopyCode(t) ==
  \/ CopyCall(t) \/ CopyAlloc(t) \/ CopyRead(t) \/ CopyReadDone(t)
  \/ CopyReturn(t) \/ CopyWrite(t) \/ CopyUnknownKind(t)
L0Code(t) == LaunchKernel(t) \/ CompileProgram(t) \/ CreateKernel(t)
SyncCode(t) == SynchronizeCall(t) \/ Sync(t) \/ Wait(t) \/ EventRecord(t)

Next ==
  \/ \E t \in Threads : CopyCode(t) \/ L0Code(t) \/ SyncCode(t)
  \/ GetLastError \/ Execute

Spec == Init /\ [][Next]_vars
-----------------------------------------------------------------------------
(* Properties                                                              *)

Steps == {"idle", "put", "alloc", "read", "reading", "got", "store", "wait", "sync",
          "createKernel"}

(* The values every variable may take.                                     *)
TypeOK ==
  /\ content \in [Buffers -> Values] /\ tmp \in [Threads -> Values \cup {None}]
  /\ \A i \in DOMAIN jobs : jobs[i].by \in Threads
  /\ pc \in [Threads -> Steps]
  /\ src \in [Threads -> Places] /\ dst \in [Threads -> Places]
  /\ seen \in [Threads -> SUBSET Values]
  /\ live \subseteq Programs /\ held \subseteq Programs
  /\ prog \in [Threads -> Programs \cup {None}]
  /\ lastError \in Threads \cup {None}
  /\ raised \in [Threads -> 0..MaxErrors] /\ reported \in [Threads -> 0..MaxErrors]
  /\ recorded \in [Threads -> SUBSET Nat]

(* A device-to-device copy is a read and a write with other threads'       *)
(* commands in between (xecuda_runtime.cpp:178-186); even so, what it, or a *)
(* copy to the host, delivers is what the source held at some moment of    *)
(* the call.                                                               *)
CopiedValueWasThere ==
  \A t \in Threads : pc[t] \in {"got", "store"} => tmp[t] \in seen[t]

(* Every call waits for the commands it enqueued.  That is why             *)
(* xeCudaEventSynchronize may do nothing, and why an event recorded with   *)
(* the host's clock comes after the work of the thread that records it     *)
(* (xecuda_stream.cpp:26-36, xecuda_l0.cpp:106-109).                       *)
EventsFollowWork ==
  \A t \in Threads : recorded[t] = {} /\ (pc[t] = "idle" => Finished(t))

(* An error is fetched at most once, whoever asks, and the variable never  *)
(* names one that was fetched (xecuda_runtime.cpp:191, 245).               *)
ErrorsReportedOnce ==
  \A t \in Threads :
    reported[t] + (IF lastError = t THEN 1 ELSE 0) <= raised[t]

(* Whichever of compiling, building and creating the kernel failed, the    *)
(* driver holds the programs that callers hold and those of running calls, *)
(* and no other (xecuda_l0.cpp:70-81, xecuda_ocl.h:269-284).               *)
ProgramsAccounted ==
  live = held \cup ({prog[t] : t \in Threads} \ {None})
=============================================================================
