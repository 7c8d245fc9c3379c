----------------------------- MODULE XocBackend -----------------------------
(***************************************************************************)
(* The OpenCL backend of include/xecuda_ocl.h: the process-wide g_state,   *)
(* g_func and g_hCL, the steps of init() and of shutdown(), and the        *)
(* callers that go through them: an entry point that initialises lazily    *)
(* and uses the context and the queue (xeCudaMalloc followed by a write),  *)
(* xeCudaFree, and xeL0Shutdown.                                           *)
(*                                                                         *)
(* Nothing in the header locks or orders the accesses to g_state, so each  *)
(* access that another thread can separate from the next one is a step.    *)
(* The OpenCL library is external: dlopen counts references, and every     *)
(* creation returns a handle that is not live, or fails.                   *)
(*                                                                         *)
(* Definitions that no action uses (DlsymUnchecked, KeepFlag, ...) are     *)
(* faulty variants of the definition they precede: the README says which   *)
(* property notices each of them.                                          *)
(***************************************************************************)
EXTENDS Naturals, FiniteSets

CONSTANTS
  Threads,
  Contexts,           \* cl_context values the driver can hand out
  Queues,             \* cl_command_queue values the driver can hand out
  Null,               \* nullptr
  MaxRefs,            \* bound on dlopen references held at once
  MayFail,            \* the external calls that may fail in this instance
  InitPolicies,       \* what initAlone may be in this instance
  ShutdownAlone,      \* TRUE: it shuts down when no other call is running
  FreeAfterShutdown   \* TRUE: the application frees buffers after shutdown

Fallible == {"dlopen", "symbols", "device", "context", "queue", "buffer"}

ASSUME BackendAssumption ==
  /\ IsFiniteSet(Threads) /\ IsFiniteSet(Contexts)
  /\ Null \notin Contexts \cup Queues
  /\ MaxRefs \in Nat \ {0}
  /\ MayFail \subseteq Fallible
  /\ InitPolicies \subseteq BOOLEAN
  /\ {ShutdownAlone, FreeAfterShutdown} \subseteq BOOLEAN

VARIABLES
  initAlone,    \* the application lets one thread at a time initialise
  initialized,  \* g_state.initialized
  context,      \* g_state.context
  queue,        \* g_state.queue
  hCL,          \* g_hCL is not null
  resolved,     \* the pointers of g_func were filled by dlsym
  libRefs,      \* references on the OpenCL library, one per dlopen
  liveCtx,      \* contexts the driver holds
  queueCtx,     \* the context of each live queue, Null for the others
  buf,          \* buf[t]: the context of the buffer t holds, or Null
  tmp,          \* tmp[t]: a handle returned to t and not yet stored
  pc,           \* where each thread is
  refused,      \* how many times clCreateCommandQueue failed (history)
  badCall       \* a call went through g_func with no library (history)

gstate == <<initialized, context, queue, hCL, resolved>>
driver == <<libRefs, liveCtx, queueCtx>>
vars == <<initAlone, gstate, driver, buf, tmp, pc, refused, badCall>>

InitSteps == {"init", "dlopen", "dlsym", "device", "createContext",
              "storeContext", "createQueue", "storeQueue", "setFlag"}
ShutdownSteps == {"relQueue", "relContext", "dlclose", "clearFlag"}
ApiSteps == {"malloc", "write", "free"}
Steps == {"idle"} \cup InitSteps \cup ShutdownSteps \cup ApiSteps

Transition(t, from, to) ==
  /\ pc[t] = from
  /\ pc' = [pc EXCEPT ![t] = to]

(* A call through a pointer of g_func: it needs the library it points into. *)
Callable == resolved /\ libRefs > 0
ThroughGFunc == badCall' = (badCall \/ ~Callable)

(* What the application orders itself: one thread at a time initialises,   *)
(* and shutdown waits for every other call.                                *)
MayEnter(t) ==
  /\ initAlone => \A u \in Threads : pc[u] \notin InitSteps
  /\ ShutdownAlone => \A u \in Threads : pc[u] \notin ShutdownSteps
MayShutdown(t) ==
  /\ ShutdownAlone => \A u \in Threads : pc[u] = "idle"
  /\ ~FreeAfterShutdown => \A u \in Threads : buf[u] = Null

(* The library references the threads now inside init may still take.      *)
RefsWanted == libRefs + Cardinality({u \in Threads : pc[u] \in {"init", "dlopen"}})

Init ==
  /\ initAlone \in InitPolicies
  /\ initialized = FALSE /\ hCL = FALSE /\ resolved = FALSE
  /\ context = Null /\ queue = Null
  /\ libRefs = 0 /\ liveCtx = {} /\ queueCtx = [q \in Queues |-> Null]
  /\ buf = [t \in Threads |-> Null]
  /\ tmp = [t \in Threads |-> Null]
  /\ pc = [t \in Threads |-> "idle"]
  /\ refused = 0 /\ badCall = FALSE

-----------------------------------------------------------------------------
(* init()                                                                  *)

(* An entry point: if (!isInitialized() && !init()) return error; ...      *)
Enter(t) ==
  /\ buf[t] = Null /\ MayEnter(t)
  /\ initialized \/ RefsWanted < MaxRefs
  /\ Transition(t, "idle", IF initialized THEN "malloc" ELSE "init")
  /\ UNCHANGED <<gstate, driver, buf, tmp, refused, badCall>>

InitCheck(t) ==
  /\ Transition(t, "init", IF initialized THEN "malloc" ELSE "dlopen")
  /\ UNCHANGED <<gstate, driver, buf, tmp, refused, badCall>>

(* A library that is still open can be opened again.                       *)
Dlopen(t) ==
  /\ \/ /\ Transition(t, "dlopen", "dlsym")
        /\ hCL' = TRUE /\ libRefs' = libRefs + 1
     \/ /\ "dlopen" \in MayFail /\ libRefs = 0
        /\ Transition(t, "dlopen", "idle")
        /\ hCL' = FALSE /\ UNCHANGED libRefs
  /\ UNCHANGED <<initialized, context, queue, resolved, liveCtx, queueCtx, buf,
                 tmp, refused, badCall>>

DlsymUnchecked(t) ==
  /\ \/ Transition(t, "dlsym", "device") /\ resolved' = TRUE
     \/ /\ "symbols" \in MayFail /\ ~(resolved /\ libRefs > 1)
        /\ Transition(t, "dlsym", "device") /\ resolved' = FALSE
  /\ UNCHANGED <<initialized, context, queue, hCL, driver, buf, tmp, refused, badCall>>

(* A missing symbol makes init return false and leaves the library open;   *)
(* one that an earlier init resolved and that is still open has them all.  *)
Dlsym(t) ==
  /\ \/ Transition(t, "dlsym", "device") /\ resolved' = TRUE
     \/ /\ "symbols" \in MayFail /\ ~(resolved /\ libRefs > 1)
        /\ Transition(t, "dlsym", "idle") /\ resolved' = FALSE
  /\ UNCHANGED <<initialized, context, queue, hCL, driver, buf, tmp, refused, badCall>>

(* clGetPlatformIDs, clGetDeviceIDs and clGetDeviceInfo.                   *)
QueryDevice(t) ==
  /\ \/ Transition(t, "device", "createContext")
     \/ "device" \in MayFail /\ Transition(t, "device", "idle")
  /\ ThroughGFunc
  /\ UNCHANGED <<gstate, driver, buf, tmp, refused>>

CreateContext(t) ==
  /\ Transition(t, "createContext", "storeContext")
  /\ \/ \E c \in Contexts \ liveCtx :
          liveCtx' = liveCtx \cup {c} /\ tmp' = [tmp EXCEPT ![t] = c]
     \/ /\ "context" \in MayFail \/ liveCtx = Contexts
        /\ UNCHANGED <<liveCtx, tmp>>
  /\ ThroughGFunc
  /\ UNCHANGED <<gstate, libRefs, queueCtx, buf, refused>>

(* g_state.context is assigned before err is tested, so a failure stores   *)
(* the null handle.                                                        *)
StoreContext(t) ==
  /\ Transition(t, "storeContext", IF tmp[t] = Null THEN "idle" ELSE "createQueue")
  /\ context' = tmp[t]
  /\ tmp' = [tmp EXCEPT ![t] = Null]
  /\ UNCHANGED <<initialized, queue, hCL, resolved, driver, buf, refused, badCall>>

CreateQueue(t) ==
  /\ Transition(t, "createQueue", "storeQueue")
  /\ \/ \E q \in {x \in Queues : queueCtx[x] = Null} :
          /\ context \in liveCtx
          /\ queueCtx' = [queueCtx EXCEPT ![q] = context]
          /\ tmp' = [tmp EXCEPT ![t] = q]
          /\ UNCHANGED refused
     \/ /\ \/ "queue" \in MayFail
           \/ context \notin liveCtx
           \/ \A x \in Queues : queueCtx[x] # Null
        /\ refused' = IF refused < Cardinality(Contexts) THEN refused + 1 ELSE refused
        /\ UNCHANGED <<queueCtx, tmp>>
  /\ ThroughGFunc
  /\ UNCHANGED <<gstate, libRefs, liveCtx, buf>>

StoreQueueUnchecked(t) ==
  /\ Transition(t, "storeQueue", "setFlag")
  /\ queue' = tmp[t]
  /\ tmp' = [tmp EXCEPT ![t] = Null]
  /\ UNCHANGED <<initialized, context, hCL, resolved, driver, buf, refused, badCall>>

(* A failure returns false and leaves the context that was just created.   *)
StoreQueue(t) ==
  /\ Transition(t, "storeQueue", IF tmp[t] = Null THEN "idle" ELSE "setFlag")
  /\ queue' = tmp[t]
  /\ tmp' = [tmp EXCEPT ![t] = Null]
  /\ UNCHANGED <<initialized, context, hCL, resolved, driver, buf, refused, badCall>>

SetFlag(t) ==
  /\ Transition(t, "setFlag", "malloc")
  /\ initialized' = TRUE
  /\ UNCHANGED <<context, queue, hCL, resolved, driver, buf, tmp, refused, badCall>>

-----------------------------------------------------------------------------
(* The calls on the context and the queue                                  *)

(* gpuMalloc: clCreateBuffer in the current g_state.context.               *)
GpuMalloc(t) ==
  /\ \/ /\ context \in liveCtx
        /\ Transition(t, "malloc", "write")
        /\ buf' = [buf EXCEPT ![t] = context]
     \/ /\ context \notin liveCtx \/ "buffer" \in MayFail
        /\ Transition(t, "malloc", "idle")
        /\ UNCHANGED buf
  /\ ThroughGFunc
  /\ UNCHANGED <<gstate, driver, tmp, refused>>

(* gpuWrite: a blocking clEnqueueWriteBuffer on the current g_state.queue. *)
GpuWrite(t) ==
  /\ Transition(t, "write", "idle")
  /\ ThroughGFunc
  /\ UNCHANGED <<gstate, driver, buf, tmp, refused>>

(* xeCudaFree: whether or not the backend is initialised, it ends in       *)
(* gpuFree, a call of g_func.ReleaseMemObject.                             *)
FreeEnter(t) ==
  /\ buf[t] # Null /\ MayEnter(t)
  /\ Transition(t, "idle", "free")
  /\ UNCHANGED <<gstate, driver, buf, tmp, refused, badCall>>

GpuFree(t) ==
  /\ Transition(t, "free", "idle")
  /\ buf' = [buf EXCEPT ![t] = Null]
  /\ ThroughGFunc
  /\ UNCHANGED <<gstate, driver, tmp, refused>>

-----------------------------------------------------------------------------
(* shutdown()                                                              *)

ShutdownEnter(t) ==
  /\ MayShutdown(t)
  /\ Transition(t, "idle", "relQueue")
  /\ UNCHANGED <<gstate, driver, buf, tmp, refused, badCall>>

ReleaseQueue(t) ==
  /\ Transition(t, "relQueue", "relContext")
  /\ \/ /\ queue # Null
        /\ queueCtx' = [queueCtx EXCEPT ![queue] = Null]
        /\ queue' = Null /\ ThroughGFunc
     \/ queue = Null /\ UNCHANGED <<queueCtx, queue, badCall>>
  /\ UNCHANGED <<initialized, context, hCL, resolved, libRefs, liveCtx, buf, tmp, refused>>

ForgetContext(t) ==
  /\ Transition(t, "relContext", "dlclose")
  /\ context' = Null
  /\ UNCHANGED <<initialized, queue, hCL, resolved, driver, buf, tmp, refused, badCall>>

ReleaseContext(t) ==
  /\ Transition(t, "relContext", "dlclose")
  /\ \/ /\ context # Null
        /\ liveCtx' = liveCtx \ {context}
        /\ context' = Null /\ ThroughGFunc
     \/ context = Null /\ UNCHANGED <<liveCtx, context, badCall>>
  /\ UNCHANGED <<initialized, queue, hCL, resolved, libRefs, queueCtx, buf, tmp, refused>>

DlcloseUnchecked(t) ==
  /\ Transition(t, "dlclose", "clearFlag")
  /\ libRefs' = libRefs - 1
  /\ hCL' = FALSE
  /\ UNCHANGED <<initialized, context, queue, resolved, liveCtx, queueCtx, buf,
                 tmp, refused, badCall>>

(* dlclose gives back one reference; the pointers of g_func keep their     *)
(* values.                                                                 *)
Dlclose(t) ==
  /\ Transition(t, "dlclose", "clearFlag")
  /\ libRefs' = IF hCL THEN libRefs - 1 ELSE libRefs
  /\ hCL' = FALSE
  /\ UNCHANGED <<initialized, context, queue, resolved, liveCtx, queueCtx, buf,
                 tmp, refused, badCall>>

KeepFlag(t) ==
  /\ Transition(t, "clearFlag", "idle")
  /\ UNCHANGED <<gstate, driver, buf, tmp, refused, badCall>>

ClearFlag(t) ==
  /\ Transition(t, "clearFlag", "idle")
  /\ initialized' = FALSE
  /\ UNCHANGED <<context, queue, hCL, resolved, driver, buf, tmp, refused, badCall>>

-----------------------------------------------------------------------------
InitCode(t) ==
  \/ Enter(t) \/ InitCheck(t) \/ Dlopen(t) \/ Dlsym(t) \/ QueryDevice(t)
  \/ CreateContext(t) \/ StoreContext(t) \/ CreateQueue(t) \/ StoreQueue(t) \/ SetFlag(t)
ApiCode(t) == GpuMalloc(t) \/ GpuWrite(t) \/ FreeEnter(t) \/ GpuFree(t)
ShutdownCode(t) ==
  \/ ShutdownEnter(t) \/ ReleaseQueue(t) \/ ReleaseContext(t) \/ Dlclose(t) \/ ClearFlag(t)

Next ==
  /\ \E t \in Threads : InitCode(t) \/ ApiCode(t) \/ ShutdownCode(t)
  /\ UNCHANGED initAlone

Spec == Init /\ [][Next]_vars
-----------------------------------------------------------------------------
(* Properties                                                              *)

InShutdown == \E t \in Threads : pc[t] \in ShutdownSteps

(* A queue of the current context, and a library the calls can reach.      *)
Ready ==
  /\ context \in liveCtx
  /\ queue # Null /\ queueCtx[queue] = context
  /\ Callable

(* The values every variable may take.                                     *)
TypeOK ==
  /\ initAlone \in InitPolicies
  /\ initialized \in BOOLEAN /\ hCL \in BOOLEAN /\ resolved \in BOOLEAN
  /\ context \in Contexts \cup {Null} /\ queue \in Queues \cup {Null}
  /\ libRefs \in 0..MaxRefs
  /\ liveCtx \subseteq Contexts /\ queueCtx \in [Queues -> Contexts \cup {Null}]
  /\ buf \in [Threads -> Contexts \cup {Null}]
  /\ tmp \in [Threads -> Contexts \cup Queues \cup {Null}]
  /\ pc \in [Threads -> Steps]
  /\ refused \in 0..Cardinality(Contexts) /\ badCall \in BOOLEAN

(* What isInitialized() promises to every entry point that tests it        *)
(* (xecuda_ocl.h:142, 235, 239): whatever sequence of failed and repeated  *)
(* inits and shutdowns came before, a set flag means that the context is   *)
(* alive, that the queue belongs to it and that g_func can be called, as   *)
(* long as the application lets one thread at a time initialise.           *)
InitializedMeansReady == initAlone /\ initialized /\ ~InShutdown => Ready

(* Every pointer of g_func that is called points into a loaded library     *)
(* (xecuda_ocl.h:245-311 call through g_func without any test).            *)
CallsReachLibrary == ~badCall

(* A buffer is written through a queue of the context it was created in:   *)
(* gpuMalloc reads g_state.context and gpuWrite reads g_state.queue, in    *)
(* two calls (xecuda_ocl.h:245-257).                                       *)
WritesMatchContext ==
  initAlone => \A t \in Threads : pc[t] = "write" => queue # Null /\ queueCtx[queue] = buf[t]

(* init() and shutdown() account for every context: one the backend no     *)
(* longer names was lost by a clCreateCommandQueue that failed             *)
(* (xecuda_ocl.h:228-233), and by nothing else.                            *)
OnlyRefusedQueuesLeak ==
  initAlone =>
    Cardinality(liveCtx \ ({context} \cup {tmp[t] : t \in Threads})) <= refused
=============================================================================
