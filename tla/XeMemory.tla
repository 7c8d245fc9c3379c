------------------------------ MODULE XeMemory ------------------------------
(***************************************************************************)
(* Device memory of src/xecuda_runtime.cpp and src/xecuda_l0.cpp: several  *)
(* threads of an application allocate with xeCudaMalloc, free with         *)
(* xeCudaFree, allocate and free through the L0 interface and shut the     *)
(* backend down and up again.                                              *)
(*                                                                         *)
(* The driver may hand a released cl_mem value out again at once, to any   *)
(* thread.  g_bufSizes is updated under g_bufMutex, the driver calls are   *)
(* made outside it: what the map says about a handle depends on the order  *)
(* of the two.                                                             *)
(*                                                                         *)
(* The application is the one a C program has to be: it passes to a free   *)
(* function a pointer the matching allocation returned and that it has not *)
(* freed yet, and it shuts down when no other call is running.  Bringing   *)
(* the backend up is one step here; XocBackend models its inside.          *)
(***************************************************************************)
EXTENDS Naturals, FiniteSets

CONSTANTS
  Threads,
  Handles,    \* the cl_mem values the driver can hand out
  Sizes,      \* the sizes an application asks for
  NoThread,
  NoHandle,   \* nullptr
  NoSize      \* what a handle without an entry or without memory has

ASSUME MemoryAssumption ==
  NoThread \notin Threads /\ NoHandle \notin Handles /\ NoSize \notin Sizes

VARIABLES
  initialized,  \* xoc::isInitialized()
  l0Up,         \* state->initialized of the application's xeL0State_t
  live,         \* live[h]: the size of the driver's buffer h, or NoSize
  bufSizes,     \* g_bufSizes: bufSizes[h] is the entry of h, or NoSize
  bufMutex,     \* the thread that holds g_bufMutex
  pc,           \* where each thread is
  arg,          \* arg[t]: the buffer t is allocating or freeing
  req,          \* req[t]: the size t asked for
  cudaHeld,     \* what xeCudaMalloc returned and nobody freed yet
  l0Held,       \* the same for xeL0AllocSharedMemory
  lateFree      \* some xeCudaFree ran while the backend was down (history)

backend == <<initialized, l0Up>>
vars == <<backend, live, bufSizes, bufMutex, pc, arg, req, cudaHeld, l0Held, lateFree>>

MallocSteps == {"m_create", "m_lock", "m_put", "m_return"}
FreeSteps == {"f_lock", "f_erase", "f_release"}
L0Steps == {"l_create"}
Steps == {"idle"} \cup MallocSteps \cup FreeSteps \cup L0Steps

Unused == {h \in Handles : live[h] = NoSize}

Transition(t, from, to) ==
  /\ pc[t] = from
  /\ pc' = [pc EXCEPT ![t] = to]

Init ==
  /\ initialized = FALSE /\ l0Up = FALSE
  /\ live = [h \in Handles |-> NoSize]
  /\ bufSizes = [h \in Handles |-> NoSize]
  /\ bufMutex = NoThread
  /\ pc = [t \in Threads |-> "idle"]
  /\ arg = [t \in Threads |-> NoHandle]
  /\ req = [t \in Threads |-> NoSize]
  /\ cudaHeld = {} /\ l0Held = {}
  /\ lateFree = FALSE

-----------------------------------------------------------------------------
(* g_bufMutex                                                              *)

LockUntested(t) == bufMutex' = t

Lock(t) == bufMutex = NoThread /\ bufMutex' = t
Unlock(t) == bufMutex = t /\ bufMutex' = NoThread

-----------------------------------------------------------------------------
(* xeCudaMalloc                                                            *)

(* The early returns (null pointer, size 0, failed initialisation) change  *)
(* nothing; otherwise the backend is up when the body starts.              *)
MallocCall(t, s) ==
  /\ Transition(t, "idle", "m_create")
  /\ initialized' = TRUE
  /\ req' = [req EXCEPT ![t] = s]
  /\ UNCHANGED <<l0Up, live, bufSizes, bufMutex, arg, cudaHeld, l0Held, lateFree>>

MallocCreateUntested(t) ==
  /\ Transition(t, "m_create", "m_lock")
  /\ \/ \E h \in Unused :
          live' = [live EXCEPT ![h] = req[t]] /\ arg' = [arg EXCEPT ![t] = h]
     \/ UNCHANGED <<live, arg>>
  /\ UNCHANGED <<backend, bufSizes, bufMutex, req, cudaHeld, l0Held, lateFree>>

(* gpuMalloc: clCreateBuffer fails, or returns a value that is not in use. *)
MallocCreate(t) ==
  /\ \/ \E h \in Unused :
          /\ Transition(t, "m_create", "m_lock")
          /\ live' = [live EXCEPT ![h] = req[t]]
          /\ arg' = [arg EXCEPT ![t] = h]
     \/ /\ Transition(t, "m_create", "idle")
        /\ UNCHANGED <<live, arg>>
  /\ UNCHANGED <<backend, bufSizes, bufMutex, req, cudaHeld, l0Held, lateFree>>

MallocLock(t) ==
  /\ Transition(t, "m_lock", "m_put")
  /\ Lock(t)
  /\ UNCHANGED <<backend, live, bufSizes, arg, req, cudaHeld, l0Held, lateFree>>

(* g_bufSizes[buf] = size, and the lock_guard's scope ends.                *)
MallocPut(t) ==
  /\ Transition(t, "m_put", "m_return")
  /\ bufSizes' = [bufSizes EXCEPT ![arg[t]] = req[t]]
  /\ Unlock(t)
  /\ UNCHANGED <<backend, live, arg, req, cudaHeld, l0Held, lateFree>>

(* *devPtr = buf                                                           *)
MallocReturn(t) ==
  /\ Transition(t, "m_return", "idle")
  /\ cudaHeld' = cudaHeld \cup {arg[t]}
  /\ arg' = [arg EXCEPT ![t] = NoHandle]
  /\ UNCHANGED <<backend, live, bufSizes, bufMutex, req, l0Held, lateFree>>

-----------------------------------------------------------------------------
(* xeCudaFree: the entry is erased first, the buffer released after.  While *)
(* the backend is down the entry is left alone.                            *)

FreeCallNoErase(t, h) ==
  /\ h \in cudaHeld
  /\ Transition(t, "idle", "f_release")
  /\ cudaHeld' = cudaHeld \ {h}
  /\ arg' = [arg EXCEPT ![t] = h]
  /\ lateFree' = (lateFree \/ ~initialized)
  /\ UNCHANGED <<backend, live, bufSizes, bufMutex, req, l0Held>>

FreeCallNothingWhenDown(t, h) ==
  /\ h \in cudaHeld
  /\ Transition(t, "idle", IF initialized THEN "f_lock" ELSE "idle")
  /\ cudaHeld' = cudaHeld \ {h}
  /\ arg' = [arg EXCEPT ![t] = h]
  /\ lateFree' = (lateFree \/ ~initialized)
  /\ UNCHANGED <<backend, live, bufSizes, bufMutex, req, l0Held>>

FreeCall(t, h) ==
  /\ h \in cudaHeld
  /\ Transition(t, "idle", IF initialized THEN "f_lock" ELSE "f_release")
  /\ cudaHeld' = cudaHeld \ {h}
  /\ arg' = [arg EXCEPT ![t] = h]
  /\ lateFree' = (lateFree \/ ~initialized)
  /\ UNCHANGED <<backend, live, bufSizes, bufMutex, req, l0Held>>

FreeLock(t) ==
  /\ Transition(t, "f_lock", "f_erase")
  /\ Lock(t)
  /\ UNCHANGED <<backend, live, bufSizes, arg, req, cudaHeld, l0Held, lateFree>>

FreeErase(t) ==
  /\ Transition(t, "f_erase", "f_release")
  /\ bufSizes' = [bufSizes EXCEPT ![arg[t]] = NoSize]
  /\ Unlock(t)
  /\ UNCHANGED <<backend, live, arg, req, cudaHeld, l0Held, lateFree>>

FreeRelease(t) ==
  /\ Transition(t, "f_release", "idle")
  /\ live' = [live EXCEPT ![arg[t]] = NoSize]
  /\ arg' = [arg EXCEPT ![t] = NoHandle]
  /\ UNCHANGED <<backend, bufSizes, bufMutex, req, cudaHeld, l0Held, lateFree>>

-----------------------------------------------------------------------------
(* xeL0Init, xeL0AllocSharedMemory, xeL0FreeMemory, xeL0Shutdown            *)

(* The state is cleared first and stays cleared when the backend cannot be *)
(* brought up.  The application prepares its state before sharing it.      *)
L0Init(t) ==
  /\ \A u \in Threads : pc[u] = "idle"
  /\ \/ initialized' = TRUE /\ l0Up' = TRUE
     \/ ~initialized /\ l0Up' = FALSE /\ UNCHANGED initialized
  /\ UNCHANGED <<live, bufSizes, bufMutex, pc, arg, req, cudaHeld, l0Held, lateFree>>

L0AllocCall(t, s) ==
  /\ l0Up /\ initialized
  /\ Transition(t, "idle", "l_create")
  /\ req' = [req EXCEPT ![t] = s]
  /\ UNCHANGED <<backend, live, bufSizes, bufMutex, arg, cudaHeld, l0Held, lateFree>>

(* No entry is made in g_bufSizes.                                         *)
L0Create(t) ==
  /\ Transition(t, "l_create", "idle")
  /\ \/ \E h \in Unused :
          /\ live' = [live EXCEPT ![h] = req[t]]
          /\ l0Held' = l0Held \cup {h}
     \/ UNCHANGED <<live, l0Held>>
  /\ UNCHANGED <<backend, bufSizes, bufMutex, arg, req, cudaHeld, lateFree>>

(* gpuFree at once: the map is not looked at.                              *)
L0Free(t, h) ==
  /\ l0Up
  /\ h \in l0Held
  /\ pc[t] = "idle"
  /\ live' = [live EXCEPT ![h] = NoSize]
  /\ l0Held' = l0Held \ {h}
  /\ UNCHANGED <<backend, bufSizes, bufMutex, pc, arg, req, cudaHeld, lateFree>>

Shutdown(t) ==
  /\ initialized
  /\ \A u \in Threads : pc[u] = "idle"
  /\ initialized' = FALSE /\ l0Up' = FALSE
  /\ UNCHANGED <<live, bufSizes, bufMutex, pc, arg, req, cudaHeld, l0Held, lateFree>>

-----------------------------------------------------------------------------
MallocCode(t) ==
  \/ \E s \in Sizes : MallocCall(t, s)
  \/ MallocCreate(t) \/ MallocLock(t) \/ MallocPut(t) \/ MallocReturn(t)
FreeCodeReleaseFirst(t) ==
  \/ \E h \in Handles : FreeCall(t, h)
  \/ /\ Transition(t, "f_lock", "f_erase")
     /\ live' = [live EXCEPT ![arg[t]] = NoSize]
     /\ UNCHANGED <<backend, bufSizes, bufMutex, arg, req, cudaHeld, l0Held, lateFree>>
  \/ /\ bufMutex = NoThread
     /\ Transition(t, "f_erase", "idle")
     /\ bufSizes' = [bufSizes EXCEPT ![arg[t]] = NoSize]
     /\ arg' = [arg EXCEPT ![t] = NoHandle]
     /\ UNCHANGED <<backend, live, bufMutex, req, cudaHeld, l0Held, lateFree>>
  \/ FreeRelease(t)

FreeCode(t) ==
  \/ \E h \in Handles : FreeCall(t, h)
  \/ FreeLock(t) \/ FreeErase(t) \/ FreeRelease(t)
L0Code(t) ==
  \/ L0Init(t)
  \/ \E s \in Sizes : L0AllocCall(t, s)
  \/ L0Create(t)
  \/ \E h \in Handles : L0Free(t, h)
  \/ Shutdown(t)

Next == \E t \in Threads : MallocCode(t) \/ FreeCode(t) \/ L0Code(t)

Spec == Init /\ [][Next]_vars
-----------------------------------------------------------------------------
(* Properties                                                              *)

InTransit(t) == pc[t] \in {"m_lock", "m_put", "m_return", "f_lock", "f_erase", "f_release"}

TypeOK ==
  /\ initialized \in BOOLEAN /\ l0Up \in BOOLEAN
  /\ live \in [Handles -> Sizes \cup {NoSize}]
  /\ bufSizes \in [Handles -> Sizes \cup {NoSize}]
  /\ bufMutex \in Threads \cup {NoThread}
  /\ pc \in [Threads -> Steps]
  /\ arg \in [Threads -> Handles \cup {NoHandle}]
  /\ req \in [Threads -> Sizes \cup {NoSize}]
  /\ cudaHeld \subseteq Handles /\ l0Held \subseteq Handles
  /\ lateFree \in BOOLEAN

(* The entry of every buffer an application holds from xeCudaMalloc is the *)
(* size of the driver's buffer (xecuda_runtime.cpp:19-20), although the    *)
(* handle may have been another thread's a moment before: xeCudaFree must  *)
(* erase before it releases (xecuda_runtime.cpp:114-118).                  *)
SizesMatch == \A h \in cudaHeld : bufSizes[h] = live[h] /\ live[h] # NoSize

(* As long as no xeCudaFree ran while the backend was down, every entry is *)
(* that of a buffer that exists, and has its size.                         *)
EntriesAreLive ==
  ~lateFree => \A h \in Handles : bufSizes[h] # NoSize => bufSizes[h] = live[h]

(* Every buffer the driver holds can still be reached: by the application  *)
(* or by the thread that is allocating or freeing it.  No path of the four *)
(* functions, failing ones included, drops one.                            *)
NoOrphans ==
  \A h \in Handles :
    live[h] # NoSize =>
      h \in cudaHeld \cup l0Held \/ \E t \in Threads : InTransit(t) /\ arg[t] = h

(* Two threads are never both inside g_bufSizes (xecuda_runtime.cpp:86-89, *)
(* 114-117).                                                               *)
MapExclusive ==
  \A t, u \in Threads :
    pc[t] \in {"m_put", "f_erase"} /\ pc[u] \in {"m_put", "f_erase"} => t = u

(* What an application sees: the buffers it holds and the recorded size of *)
(* each, read from g_bufSizes for those of xeCudaMalloc.  Seen so, the     *)
(* threads, the lock and the driver implement Allocator.                   *)
held == cudaHeld \cup l0Held

recorded ==
  [h \in Handles |-> IF h \in cudaHeld THEN bufSizes[h]
                     ELSE IF h \in l0Held THEN live[h] ELSE NoSize]

Abstract == INSTANCE Allocator WITH owned <- held, size <- recorded

ImplementsAllocator == Abstract!Spec
=============================================================================
