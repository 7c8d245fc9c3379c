--------------------------- MODULE XeMemoryProofs ---------------------------
(***************************************************************************)
(* Theorems about XeMemory, for any number of threads, handles and sizes.  *)
(***************************************************************************)
EXTENDS XeMemory, TLAPS

(* A thread in transit has a buffer of its own: alive, of nobody else.     *)
TransitInv ==
  \A t \in Threads :
    InTransit(t) =>
      /\ arg[t] \in Handles /\ live[arg[t]] # NoSize
      /\ arg[t] \notin cudaHeld \cup l0Held
      /\ \A u \in Threads : InTransit(u) /\ arg[u] = arg[t] => u = t

(* xeCudaMalloc asks for a size, and what it got and recorded is that size. *)
MallocInv ==
  \A t \in Threads :
    /\ pc[t] \in MallocSteps \cup L0Steps => req[t] \in Sizes
    /\ pc[t] \in {"m_lock", "m_put", "m_return"} => live[arg[t]] = req[t]
    /\ pc[t] = "m_return" => bufSizes[arg[t]] = req[t]

HeldInv ==
  /\ cudaHeld \cap l0Held = {}
  /\ \A h \in cudaHeld : live[h] # NoSize /\ bufSizes[h] = live[h]
  /\ \A h \in l0Held : live[h] # NoSize

MutexInv == \A t \in Threads : pc[t] \in {"m_put", "f_erase"} => bufMutex = t

(* No late free so far: an entry exists exactly while it is due.           *)
EntryInv ==
  ~lateFree =>
    /\ EntriesAreLive
    /\ \A h \in l0Held : bufSizes[h] = NoSize
    /\ \A t \in Threads : pc[t] = "f_release" => bufSizes[arg[t]] = NoSize

IInv == TypeOK /\ TransitInv /\ MallocInv /\ HeldInv /\ MutexInv /\ EntryInv /\ NoOrphans

-----------------------------------------------------------------------------
(* The invariant holds initially, and each action keeps each conjunct.     *)

LEMMA InvInit == Init => IInv
BY DEF Init, IInv, TypeOK, TransitInv, MallocInv, HeldInv, MutexInv, EntryInv,
       NoOrphans, EntriesAreLive, InTransit, Steps, MallocSteps, FreeSteps, L0Steps

(* The steps of xeCudaMalloc. *)
LEMMA MallocStep ==
  ASSUME IInv, NEW t \in Threads, MallocCode(t)
  PROVE  IInv'
<1> USE MemoryAssumption DEF IInv, Transition, Steps, MallocSteps, FreeSteps, L0Steps,
                             backend, Lock, Unlock, Unused, InTransit
<1>1. ASSUME NEW s \in Sizes, MallocCall(t, s) PROVE IInv'
  <2>1. TypeOK'
    BY <1>1 DEF TypeOK, TransitInv, MallocCall
  <2>2. TransitInv'
    BY <1>1 DEF TypeOK, TransitInv, HeldInv, MallocCall
  <2>3. MallocInv'
    BY <1>1 DEF TypeOK, TransitInv, MallocInv, MallocCall
  <2>4. HeldInv'
    BY <1>1 DEF TypeOK, TransitInv, MallocInv, HeldInv, MallocCall
  <2>5. MutexInv'
    BY <1>1 DEF TypeOK, MutexInv, MallocCall
  <2>6. EntryInv'
    BY <1>1 DEF TypeOK, TransitInv, MallocInv, HeldInv, EntryInv, EntriesAreLive, MallocCall
  <2>7. NoOrphans'
    BY <1>1 DEF TypeOK, TransitInv, NoOrphans, MallocCall
  <2> QED
    BY <2>1, <2>2, <2>3, <2>4, <2>5, <2>6, <2>7
<1>2. ASSUME MallocCreate(t) PROVE IInv'
  <2>1. TypeOK'
    BY <1>2 DEF TypeOK, TransitInv, MallocCreate
  <2>2. TransitInv'
    <3>1. ASSUME NEW h \in Unused,
                 Transition(t, "m_create", "m_lock"),
                 live' = [live EXCEPT ![h] = req[t]], arg' = [arg EXCEPT ![t] = h]
          PROVE  TransitInv'
      <4>1. h \notin cudaHeld \cup l0Held
        BY <3>1 DEF HeldInv
      <4>2. \A u \in Threads : InTransit(u) => arg[u] # h
        BY <3>1 DEF TransitInv
      <4>3. req[t] # NoSize
        BY <3>1 DEF MallocInv
      <4>4. \A u \in Threads \ {t} : InTransit(u)' => InTransit(u) /\ arg'[u] = arg[u] /\ live'[arg[u]] # NoSize
        BY <3>1, <4>2 DEF TypeOK, TransitInv
      <4>5. arg'[t] = h /\ live'[h] = req[t] /\ h \in Handles
        BY <3>1 DEF TypeOK
      <4> QED
        BY <1>2, <4>1, <4>2, <4>3, <4>4, <4>5 DEF TransitInv, MallocCreate
    <3>2. CASE Transition(t, "m_create", "idle") /\ UNCHANGED <<live, arg>>
      BY <1>2, <3>2 DEF TypeOK, TransitInv, MallocCreate
    <3> QED
      BY <1>2, <3>1, <3>2 DEF MallocCreate
  <2>3. MallocInv'
    BY <1>2 DEF TypeOK, TransitInv, MallocInv, MallocCreate
  <2>4. HeldInv'
    BY <1>2 DEF TypeOK, TransitInv, MallocInv, HeldInv, MallocCreate
  <2>5. MutexInv'
    BY <1>2 DEF TypeOK, MutexInv, MallocCreate
  <2>6. EntryInv'
    BY <1>2 DEF TypeOK, TransitInv, MallocInv, HeldInv, EntryInv, EntriesAreLive, MallocCreate
  <2>7. NoOrphans'
    BY <1>2 DEF TypeOK, TransitInv, NoOrphans, MallocCreate
  <2> QED
    BY <2>1, <2>2, <2>3, <2>4, <2>5, <2>6, <2>7
<1>3. ASSUME MallocLock(t) PROVE IInv'
  <2>1. TypeOK'
    BY <1>3 DEF TypeOK, TransitInv, MallocLock
  <2>2. TransitInv'
    BY <1>3 DEF TypeOK, TransitInv, HeldInv, MallocLock
  <2>3. MallocInv'
    BY <1>3 DEF TypeOK, TransitInv, MallocInv, MallocLock
  <2>4. HeldInv'
    BY <1>3 DEF TypeOK, TransitInv, MallocInv, HeldInv, MallocLock
  <2>5. MutexInv'
    BY <1>3 DEF TypeOK, MutexInv, MallocLock
  <2>6. EntryInv'
    BY <1>3 DEF TypeOK, TransitInv, MallocInv, HeldInv, EntryInv, EntriesAreLive, MallocLock
  <2>7. NoOrphans'
    BY <1>3 DEF TypeOK, TransitInv, NoOrphans, MallocLock
  <2> QED
    BY <2>1, <2>2, <2>3, <2>4, <2>5, <2>6, <2>7
<1>4. ASSUME MallocPut(t) PROVE IInv'
  <2>1. TypeOK'
    BY <1>4 DEF TypeOK, TransitInv, MallocPut
  <2>2. TransitInv'
    BY <1>4 DEF TypeOK, TransitInv, HeldInv, MallocPut
  <2>3. MallocInv'
    BY <1>4 DEF TypeOK, TransitInv, MallocInv, MallocPut
  <2>4. HeldInv'
    BY <1>4 DEF TypeOK, TransitInv, MallocInv, HeldInv, MallocPut
  <2>5. MutexInv'
    BY <1>4 DEF TypeOK, MutexInv, MallocPut
  <2>6. EntryInv'
    BY <1>4 DEF TypeOK, TransitInv, MallocInv, HeldInv, EntryInv, EntriesAreLive, MallocPut
  <2>7. NoOrphans'
    BY <1>4 DEF TypeOK, TransitInv, NoOrphans, MallocPut
  <2> QED
    BY <2>1, <2>2, <2>3, <2>4, <2>5, <2>6, <2>7
<1>5. ASSUME MallocReturn(t) PROVE IInv'
  <2>1. TypeOK'
    BY <1>5 DEF TypeOK, TransitInv, MallocReturn
  <2>2. TransitInv'
    BY <1>5 DEF TypeOK, TransitInv, HeldInv, MallocReturn
  <2>3. MallocInv'
    BY <1>5 DEF TypeOK, TransitInv, MallocInv, MallocReturn
  <2>4. HeldInv'
    BY <1>5 DEF TypeOK, TransitInv, MallocInv, HeldInv, MallocReturn
  <2>5. MutexInv'
    BY <1>5 DEF TypeOK, MutexInv, MallocReturn
  <2>6. EntryInv'
    BY <1>5 DEF TypeOK, TransitInv, MallocInv, HeldInv, EntryInv, EntriesAreLive, MallocReturn
  <2>7. NoOrphans'
    BY <1>5 DEF TypeOK, TransitInv, NoOrphans, MallocReturn
  <2> QED
    BY <2>1, <2>2, <2>3, <2>4, <2>5, <2>6, <2>7
<1> QED
  BY <1>1, <1>2, <1>3, <1>4, <1>5 DEF MallocCode

(* The steps of xeCudaFree. *)
LEMMA FreeStep ==
  ASSUME IInv, NEW t \in Threads, FreeCode(t)
  PROVE  IInv'
<1> USE MemoryAssumption DEF IInv, Transition, Steps, MallocSteps, FreeSteps, L0Steps,
                             backend, Lock, Unlock, Unused, InTransit
<1>1. ASSUME NEW h \in Handles, FreeCall(t, h) PROVE IInv'
  <2>1. TypeOK'
    BY <1>1 DEF TypeOK, TransitInv, FreeCall
  <2>2. TransitInv'
    BY <1>1 DEF TypeOK, TransitInv, HeldInv, FreeCall
  <2>3. MallocInv'
    BY <1>1 DEF TypeOK, TransitInv, MallocInv, FreeCall
  <2>4. HeldInv'
    BY <1>1 DEF TypeOK, TransitInv, MallocInv, HeldInv, FreeCall
  <2>5. MutexInv'
    BY <1>1 DEF TypeOK, MutexInv, FreeCall
  <2>6. EntryInv'
    BY <1>1 DEF TypeOK, TransitInv, MallocInv, HeldInv, EntryInv, EntriesAreLive, FreeCall
  <2>7. NoOrphans'
    BY <1>1 DEF TypeOK, TransitInv, NoOrphans, FreeCall
  <2> QED
    BY <2>1, <2>2, <2>3, <2>4, <2>5, <2>6, <2>7
<1>2. ASSUME FreeLock(t) PROVE IInv'
  <2>1. TypeOK'
    BY <1>2 DEF TypeOK, TransitInv, FreeLock
  <2>2. TransitInv'
    BY <1>2 DEF TypeOK, TransitInv, HeldInv, FreeLock
  <2>3. MallocInv'
    BY <1>2 DEF TypeOK, TransitInv, MallocInv, FreeLock
  <2>4. HeldInv'
    BY <1>2 DEF TypeOK, TransitInv, MallocInv, HeldInv, FreeLock
  <2>5. MutexInv'
    BY <1>2 DEF TypeOK, MutexInv, FreeLock
  <2>6. EntryInv'
    BY <1>2 DEF TypeOK, TransitInv, MallocInv, HeldInv, EntryInv, EntriesAreLive, FreeLock
  <2>7. NoOrphans'
    BY <1>2 DEF TypeOK, TransitInv, NoOrphans, FreeLock
  <2> QED
    BY <2>1, <2>2, <2>3, <2>4, <2>5, <2>6, <2>7
<1>3. ASSUME FreeErase(t) PROVE IInv'
  <2>1. TypeOK'
    BY <1>3 DEF TypeOK, TransitInv, FreeErase
  <2>2. TransitInv'
    BY <1>3 DEF TypeOK, TransitInv, HeldInv, FreeErase
  <2>3. MallocInv'
    BY <1>3 DEF TypeOK, TransitInv, MallocInv, FreeErase
  <2>4. HeldInv'
    BY <1>3 DEF TypeOK, TransitInv, MallocInv, HeldInv, FreeErase
  <2>5. MutexInv'
    BY <1>3 DEF TypeOK, MutexInv, FreeErase
  <2>6. EntryInv'
    BY <1>3 DEF TypeOK, TransitInv, MallocInv, HeldInv, EntryInv, EntriesAreLive, FreeErase
  <2>7. NoOrphans'
    BY <1>3 DEF TypeOK, TransitInv, NoOrphans, FreeErase
  <2> QED
    BY <2>1, <2>2, <2>3, <2>4, <2>5, <2>6, <2>7
<1>4. ASSUME FreeRelease(t) PROVE IInv'
  <2>1. TypeOK'
    BY <1>4 DEF TypeOK, TransitInv, FreeRelease
  <2>2. TransitInv'
    BY <1>4 DEF TypeOK, TransitInv, HeldInv, FreeRelease
  <2>3. MallocInv'
    BY <1>4 DEF TypeOK, TransitInv, MallocInv, FreeRelease
  <2>4. HeldInv'
    BY <1>4 DEF TypeOK, TransitInv, MallocInv, HeldInv, FreeRelease
  <2>5. MutexInv'
    BY <1>4 DEF TypeOK, MutexInv, FreeRelease
  <2>6. EntryInv'
    BY <1>4 DEF TypeOK, TransitInv, MallocInv, HeldInv, EntryInv, EntriesAreLive, FreeRelease
  <2>7. NoOrphans'
    BY <1>4 DEF TypeOK, TransitInv, NoOrphans, FreeRelease
  <2> QED
    BY <2>1, <2>2, <2>3, <2>4, <2>5, <2>6, <2>7
<1> QED
  BY <1>1, <1>2, <1>3, <1>4 DEF FreeCode

(* The steps of the L0 functions. *)
LEMMA L0Step ==
  ASSUME IInv, NEW t \in Threads, L0Code(t)
  PROVE  IInv'
<1> USE MemoryAssumption DEF IInv, Transition, Steps, MallocSteps, FreeSteps, L0Steps,
                             backend, Lock, Unlock, Unused, InTransit
<1>1. ASSUME L0Init(t) PROVE IInv'
  <2>1. TypeOK'
    BY <1>1 DEF TypeOK, TransitInv, L0Init
  <2>2. TransitInv'
    BY <1>1 DEF TypeOK, TransitInv, HeldInv, L0Init
  <2>3. MallocInv'
    BY <1>1 DEF TypeOK, TransitInv, MallocInv, L0Init
  <2>4. HeldInv'
    BY <1>1 DEF TypeOK, TransitInv, MallocInv, HeldInv, L0Init
  <2>5. MutexInv'
    BY <1>1 DEF TypeOK, MutexInv, L0Init
  <2>6. EntryInv'
    BY <1>1 DEF TypeOK, TransitInv, MallocInv, HeldInv, EntryInv, EntriesAreLive, L0Init
  <2>7. NoOrphans'
    BY <1>1 DEF TypeOK, TransitInv, NoOrphans, L0Init
  <2> QED
    BY <2>1, <2>2, <2>3, <2>4, <2>5, <2>6, <2>7
<1>2. ASSUME NEW s \in Sizes, L0AllocCall(t, s) PROVE IInv'
  <2>1. TypeOK'
    BY <1>2 DEF TypeOK, TransitInv, L0AllocCall
  <2>2. TransitInv'
    BY <1>2 DEF TypeOK, TransitInv, HeldInv, L0AllocCall
  <2>3. MallocInv'
    BY <1>2 DEF TypeOK, TransitInv, MallocInv, L0AllocCall
  <2>4. HeldInv'
    BY <1>2 DEF TypeOK, TransitInv, MallocInv, HeldInv, L0AllocCall
  <2>5. MutexInv'
    BY <1>2 DEF TypeOK, MutexInv, L0AllocCall
  <2>6. EntryInv'
    BY <1>2 DEF TypeOK, TransitInv, MallocInv, HeldInv, EntryInv, EntriesAreLive, L0AllocCall
  <2>7. NoOrphans'
    BY <1>2 DEF TypeOK, TransitInv, NoOrphans, L0AllocCall
  <2> QED
    BY <2>1, <2>2, <2>3, <2>4, <2>5, <2>6, <2>7
<1>3. ASSUME L0Create(t) PROVE IInv'
  <2>1. TypeOK'
    BY <1>3 DEF TypeOK, TransitInv, L0Create
  <2>2. TransitInv'
    BY <1>3 DEF TypeOK, TransitInv, HeldInv, L0Create
  <2>3. MallocInv'
    BY <1>3 DEF TypeOK, TransitInv, MallocInv, L0Create
  <2>4. HeldInv'
    BY <1>3 DEF TypeOK, TransitInv, MallocInv, HeldInv, L0Create
  <2>5. MutexInv'
    BY <1>3 DEF TypeOK, MutexInv, L0Create
  <2>6. EntryInv'
    BY <1>3 DEF TypeOK, TransitInv, MallocInv, HeldInv, EntryInv, EntriesAreLive, L0Create
  <2>7. NoOrphans'
    BY <1>3 DEF TypeOK, TransitInv, NoOrphans, L0Create
  <2> QED
    BY <2>1, <2>2, <2>3, <2>4, <2>5, <2>6, <2>7
<1>4. ASSUME NEW h \in Handles, L0Free(t, h) PROVE IInv'
  <2>1. TypeOK'
    BY <1>4 DEF TypeOK, TransitInv, L0Free
  <2>2. TransitInv'
    BY <1>4 DEF TypeOK, TransitInv, HeldInv, L0Free
  <2>3. MallocInv'
    BY <1>4 DEF TypeOK, TransitInv, MallocInv, L0Free
  <2>4. HeldInv'
    BY <1>4 DEF TypeOK, TransitInv, MallocInv, HeldInv, L0Free
  <2>5. MutexInv'
    BY <1>4 DEF TypeOK, MutexInv, L0Free
  <2>6. EntryInv'
    BY <1>4 DEF TypeOK, TransitInv, MallocInv, HeldInv, EntryInv, EntriesAreLive, L0Free
  <2>7. NoOrphans'
    BY <1>4 DEF TypeOK, TransitInv, NoOrphans, L0Free
  <2> QED
    BY <2>1, <2>2, <2>3, <2>4, <2>5, <2>6, <2>7
<1>5. ASSUME Shutdown(t) PROVE IInv'
  <2>1. TypeOK'
    BY <1>5 DEF TypeOK, TransitInv, Shutdown
  <2>2. TransitInv'
    BY <1>5 DEF TypeOK, TransitInv, HeldInv, Shutdown
  <2>3. MallocInv'
    BY <1>5 DEF TypeOK, TransitInv, MallocInv, Shutdown
  <2>4. HeldInv'
    BY <1>5 DEF TypeOK, TransitInv, MallocInv, HeldInv, Shutdown
  <2>5. MutexInv'
    BY <1>5 DEF TypeOK, MutexInv, Shutdown
  <2>6. EntryInv'
    BY <1>5 DEF TypeOK, TransitInv, MallocInv, HeldInv, EntryInv, EntriesAreLive, Shutdown
  <2>7. NoOrphans'
    BY <1>5 DEF TypeOK, TransitInv, NoOrphans, Shutdown
  <2> QED
    BY <2>1, <2>2, <2>3, <2>4, <2>5, <2>6, <2>7
<1> QED
  BY <1>1, <1>2, <1>3, <1>4, <1>5 DEF L0Code

LEMMA InvNext == IInv /\ [Next]_vars => IInv'
<1> SUFFICES ASSUME IInv, [Next]_vars PROVE IInv'
  OBVIOUS
<1>1. CASE Next
  BY <1>1, MallocStep, FreeStep, L0Step DEF Next
<1>2. CASE UNCHANGED vars
  BY <1>2 DEF vars, backend, IInv, TypeOK, TransitInv, MallocInv, HeldInv, MutexInv,
              EntryInv, EntriesAreLive, NoOrphans, InTransit
<1> QED
  BY <1>1, <1>2

THEOREM Invariance == Spec => []IInv
BY InvInit, InvNext, PTL DEF Spec

-----------------------------------------------------------------------------
(* What it is for                                                          *)

(* Every variable keeps its type.                                          *)
THEOREM TypeCorrect == Spec => []TypeOK
<1>1. IInv => TypeOK
  BY DEF IInv
<1> QED
  BY <1>1, Invariance, PTL

(* The entry of a buffer an application holds is that buffer's size, however *)
(* many threads malloc and free and whatever handles the driver reuses.    *)
THEOREM SizesCorrect == Spec => []SizesMatch
<1>1. IInv => SizesMatch
  BY DEF IInv, HeldInv, SizesMatch
<1> QED
  BY <1>1, Invariance, PTL

(* Without a late free, g_bufSizes never describes a buffer that is gone.  *)
THEOREM NoStaleEntries == Spec => []EntriesAreLive
<1>1. IInv => EntriesAreLive
  BY DEF IInv, EntryInv, EntriesAreLive
<1> QED
  BY <1>1, Invariance, PTL

(* No path of the allocation and free functions loses a buffer.            *)
THEOREM NothingLost == Spec => []NoOrphans
<1>1. IInv => NoOrphans
  BY DEF IInv
<1> QED
  BY <1>1, Invariance, PTL

(* g_bufSizes is never touched by two threads at once.                     *)
THEOREM MapAccessExclusive == Spec => []MapExclusive
<1>1. IInv => MapExclusive
  BY DEF IInv, MutexInv, MapExclusive
<1> QED
  BY <1>1, Invariance, PTL

-----------------------------------------------------------------------------
(* The refinement: a buffer is allocated in Allocator when its handle is   *)
(* returned to the application, and released when the application passes   *)
(* it to a free function.  The other steps, the driver's and the map's,    *)
(* happen to buffers nobody holds, and are invisible.                      *)

LEMMA RecordedInit == Init => Abstract!Init
BY DEF Init, Abstract!Init, held, recorded

LEMMA Invisible ==
  ASSUME IInv,
         \A h \in cudaHeld : bufSizes'[h] = bufSizes[h],
         \A h \in l0Held : live'[h] = live[h],
         UNCHANGED <<cudaHeld, l0Held>>
  PROVE  UNCHANGED <<held, recorded>>
BY DEF held, recorded

LEMMA GivenOut ==
  ASSUME IInv, IInv', NEW h \in Handles \ (cudaHeld \cup l0Held),
         UNCHANGED bufSizes,
         \A x \in l0Held : live'[x] = live[x],
         \/ cudaHeld' = cudaHeld \cup {h} /\ l0Held' = l0Held
         \/ l0Held' = l0Held \cup {h} /\ cudaHeld' = cudaHeld
  PROVE  Abstract!Next
<1>1. recorded'[h] \in Sizes
  BY MemoryAssumption DEF recorded, IInv, HeldInv, TypeOK
<1>2. recorded' = [recorded EXCEPT ![h] = recorded'[h]]
  BY DEF recorded
<1>3. h \notin held /\ held' = held \cup {h}
  BY DEF held
<1>4. Abstract!Allocate(h, recorded'[h])
  BY <1>2, <1>3 DEF Abstract!Allocate
<1> QED
  BY <1>1, <1>4 DEF Abstract!Next

LEMMA GivenBack ==
  ASSUME IInv, NEW h \in cudaHeld \cup l0Held,
         UNCHANGED bufSizes,
         \A x \in l0Held \ {h} : live'[x] = live[x],
         cudaHeld' = cudaHeld \ {h}, l0Held' = l0Held \ {h}
  PROVE  Abstract!Next
<1>1. h \in Handles /\ h \in held /\ held' = held \ {h}
  BY DEF held, IInv, TypeOK
<1>2. recorded' = [recorded EXCEPT ![h] = NoSize]
  BY <1>1 DEF recorded
<1>3. Abstract!Release(h)
  BY <1>1, <1>2 DEF Abstract!Release
<1> QED
  BY <1>1, <1>3 DEF Abstract!Next

LEMMA RecordedStep == IInv /\ IInv' /\ [Next]_vars => [Abstract!Next]_<<held, recorded>>
<1> SUFFICES ASSUME IInv, IInv', [Next]_vars
             PROVE  Abstract!Next \/ UNCHANGED <<held, recorded>>
  OBVIOUS
<1> USE DEF Transition
<1>1. ASSUME NEW t \in Threads, MallocCode(t)
      PROVE  Abstract!Next \/ UNCHANGED <<held, recorded>>
  <2>1. ASSUME NEW s \in Sizes, MallocCall(t, s) PROVE UNCHANGED <<held, recorded>>
    BY <2>1, Invisible DEF MallocCall
  <2>2. CASE MallocCreate(t)
    <3>1. \A h \in l0Held : live'[h] = live[h]
      BY <2>2 DEF MallocCreate, Unused, IInv, TypeOK, HeldInv
    <3> QED
      BY <2>2, <3>1, Invisible DEF MallocCreate
  <2>3. CASE MallocLock(t)
    BY <2>3, Invisible DEF MallocLock
  <2>4. CASE MallocPut(t)
    <3>1. \A h \in cudaHeld : bufSizes'[h] = bufSizes[h]
      BY <2>4 DEF MallocPut, IInv, TypeOK, TransitInv, InTransit
    <3> QED
      BY <2>4, <3>1, Invisible DEF MallocPut
  <2>5. CASE MallocReturn(t)
    <3>1. arg[t] \in Handles \ (cudaHeld \cup l0Held)
      BY <2>5 DEF MallocReturn, IInv, TransitInv, InTransit
    <3> QED
      BY <2>5, <3>1, GivenOut DEF MallocReturn
  <2> QED
    BY <1>1, <2>1, <2>2, <2>3, <2>4, <2>5 DEF MallocCode
<1>2. ASSUME NEW t \in Threads, FreeCode(t)
      PROVE  Abstract!Next \/ UNCHANGED <<held, recorded>>
  <2>1. ASSUME NEW h \in Handles, FreeCall(t, h) PROVE Abstract!Next
    <3>1. h \in cudaHeld /\ h \notin l0Held
      BY <2>1 DEF FreeCall, IInv, HeldInv
    <3>2. cudaHeld' = cudaHeld \ {h} /\ l0Held' = l0Held \ {h}
      BY <2>1, <3>1 DEF FreeCall
    <3> QED
      BY <2>1, <3>1, <3>2, GivenBack DEF FreeCall
  <2>2. CASE FreeLock(t)
    BY <2>2, Invisible DEF FreeLock
  <2>3. CASE FreeErase(t)
    <3>1. \A h \in cudaHeld : bufSizes'[h] = bufSizes[h]
      BY <2>3 DEF FreeErase, IInv, TypeOK, TransitInv, InTransit
    <3> QED
      BY <2>3, <3>1, Invisible DEF FreeErase
  <2>4. CASE FreeRelease(t)
    <3>1. \A h \in l0Held : live'[h] = live[h]
      BY <2>4 DEF FreeRelease, IInv, TypeOK, TransitInv, InTransit
    <3> QED
      BY <2>4, <3>1, Invisible DEF FreeRelease
  <2> QED
    BY <1>2, <2>1, <2>2, <2>3, <2>4 DEF FreeCode
<1>3. ASSUME NEW t \in Threads, L0Code(t)
      PROVE  Abstract!Next \/ UNCHANGED <<held, recorded>>
  <2>1. CASE L0Init(t)
    BY <2>1, Invisible DEF L0Init
  <2>2. ASSUME NEW s \in Sizes, L0AllocCall(t, s) PROVE UNCHANGED <<held, recorded>>
    BY <2>2, Invisible DEF L0AllocCall
  <2>3. CASE L0Create(t)
    <3>1. ASSUME NEW h \in Unused, live' = [live EXCEPT ![h] = req[t]],
                 l0Held' = l0Held \cup {h}
          PROVE  Abstract!Next
      <4>1. h \in Handles \ (cudaHeld \cup l0Held)
        BY DEF Unused, IInv, HeldInv
      <4>2. \A x \in l0Held : live'[x] = live[x]
        BY <3>1, <4>1 DEF IInv, TypeOK
      <4> QED
        BY <2>3, <3>1, <4>1, <4>2, GivenOut DEF L0Create
    <3>2. ASSUME UNCHANGED <<live, l0Held>> PROVE UNCHANGED <<held, recorded>>
      BY <2>3, <3>2, Invisible DEF L0Create
    <3> QED
      BY <2>3, <3>1, <3>2 DEF L0Create
  <2>4. ASSUME NEW h \in Handles, L0Free(t, h) PROVE Abstract!Next
    <3>1. h \in l0Held /\ h \notin cudaHeld
      BY <2>4 DEF L0Free, IInv, HeldInv
    <3>2. cudaHeld' = cudaHeld \ {h} /\ l0Held' = l0Held \ {h}
      BY <2>4, <3>1 DEF L0Free
    <3>3. \A x \in l0Held \ {h} : live'[x] = live[x]
      BY <2>4 DEF L0Free, IInv, TypeOK
    <3> QED
      BY <2>4, <3>1, <3>2, <3>3, GivenBack DEF L0Free
  <2>5. CASE Shutdown(t)
    BY <2>5, Invisible DEF Shutdown
  <2> QED
    BY <1>3, <2>1, <2>2, <2>3, <2>4, <2>5 DEF L0Code
<1>4. CASE UNCHANGED vars
  BY <1>4 DEF vars, held, recorded
<1> QED
  BY <1>1, <1>2, <1>3, <1>4 DEF Next

(* xeCudaMalloc, xeCudaFree, xeL0AllocSharedMemory and xeL0FreeMemory,     *)
(* called by any number of threads, implement Allocator.                   *)
THEOREM Refinement == Spec => ImplementsAllocator
<1>1. Spec => Abstract!Init /\ [][Abstract!Next]_<<held, recorded>>
  BY Invariance, RecordedInit, RecordedStep, PTL DEF Spec
<1> QED
  BY <1>1 DEF ImplementsAllocator, Abstract!Spec, Abstract!vars
=============================================================================
