------------------------- MODULE XocBackendProofs ---------------------------
(***************************************************************************)
(* Theorems about XocBackend, for any numbers of threads, contexts and     *)
(* queues and any calls that fail.  Those that need the application to     *)
(* shut down alone, with no buffer left, assume it.                        *)
(***************************************************************************)
EXTENDS XocBackend, FiniteSetTheorems, TLAPS

RefsInv == RefsWanted <= MaxRefs

(* A handle waits for its assignment between two steps of init() only.     *)
TmpInv ==
  \A t \in Threads :
    tmp[t] \in IF pc[t] = "storeContext" THEN Contexts \cup {Null}
               ELSE IF pc[t] = "storeQueue" THEN Queues \cup {Null} ELSE {Null}

(* A shutdown is alone and finds its way to an empty g_state.              *)
ShutdownInv ==
  \A t \in Threads :
    pc[t] \in ShutdownSteps =>
      /\ \A u \in Threads : (u # t => pc[u] = "idle") /\ buf[u] = Null
      /\ pc[t] # "relQueue" => queue = Null
      /\ pc[t] \in {"dlclose", "clearFlag"} => context = Null

(* Somebody calls through g_func, or may yet.                              *)
CallSteps == {"device", "createContext", "storeContext", "createQueue", "storeQueue",
              "setFlag"} \cup ApiSteps
InUse ==
  \/ context # Null \/ queue # Null
  \/ initialized /\ \A t \in Threads : pc[t] # "clearFlag"
  \/ \E t \in Threads : pc[t] \in CallSteps \/ buf[t] # Null

(* Then the library is there, and a thread about to resolve its symbols    *)
(* has a reference of its own, so that it cannot fail to.                  *)
LibraryInv ==
  /\ hCL => libRefs > 0
  /\ InUse => Callable
  /\ \A t \in Threads : pc[t] = "dlsym" => libRefs > 0 /\ (InUse => libRefs > 1)
  /\ \A t, u \in Threads : pc[t] = "dlsym" /\ pc[u] = "dlsym" /\ t # u => libRefs > 1

(* What a thread that initialises has made so far.                         *)
Making(t) ==
  /\ pc[t] = "storeContext" /\ tmp[t] # Null => tmp[t] \in liveCtx
  /\ pc[t] \in {"createQueue", "storeQueue", "setFlag"} => context \in liveCtx
  /\ pc[t] = "storeQueue" /\ tmp[t] # Null => queueCtx[tmp[t]] = context
  /\ pc[t] = "setFlag" => queue # Null /\ queueCtx[queue] = context

(* With one thread at a time in init(), the flag is down while it runs and *)
(* up while anybody uses the backend.                                      *)
AloneInv ==
  initAlone =>
    /\ \A t, u \in Threads : pc[t] \in InitSteps /\ pc[u] \in InitSteps => t = u
    /\ \A t \in Threads : pc[t] \in InitSteps => ~initialized /\ Making(t)
    /\ \A t \in Threads : pc[t] \in ApiSteps => initialized
    /\ \A t \in Threads : buf[t] # Null => initialized /\ buf[t] = context
    /\ \A t \in Threads : pc[t] = "write" => buf[t] # Null
    /\ initialized /\ ~InShutdown => Ready

IInv ==
  /\ TypeOK /\ RefsInv /\ TmpInv /\ ShutdownInv /\ LibraryInv /\ AloneInv
  /\ CallsReachLibrary

Careful == ShutdownAlone /\ ~FreeAfterShutdown

-----------------------------------------------------------------------------
(* Parts that several actions share.                                       *)

LEMMA WantedFinite ==
  LET W == {u \in Threads : pc[u] \in {"init", "dlopen"}}
  IN IsFiniteSet(W) /\ Cardinality(W) \in Nat
<1> DEFINE W == {u \in Threads : pc[u] \in {"init", "dlopen"}}
<1>1. IsFiniteSet(W)
  BY BackendAssumption, FS_Subset
<1> QED
  BY <1>1, FS_CardinalityType

(* A step that wants no more references than before.                       *)
LEMMA RefsKept ==
  ASSUME IInv, NEW t \in Threads, NEW to, pc' = [pc EXCEPT ![t] = to],
         to \in {"init", "dlopen"} => pc[t] \in {"init", "dlopen"},
         libRefs' \in Nat, libRefs' <= libRefs
  PROVE  RefsInv' /\ libRefs' \in 0 .. MaxRefs
<1> DEFINE W == {u \in Threads : pc[u] \in {"init", "dlopen"}}
<1>1. W' \subseteq W
  BY DEF IInv, TypeOK
<1>2. IsFiniteSet(W) /\ Cardinality(W) \in Nat
  BY WantedFinite
<1>3. Cardinality(W') \in Nat /\ Cardinality(W') <= Cardinality(W)
  BY <1>1, <1>2, FS_Subset, FS_CardinalityType
<1>4. libRefs + Cardinality(W) <= MaxRefs
  BY DEF IInv, RefsInv, RefsWanted
<1>5. RefsWanted' = libRefs' + Cardinality(W')
  BY DEF RefsWanted
<1> HIDE DEF W
<1> QED
  BY <1>2, <1>3, <1>4, <1>5, BackendAssumption DEF RefsInv, IInv, TypeOK

LEMMA RefsSame ==
  ASSUME IInv, NEW t \in Threads, NEW to, pc' = [pc EXCEPT ![t] = to],
         to \in {"init", "dlopen"} => pc[t] \in {"init", "dlopen"}, libRefs' = libRefs
  PROVE  RefsInv' /\ libRefs' \in 0 .. MaxRefs
<1>1. libRefs' \in Nat /\ libRefs' <= libRefs
  BY BackendAssumption DEF IInv, TypeOK
<1> QED
  BY <1>1, RefsKept

(* A step of a thread that leaves the library as it is.                    *)
LEMMA LibraryKept ==
  ASSUME IInv, NEW t \in Threads, NEW to, pc' = [pc EXCEPT ![t] = to], to # "dlsym",
         libRefs' = libRefs, resolved' = resolved, hCL' = hCL, InUse' => InUse
  PROVE  LibraryInv'
BY DEF IInv, TypeOK, LibraryInv, Callable

(* No call of a backend in use goes astray.                                *)
LEMMA CallsWell ==
  ASSUME IInv, InUse, ThroughGFunc
  PROVE  CallsReachLibrary'
BY DEF IInv, LibraryInv, CallsReachLibrary, ThroughGFunc

(* A thread outside shutdown() is not disturbed by one.                    *)
LEMMA NoShutdown ==
  ASSUME IInv, NEW t \in Threads, pc[t] \notin ShutdownSteps \cup {"idle"}
  PROVE  \A u \in Threads : pc[u] \notin ShutdownSteps
BY DEF IInv, ShutdownInv, ShutdownSteps

-----------------------------------------------------------------------------
(* The invariant holds initially, and every action keeps it.               *)

LEMMA InvInit == Init => IInv
<1> SUFFICES ASSUME Init PROVE IInv
  OBVIOUS
<1>1. TypeOK
  <2>1. Cardinality(Contexts) \in Nat /\ MaxRefs \in Nat
    BY BackendAssumption, FS_CardinalityType
  <2>2. libRefs \in 0 .. MaxRefs /\ refused \in 0 .. Cardinality(Contexts)
    BY <2>1 DEF Init
  <2> QED
    BY <2>2 DEF Init, TypeOK, Steps
<1>2. RefsInv
  <2>1. {u \in Threads : pc[u] \in {"init", "dlopen"}} = {}
    BY DEF Init
  <2> QED
    BY <2>1, FS_EmptySet, BackendAssumption DEF Init, RefsInv, RefsWanted
<1>3. TmpInv /\ ShutdownInv /\ LibraryInv /\ CallsReachLibrary
  BY DEF Init, TmpInv, ShutdownInv, ShutdownSteps, LibraryInv, InUse, CallSteps, ApiSteps, CallsReachLibrary
<1>4. AloneInv
  BY DEF Init, AloneInv, InitSteps, ApiSteps
<1> QED
  BY <1>1, <1>2, <1>3, <1>4 DEF IInv

LEMMA EnterInv ==
  ASSUME IInv, Careful, NEW t \in Threads, Enter(t), initAlone' = initAlone PROVE IInv'
<1> USE DEF Enter, Transition, gstate, driver
<1>1. PICK to \in {"malloc", "init"} : pc[t] = "idle" /\ pc' = [pc EXCEPT ![t] = to]
  OBVIOUS
<1>a. \A u \in Threads : pc[u] \notin ShutdownSteps
  BY DEF Careful, MayEnter
<1>b. (to = "malloc" => initialized) /\ (to = "init" => ~initialized)
  BY <1>1 DEF IInv, TypeOK
<1>c. initAlone => \A u \in Threads : pc[u] \notin InitSteps
  BY DEF MayEnter
<1>2. RefsInv' /\ libRefs' \in 0 .. MaxRefs
  <2>1. CASE to = "malloc"
    BY <1>1, <2>1, RefsSame
  <2>2. CASE to = "init"
    <3> DEFINE W == {u \in Threads : pc[u] \in {"init", "dlopen"}}
    <3>1. pc'[t] = "init"
      BY <1>1, <2>2 DEF IInv, TypeOK
    <3>2. RefsWanted < MaxRefs
      BY <1>1, <2>2, <3>1
    <3>3. W' = W \cup {t} /\ t \notin W
      BY <1>1, <2>2 DEF IInv, TypeOK
    <3>4. IsFiniteSet(W) /\ Cardinality(W) \in Nat
      BY WantedFinite
    <3>5. Cardinality(W') = Cardinality(W) + 1
      BY <3>3, <3>4, FS_AddElement
    <3>6. RefsWanted = libRefs + Cardinality(W) /\ RefsWanted' = libRefs + Cardinality(W')
      BY DEF RefsWanted
    <3> HIDE DEF W
    <3> QED
      BY <3>2, <3>4, <3>5, <3>6, BackendAssumption DEF IInv, TypeOK, RefsInv
  <2> QED
    BY <2>1, <2>2
<1>3. TypeOK'
  BY <1>1, <1>2 DEF IInv, TypeOK, Steps, InitSteps, ShutdownSteps, ApiSteps
<1>4. TmpInv'
  BY <1>1 DEF IInv, TypeOK, TmpInv
<1>5. ShutdownInv'
  BY <1>1, <1>a DEF IInv, TypeOK, ShutdownInv, ShutdownSteps
<1>6. LibraryInv'
  <2>1. InUse' => InUse
    BY <1>1, <1>a, <1>b DEF IInv, TypeOK, InUse, CallSteps, ApiSteps, ShutdownSteps
  <2> QED
    BY <1>1, <2>1, LibraryKept
<1>7. AloneInv'
  BY <1>1, <1>a, <1>b, <1>c DEF IInv, TypeOK, AloneInv, Making, Ready, Callable, InShutdown, InitSteps, ShutdownSteps, ApiSteps
<1>8. CallsReachLibrary'
  BY DEF IInv, CallsReachLibrary
<1> QED
  BY <1>2, <1>3, <1>4, <1>5, <1>6, <1>7, <1>8 DEF IInv

LEMMA InitCheckInv ==
  ASSUME IInv, Careful, NEW t \in Threads, InitCheck(t), initAlone' = initAlone PROVE IInv'
<1> USE DEF InitCheck, Transition, gstate, driver
<1>1. PICK to \in {"malloc", "dlopen"} : pc[t] = "init" /\ pc' = [pc EXCEPT ![t] = to]
  OBVIOUS
<1>a. to = "malloc" => initialized
  BY <1>1 DEF IInv, TypeOK
<1>b. \A u \in Threads : pc[u] # "clearFlag"
  BY <1>1, NoShutdown DEF ShutdownSteps
<1>2. RefsInv' /\ libRefs' \in 0 .. MaxRefs
  BY <1>1, RefsSame
<1>3. TypeOK'
  BY <1>1, <1>2 DEF IInv, TypeOK, Steps, InitSteps, ShutdownSteps, ApiSteps
<1>4. TmpInv'
  BY <1>1 DEF IInv, TypeOK, TmpInv
<1>5. ShutdownInv'
  BY <1>1, NoShutdown DEF IInv, TypeOK, ShutdownInv, ShutdownSteps
<1>6. LibraryInv'
  <2>1. InUse' => InUse
    BY <1>1, <1>a, <1>b DEF IInv, TypeOK, InUse, CallSteps, ApiSteps
  <2> QED
    BY <1>1, <2>1, LibraryKept
<1>7. AloneInv'
  BY <1>1, <1>a, NoShutdown DEF IInv, TypeOK, AloneInv, Making, Ready, Callable, InShutdown, InitSteps, ShutdownSteps, ApiSteps
<1>8. CallsReachLibrary'
  BY DEF IInv, CallsReachLibrary
<1> QED
  BY <1>2, <1>3, <1>4, <1>5, <1>6, <1>7, <1>8 DEF IInv

LEMMA DlopenInv ==
  ASSUME IInv, Careful, NEW t \in Threads, Dlopen(t), initAlone' = initAlone PROVE IInv'
<1> USE DEF Dlopen, Transition, gstate, driver
<1>1. PICK to \in {"dlsym", "idle"} : pc[t] = "dlopen" /\ pc' = [pc EXCEPT ![t] = to]
  OBVIOUS
<1>2. RefsInv' /\ libRefs' \in 0 .. MaxRefs
  <2>1. CASE libRefs' = libRefs
    BY <1>1, <2>1, RefsSame
  <2>2. CASE to = "dlsym" /\ libRefs' = libRefs + 1
    <3> DEFINE W == {u \in Threads : pc[u] \in {"init", "dlopen"}}
    <3>1. W' = W \ {t} /\ t \in W
      BY <1>1, <2>2 DEF IInv, TypeOK
    <3>2. IsFiniteSet(W) /\ Cardinality(W) \in Nat
      BY WantedFinite
    <3>3. Cardinality(W') = Cardinality(W) - 1 /\ Cardinality(W') \in Nat
      BY <3>1, <3>2, FS_RemoveElement, FS_CardinalityType
    <3>4. RefsWanted = libRefs + Cardinality(W) /\ RefsWanted' = libRefs' + Cardinality(W')
      BY DEF RefsWanted
    <3> HIDE DEF W
    <3> QED
      BY <2>2, <3>2, <3>3, <3>4, BackendAssumption DEF IInv, TypeOK, RefsInv
  <2>3. pc'[t] = to
    BY <1>1 DEF IInv, TypeOK
  <2> QED
    BY <1>1, <2>1, <2>2, <2>3
<1>3. TypeOK'
  BY <1>1, <1>2 DEF IInv, TypeOK, Steps, InitSteps, ShutdownSteps, ApiSteps
<1>4. TmpInv'
  BY <1>1 DEF IInv, TypeOK, TmpInv
<1>5. ShutdownInv'
  BY <1>1, NoShutdown DEF IInv, TypeOK, ShutdownInv, ShutdownSteps
<1>6. LibraryInv'
  <2>1. InUse' => InUse
    BY <1>1 DEF IInv, TypeOK, InUse, CallSteps, ApiSteps
  <2>2. pc'[t] = to
    BY <1>1 DEF IInv, TypeOK
  <2>3. CASE to = "dlsym"
    BY <1>1, <2>1, <2>2, <2>3 DEF IInv, TypeOK, LibraryInv, Callable
  <2>4. CASE to = "idle"
    BY <1>1, <2>1, <2>2, <2>4 DEF IInv, TypeOK, LibraryInv, Callable
  <2> QED
    BY <2>3, <2>4
<1>7. AloneInv'
  BY <1>1, NoShutdown DEF IInv, TypeOK, AloneInv, Making, Ready, Callable, InShutdown, TmpInv, InitSteps, ShutdownSteps, ApiSteps
<1>8. CallsReachLibrary'
  BY DEF IInv, CallsReachLibrary
<1> QED
  BY <1>2, <1>3, <1>4, <1>5, <1>6, <1>7, <1>8 DEF IInv

LEMMA DlsymInv ==
  ASSUME IInv, Careful, NEW t \in Threads, Dlsym(t), initAlone' = initAlone PROVE IInv'
<1> USE DEF Dlsym, Transition, gstate, driver
<1>1. PICK to \in {"device", "idle"} : pc[t] = "dlsym" /\ pc' = [pc EXCEPT ![t] = to]
  OBVIOUS
<1>2. RefsInv' /\ libRefs' \in 0 .. MaxRefs
  BY <1>1, RefsSame
<1>3. TypeOK'
  BY <1>1, <1>2 DEF IInv, TypeOK, Steps, InitSteps, ShutdownSteps, ApiSteps
<1>4. TmpInv'
  BY <1>1 DEF IInv, TypeOK, TmpInv
<1>5. ShutdownInv'
  BY <1>1, NoShutdown DEF IInv, TypeOK, ShutdownInv, ShutdownSteps
<1>6. LibraryInv'
  <2>1. pc'[t] = to
    BY <1>1 DEF IInv, TypeOK
  <2>2. CASE to = "device"
    BY <1>1, <2>1, <2>2 DEF IInv, TypeOK, LibraryInv, Callable
  <2>3. CASE to = "idle"
    <3>1. InUse' => InUse
      BY <1>1, <2>3 DEF IInv, TypeOK, InUse, CallSteps, ApiSteps
    <3>2. ~InUse
      BY <1>1, <2>1, <2>3 DEF IInv, LibraryInv, Callable
    <3> QED
      BY <1>1, <2>3, <3>1, <3>2 DEF IInv, TypeOK, LibraryInv
  <2> QED
    BY <2>2, <2>3
<1>7. AloneInv'
  BY <1>1, NoShutdown DEF IInv, TypeOK, AloneInv, Making, Ready, Callable, InShutdown, TmpInv, InitSteps, ShutdownSteps, ApiSteps
<1>8. CallsReachLibrary'
  BY DEF IInv, CallsReachLibrary
<1> QED
  BY <1>2, <1>3, <1>4, <1>5, <1>6, <1>7, <1>8 DEF IInv

LEMMA QueryDeviceInv ==
  ASSUME IInv, Careful, NEW t \in Threads, QueryDevice(t), initAlone' = initAlone PROVE IInv'
<1> USE DEF QueryDevice, Transition, gstate, driver
<1>1. PICK to \in {"createContext", "idle"} : pc[t] = "device" /\ pc' = [pc EXCEPT ![t] = to]
  OBVIOUS
<1>2. RefsInv' /\ libRefs' \in 0 .. MaxRefs
  BY <1>1, RefsSame
<1>3. TypeOK'
  <2>1. badCall' \in BOOLEAN
    BY DEF IInv, TypeOK, ThroughGFunc
  <2> QED
    BY <1>1, <1>2, <2>1 DEF IInv, TypeOK, Steps, InitSteps, ShutdownSteps, ApiSteps
<1>4. TmpInv'
  BY <1>1 DEF IInv, TypeOK, TmpInv
<1>5. ShutdownInv'
  BY <1>1, NoShutdown DEF IInv, TypeOK, ShutdownInv, ShutdownSteps
<1>6. LibraryInv'
  <2>1. InUse' => InUse
    BY <1>1 DEF IInv, TypeOK, InUse, CallSteps, ApiSteps
  <2> QED
    BY <1>1, <2>1, LibraryKept
<1>7. AloneInv'
  BY <1>1, NoShutdown DEF IInv, TypeOK, AloneInv, Making, Ready, Callable, InShutdown, TmpInv, InitSteps, ShutdownSteps, ApiSteps
<1>8. CallsReachLibrary'
  <2>1. InUse
    BY <1>1 DEF InUse, CallSteps, ApiSteps
  <2> QED
    BY <2>1, CallsWell
<1> QED
  BY <1>2, <1>3, <1>4, <1>5, <1>6, <1>7, <1>8 DEF IInv

LEMMA CreateContextInv ==
  ASSUME IInv, Careful, NEW t \in Threads, CreateContext(t), initAlone' = initAlone PROVE IInv'
<1> USE DEF CreateContext, Transition, gstate, driver
<1>1. PICK to \in {"storeContext"} : pc[t] = "createContext" /\ pc' = [pc EXCEPT ![t] = to]
  OBVIOUS
<1>2. RefsInv' /\ libRefs' \in 0 .. MaxRefs
  BY <1>1, RefsSame
<1>3. TypeOK'
  <2>1. badCall' \in BOOLEAN
    BY DEF IInv, TypeOK, ThroughGFunc
  <2> QED
    BY <1>1, <1>2, <2>1 DEF IInv, TypeOK, Steps, InitSteps, ShutdownSteps, ApiSteps
<1>4. TmpInv'
  BY <1>1 DEF IInv, TypeOK, TmpInv
<1>5. ShutdownInv'
  BY <1>1, NoShutdown DEF IInv, TypeOK, ShutdownInv, ShutdownSteps
<1>6. LibraryInv'
  <2>1. InUse' => InUse
    BY <1>1 DEF IInv, TypeOK, InUse, CallSteps, ApiSteps
  <2> QED
    BY <1>1, <2>1, LibraryKept
<1>7. AloneInv'
  BY <1>1, NoShutdown DEF IInv, TypeOK, AloneInv, Making, Ready, Callable, InShutdown, TmpInv, InitSteps, ShutdownSteps, ApiSteps
<1>8. CallsReachLibrary'
  <2>1. InUse
    BY <1>1 DEF InUse, CallSteps, ApiSteps
  <2> QED
    BY <2>1, CallsWell
<1> QED
  BY <1>2, <1>3, <1>4, <1>5, <1>6, <1>7, <1>8 DEF IInv

LEMMA StoreContextInv ==
  ASSUME IInv, Careful, NEW t \in Threads, StoreContext(t), initAlone' = initAlone PROVE IInv'
<1> USE DEF StoreContext, Transition, gstate, driver
<1>1. PICK to \in {"idle", "createQueue"} : pc[t] = "storeContext" /\ pc' = [pc EXCEPT ![t] = to]
  OBVIOUS
<1>2. RefsInv' /\ libRefs' \in 0 .. MaxRefs
  BY <1>1, RefsSame
<1>3. TypeOK'
  BY <1>1, <1>2 DEF IInv, TypeOK, TmpInv, Steps, InitSteps, ShutdownSteps, ApiSteps
<1>4. TmpInv'
  BY <1>1 DEF IInv, TypeOK, TmpInv
<1>5. ShutdownInv'
  BY <1>1, NoShutdown DEF IInv, TypeOK, ShutdownInv, ShutdownSteps
<1>6. LibraryInv'
  <2>1. InUse' => InUse
    BY <1>1 DEF IInv, TypeOK, InUse, CallSteps, ApiSteps
  <2> QED
    BY <1>1, <2>1, LibraryKept
<1>7. AloneInv'
  BY <1>1, NoShutdown DEF IInv, TypeOK, AloneInv, Making, Ready, Callable, InShutdown, TmpInv, InitSteps, ShutdownSteps, ApiSteps
<1>8. CallsReachLibrary'
  BY DEF IInv, CallsReachLibrary
<1> QED
  BY <1>2, <1>3, <1>4, <1>5, <1>6, <1>7, <1>8 DEF IInv

LEMMA CreateQueueInv ==
  ASSUME IInv, Careful, NEW t \in Threads, CreateQueue(t), initAlone' = initAlone PROVE IInv'
<1> USE DEF CreateQueue, Transition, gstate, driver
<1>1. PICK to \in {"storeQueue"} : pc[t] = "createQueue" /\ pc' = [pc EXCEPT ![t] = to]
  OBVIOUS
<1>2. RefsInv' /\ libRefs' \in 0 .. MaxRefs
  BY <1>1, RefsSame
<1>3. TypeOK'
  <2>1. Cardinality(Contexts) \in Nat
    BY BackendAssumption, FS_CardinalityType
  <2>2. badCall' \in BOOLEAN
    BY DEF IInv, TypeOK, ThroughGFunc
  <2>3. refused' \in 0 .. Cardinality(Contexts)
    BY <2>1 DEF IInv, TypeOK
  <2> QED
    BY <1>1, <1>2, <2>2, <2>3 DEF IInv, TypeOK, Steps, InitSteps, ShutdownSteps, ApiSteps
<1>4. TmpInv'
  BY <1>1 DEF IInv, TypeOK, TmpInv
<1>5. ShutdownInv'
  BY <1>1, NoShutdown DEF IInv, TypeOK, ShutdownInv, ShutdownSteps
<1>6. LibraryInv'
  <2>1. InUse' => InUse
    BY <1>1 DEF IInv, TypeOK, InUse, CallSteps, ApiSteps
  <2> QED
    BY <1>1, <2>1, LibraryKept
<1>7. AloneInv'
  BY <1>1, NoShutdown DEF IInv, TypeOK, AloneInv, Making, Ready, Callable, InShutdown, TmpInv, InitSteps, ShutdownSteps, ApiSteps
<1>8. CallsReachLibrary'
  <2>1. InUse
    BY <1>1 DEF InUse, CallSteps, ApiSteps
  <2> QED
    BY <2>1, CallsWell
<1> QED
  BY <1>2, <1>3, <1>4, <1>5, <1>6, <1>7, <1>8 DEF IInv

LEMMA StoreQueueInv ==
  ASSUME IInv, Careful, NEW t \in Threads, StoreQueue(t), initAlone' = initAlone PROVE IInv'
<1> USE DEF StoreQueue, Transition, gstate, driver
<1>1. PICK to \in {"idle", "setFlag"} : pc[t] = "storeQueue" /\ pc' = [pc EXCEPT ![t] = to]
  OBVIOUS
<1>2. RefsInv' /\ libRefs' \in 0 .. MaxRefs
  BY <1>1, RefsSame
<1>3. TypeOK'
  BY <1>1, <1>2 DEF IInv, TypeOK, TmpInv, Steps, InitSteps, ShutdownSteps, ApiSteps
<1>4. TmpInv'
  BY <1>1 DEF IInv, TypeOK, TmpInv
<1>5. ShutdownInv'
  BY <1>1, NoShutdown DEF IInv, TypeOK, ShutdownInv, ShutdownSteps
<1>6. LibraryInv'
  <2>1. InUse' => InUse
    BY <1>1 DEF IInv, TypeOK, InUse, CallSteps, ApiSteps
  <2> QED
    BY <1>1, <2>1, LibraryKept
<1>7. AloneInv'
  BY <1>1, NoShutdown DEF IInv, TypeOK, AloneInv, Making, Ready, Callable, InShutdown, TmpInv, InitSteps, ShutdownSteps, ApiSteps
<1>8. CallsReachLibrary'
  BY DEF IInv, CallsReachLibrary
<1> QED
  BY <1>2, <1>3, <1>4, <1>5, <1>6, <1>7, <1>8 DEF IInv

LEMMA SetFlagInv ==
  ASSUME IInv, Careful, NEW t \in Threads, SetFlag(t), initAlone' = initAlone PROVE IInv'
<1> USE DEF SetFlag, Transition, gstate, driver
<1>1. PICK to \in {"malloc"} : pc[t] = "setFlag" /\ pc' = [pc EXCEPT ![t] = to]
  OBVIOUS
<1>2. RefsInv' /\ libRefs' \in 0 .. MaxRefs
  BY <1>1, RefsSame
<1>3. TypeOK'
  BY <1>1, <1>2 DEF IInv, TypeOK, Steps, InitSteps, ShutdownSteps, ApiSteps
<1>4. TmpInv'
  BY <1>1 DEF IInv, TypeOK, TmpInv
<1>5. ShutdownInv'
  BY <1>1, NoShutdown DEF IInv, TypeOK, ShutdownInv, ShutdownSteps
<1>6. LibraryInv'
  <2>1. InUse' => InUse
    BY <1>1 DEF IInv, TypeOK, InUse, CallSteps, ApiSteps
  <2> QED
    BY <1>1, <2>1, LibraryKept
<1>7. AloneInv'
  BY <1>1, NoShutdown DEF IInv, TypeOK, AloneInv, Making, Ready, Callable, InShutdown, ShutdownInv, TmpInv, LibraryInv, InUse, CallSteps, InitSteps, ShutdownSteps, ApiSteps
<1>8. CallsReachLibrary'
  BY DEF IInv, CallsReachLibrary
<1> QED
  BY <1>2, <1>3, <1>4, <1>5, <1>6, <1>7, <1>8 DEF IInv

LEMMA GpuMallocInv ==
  ASSUME IInv, Careful, NEW t \in Threads, GpuMalloc(t), initAlone' = initAlone PROVE IInv'
<1> USE DEF GpuMalloc, Transition, gstate, driver
<1>1. PICK to \in {"write", "idle"} : pc[t] = "malloc" /\ pc' = [pc EXCEPT ![t] = to]
  OBVIOUS
<1>2. RefsInv' /\ libRefs' \in 0 .. MaxRefs
  BY <1>1, RefsSame
<1>3. TypeOK'
  <2>1. badCall' \in BOOLEAN
    BY DEF IInv, TypeOK, ThroughGFunc
  <2> QED
    BY <1>1, <1>2, <2>1 DEF IInv, TypeOK, Steps, InitSteps, ShutdownSteps, ApiSteps
<1>4. TmpInv'
  BY <1>1 DEF IInv, TypeOK, TmpInv
<1>5. ShutdownInv'
  BY <1>1, NoShutdown DEF IInv, TypeOK, ShutdownInv, ShutdownSteps
<1>6. LibraryInv'
  <2>1. InUse' => InUse
    BY <1>1 DEF IInv, TypeOK, InUse, CallSteps, ApiSteps
  <2> QED
    BY <1>1, <2>1, LibraryKept
<1>7. AloneInv'
  BY <1>1, NoShutdown, BackendAssumption DEF IInv, TypeOK, AloneInv, Making, Ready, Callable, InShutdown, ShutdownInv, TmpInv, LibraryInv, InUse, CallSteps, InitSteps, ShutdownSteps, ApiSteps
<1>8. CallsReachLibrary'
  <2>1. InUse
    BY <1>1 DEF InUse, CallSteps, ApiSteps
  <2> QED
    BY <2>1, CallsWell
<1> QED
  BY <1>2, <1>3, <1>4, <1>5, <1>6, <1>7, <1>8 DEF IInv

LEMMA GpuWriteInv ==
  ASSUME IInv, Careful, NEW t \in Threads, GpuWrite(t), initAlone' = initAlone PROVE IInv'
<1> USE DEF GpuWrite, Transition, gstate, driver
<1>1. PICK to \in {"idle"} : pc[t] = "write" /\ pc' = [pc EXCEPT ![t] = to]
  OBVIOUS
<1>2. RefsInv' /\ libRefs' \in 0 .. MaxRefs
  BY <1>1, RefsSame
<1>3. TypeOK'
  <2>1. badCall' \in BOOLEAN
    BY DEF IInv, TypeOK, ThroughGFunc
  <2> QED
    BY <1>1, <1>2, <2>1 DEF IInv, TypeOK, Steps, InitSteps, ShutdownSteps, ApiSteps
<1>4. TmpInv'
  BY <1>1 DEF IInv, TypeOK, TmpInv
<1>5. ShutdownInv'
  BY <1>1, NoShutdown DEF IInv, TypeOK, ShutdownInv, ShutdownSteps
<1>6. LibraryInv'
  <2>1. InUse' => InUse
    BY <1>1 DEF IInv, TypeOK, InUse, CallSteps, ApiSteps
  <2> QED
    BY <1>1, <2>1, LibraryKept
<1>7. AloneInv'
  BY <1>1, NoShutdown DEF IInv, TypeOK, AloneInv, Making, Ready, Callable, InShutdown, TmpInv, InitSteps, ShutdownSteps, ApiSteps
<1>8. CallsReachLibrary'
  <2>1. InUse
    BY <1>1 DEF InUse, CallSteps, ApiSteps
  <2> QED
    BY <2>1, CallsWell
<1> QED
  BY <1>2, <1>3, <1>4, <1>5, <1>6, <1>7, <1>8 DEF IInv

LEMMA FreeEnterInv ==
  ASSUME IInv, Careful, NEW t \in Threads, FreeEnter(t), initAlone' = initAlone PROVE IInv'
<1> USE DEF FreeEnter, Transition, gstate, driver
<1>1. PICK to \in {"free"} : pc[t] = "idle" /\ pc' = [pc EXCEPT ![t] = to]
  OBVIOUS
<1>a. \A u \in Threads : pc[u] \notin ShutdownSteps
  BY DEF Careful, MayEnter
<1>2. RefsInv' /\ libRefs' \in 0 .. MaxRefs
  BY <1>1, RefsSame
<1>3. TypeOK'
  BY <1>1, <1>2 DEF IInv, TypeOK, Steps, InitSteps, ShutdownSteps, ApiSteps
<1>4. TmpInv'
  BY <1>1 DEF IInv, TypeOK, TmpInv
<1>5. ShutdownInv'
  BY <1>1, <1>a DEF IInv, TypeOK, ShutdownInv, ShutdownSteps
<1>6. LibraryInv'
  <2>1. InUse' => InUse
    BY <1>1 DEF IInv, TypeOK, InUse, CallSteps, ApiSteps
  <2> QED
    BY <1>1, <2>1, LibraryKept
<1>7. AloneInv'
  BY <1>1, <1>a DEF IInv, TypeOK, AloneInv, Making, Ready, Callable, InShutdown, InitSteps, ShutdownSteps, ApiSteps
<1>8. CallsReachLibrary'
  BY DEF IInv, CallsReachLibrary
<1> QED
  BY <1>2, <1>3, <1>4, <1>5, <1>6, <1>7, <1>8 DEF IInv

LEMMA GpuFreeInv ==
  ASSUME IInv, Careful, NEW t \in Threads, GpuFree(t), initAlone' = initAlone PROVE IInv'
<1> USE DEF GpuFree, Transition, gstate, driver
<1>1. PICK to \in {"idle"} : pc[t] = "free" /\ pc' = [pc EXCEPT ![t] = to]
  OBVIOUS
<1>2. RefsInv' /\ libRefs' \in 0 .. MaxRefs
  BY <1>1, RefsSame
<1>3. TypeOK'
  <2>1. badCall' \in BOOLEAN
    BY DEF IInv, TypeOK, ThroughGFunc
  <2> QED
    BY <1>1, <1>2, <2>1 DEF IInv, TypeOK, Steps, InitSteps, ShutdownSteps, ApiSteps
<1>4. TmpInv'
  BY <1>1 DEF IInv, TypeOK, TmpInv
<1>5. ShutdownInv'
  BY <1>1, NoShutdown DEF IInv, TypeOK, ShutdownInv, ShutdownSteps
<1>6. LibraryInv'
  <2>1. InUse' => InUse
    BY <1>1 DEF IInv, TypeOK, InUse, CallSteps, ApiSteps
  <2> QED
    BY <1>1, <2>1, LibraryKept
<1>7. AloneInv'
  BY <1>1, NoShutdown DEF IInv, TypeOK, AloneInv, Making, Ready, Callable, InShutdown, TmpInv, InitSteps, ShutdownSteps, ApiSteps
<1>8. CallsReachLibrary'
  <2>1. InUse
    BY <1>1 DEF InUse, CallSteps, ApiSteps
  <2> QED
    BY <2>1, CallsWell
<1> QED
  BY <1>2, <1>3, <1>4, <1>5, <1>6, <1>7, <1>8 DEF IInv

LEMMA ShutdownEnterInv ==
  ASSUME IInv, Careful, NEW t \in Threads, ShutdownEnter(t), initAlone' = initAlone PROVE IInv'
<1> USE DEF ShutdownEnter, Transition, gstate, driver
<1>1. PICK to \in {"relQueue"} : pc[t] = "idle" /\ pc' = [pc EXCEPT ![t] = to]
  OBVIOUS
<1>a. \A u \in Threads : pc[u] = "idle" /\ buf[u] = Null
  BY DEF Careful, MayShutdown
<1>2. RefsInv' /\ libRefs' \in 0 .. MaxRefs
  BY <1>1, RefsSame
<1>3. TypeOK'
  BY <1>1, <1>2 DEF IInv, TypeOK, Steps, InitSteps, ShutdownSteps, ApiSteps
<1>4. TmpInv'
  BY <1>1 DEF IInv, TypeOK, TmpInv
<1>5. ShutdownInv'
  BY <1>1, <1>a DEF IInv, TypeOK, ShutdownInv, ShutdownSteps
<1>6. LibraryInv'
  <2>1. InUse' => InUse
    BY <1>1 DEF IInv, TypeOK, InUse, CallSteps, ApiSteps
  <2> QED
    BY <1>1, <2>1, LibraryKept
<1>7. AloneInv'
  BY <1>1, <1>a DEF IInv, TypeOK, AloneInv, Making, InShutdown, InitSteps, ShutdownSteps, ApiSteps
<1>8. CallsReachLibrary'
  BY DEF IInv, CallsReachLibrary
<1> QED
  BY <1>2, <1>3, <1>4, <1>5, <1>6, <1>7, <1>8 DEF IInv

LEMMA ReleaseQueueInv ==
  ASSUME IInv, Careful, NEW t \in Threads, ReleaseQueue(t), initAlone' = initAlone PROVE IInv'
<1> USE DEF ReleaseQueue, Transition, gstate, driver
<1>1. PICK to \in {"relContext"} : pc[t] = "relQueue" /\ pc' = [pc EXCEPT ![t] = to]
  OBVIOUS
<1>2. RefsInv' /\ libRefs' \in 0 .. MaxRefs
  BY <1>1, RefsSame
<1>3. TypeOK'
  <2>1. badCall' \in BOOLEAN
    BY DEF IInv, TypeOK, ThroughGFunc
  <2> QED
    BY <1>1, <1>2, <2>1 DEF IInv, TypeOK, Steps, InitSteps, ShutdownSteps, ApiSteps
<1>4. TmpInv'
  BY <1>1 DEF IInv, TypeOK, TmpInv
<1>5. ShutdownInv'
  BY <1>1 DEF IInv, TypeOK, ShutdownInv, ShutdownSteps
<1>6. LibraryInv'
  <2>1. InUse' => InUse
    BY <1>1 DEF IInv, TypeOK, InUse, CallSteps, ApiSteps
  <2> QED
    BY <1>1, <2>1, LibraryKept
<1>7. AloneInv'
  BY <1>1 DEF IInv, TypeOK, AloneInv, Making, InShutdown, ShutdownInv, InitSteps, ShutdownSteps, ApiSteps
<1>8. CallsReachLibrary'
  <2>1. CASE queue = Null
    BY <2>1, BackendAssumption DEF IInv, CallsReachLibrary
  <2>2. CASE queue # Null
    <3>1. InUse
      BY <2>2 DEF InUse
    <3> QED
      BY <2>2, <3>1, CallsWell
  <2> QED
    BY <2>1, <2>2
<1> QED
  BY <1>2, <1>3, <1>4, <1>5, <1>6, <1>7, <1>8 DEF IInv

LEMMA ReleaseContextInv ==
  ASSUME IInv, Careful, NEW t \in Threads, ReleaseContext(t), initAlone' = initAlone PROVE IInv'
<1> USE DEF ReleaseContext, Transition, gstate, driver
<1>1. PICK to \in {"dlclose"} : pc[t] = "relContext" /\ pc' = [pc EXCEPT ![t] = to]
  OBVIOUS
<1>2. RefsInv' /\ libRefs' \in 0 .. MaxRefs
  BY <1>1, RefsSame
<1>3. TypeOK'
  <2>1. badCall' \in BOOLEAN
    BY DEF IInv, TypeOK, ThroughGFunc
  <2> QED
    BY <1>1, <1>2, <2>1 DEF IInv, TypeOK, Steps, InitSteps, ShutdownSteps, ApiSteps
<1>4. TmpInv'
  BY <1>1 DEF IInv, TypeOK, TmpInv
<1>5. ShutdownInv'
  BY <1>1 DEF IInv, TypeOK, ShutdownInv, ShutdownSteps
<1>6. LibraryInv'
  <2>1. InUse' => InUse
    BY <1>1 DEF IInv, TypeOK, InUse, CallSteps, ApiSteps
  <2> QED
    BY <1>1, <2>1, LibraryKept
<1>7. AloneInv'
  BY <1>1 DEF IInv, TypeOK, AloneInv, Making, InShutdown, ShutdownInv, InitSteps, ShutdownSteps, ApiSteps
<1>8. CallsReachLibrary'
  <2>1. CASE context = Null
    BY <2>1, BackendAssumption DEF IInv, CallsReachLibrary
  <2>2. CASE context # Null
    <3>1. InUse
      BY <2>2 DEF InUse
    <3> QED
      BY <2>2, <3>1, CallsWell
  <2> QED
    BY <2>1, <2>2
<1> QED
  BY <1>2, <1>3, <1>4, <1>5, <1>6, <1>7, <1>8 DEF IInv

LEMMA DlcloseInv ==
  ASSUME IInv, Careful, NEW t \in Threads, Dlclose(t), initAlone' = initAlone PROVE IInv'
<1> USE DEF Dlclose, Transition, gstate, driver
<1>1. PICK to \in {"clearFlag"} : pc[t] = "dlclose" /\ pc' = [pc EXCEPT ![t] = to]
  OBVIOUS
<1>2. RefsInv' /\ libRefs' \in 0 .. MaxRefs
  <2>1. libRefs \in Nat /\ (hCL => libRefs > 0)
    BY BackendAssumption DEF IInv, TypeOK, LibraryInv
  <2>2. libRefs' \in Nat /\ libRefs' <= libRefs
    BY <2>1
  <2> QED
    BY <1>1, <2>2, RefsKept
<1>3. TypeOK'
  BY <1>1, <1>2 DEF IInv, TypeOK, Steps, InitSteps, ShutdownSteps, ApiSteps
<1>4. TmpInv'
  BY <1>1 DEF IInv, TypeOK, TmpInv
<1>5. ShutdownInv'
  BY <1>1 DEF IInv, TypeOK, ShutdownInv, ShutdownSteps
<1>6. LibraryInv'
  <2>1. ~InUse'
    BY <1>1 DEF IInv, TypeOK, ShutdownInv, InUse, CallSteps, ApiSteps, ShutdownSteps
  <2>2. \A u \in Threads : pc'[u] # "dlsym"
    BY <1>1 DEF IInv, TypeOK, ShutdownInv, ShutdownSteps
  <2> QED
    BY <2>1, <2>2 DEF LibraryInv
<1>7. AloneInv'
  BY <1>1 DEF IInv, TypeOK, AloneInv, Making, InShutdown, ShutdownInv, InitSteps, ShutdownSteps, ApiSteps
<1>8. CallsReachLibrary'
  BY DEF IInv, CallsReachLibrary
<1> QED
  BY <1>2, <1>3, <1>4, <1>5, <1>6, <1>7, <1>8 DEF IInv

LEMMA ClearFlagInv ==
  ASSUME IInv, Careful, NEW t \in Threads, ClearFlag(t), initAlone' = initAlone PROVE IInv'
<1> USE DEF ClearFlag, Transition, gstate, driver
<1>1. PICK to \in {"idle"} : pc[t] = "clearFlag" /\ pc' = [pc EXCEPT ![t] = to]
  OBVIOUS
<1>2. RefsInv' /\ libRefs' \in 0 .. MaxRefs
  BY <1>1, RefsSame
<1>3. TypeOK'
  BY <1>1, <1>2 DEF IInv, TypeOK, Steps, InitSteps, ShutdownSteps, ApiSteps
<1>4. TmpInv'
  BY <1>1 DEF IInv, TypeOK, TmpInv
<1>5. ShutdownInv'
  BY <1>1 DEF IInv, TypeOK, ShutdownInv, ShutdownSteps
<1>6. LibraryInv'
  <2>1. ~InUse'
    BY <1>1 DEF IInv, TypeOK, ShutdownInv, InUse, CallSteps, ApiSteps, ShutdownSteps
  <2>2. \A u \in Threads : pc'[u] # "dlsym"
    BY <1>1 DEF IInv, TypeOK, ShutdownInv, ShutdownSteps
  <2> QED
    BY <2>1, <2>2 DEF IInv, LibraryInv
<1>7. AloneInv'
  BY <1>1 DEF IInv, TypeOK, AloneInv, Making, InShutdown, ShutdownInv, InitSteps, ShutdownSteps, ApiSteps
<1>8. CallsReachLibrary'
  BY DEF IInv, CallsReachLibrary
<1> QED
  BY <1>2, <1>3, <1>4, <1>5, <1>6, <1>7, <1>8 DEF IInv

LEMMA NextInv == ASSUME Careful, IInv, [Next]_vars PROVE IInv'
<1>1. ASSUME NEW t \in Threads, InitCode(t), initAlone' = initAlone PROVE IInv'
  BY <1>1, EnterInv, InitCheckInv, DlopenInv, DlsymInv, QueryDeviceInv, CreateContextInv,
     StoreContextInv, CreateQueueInv, StoreQueueInv, SetFlagInv DEF InitCode
<1>2. ASSUME NEW t \in Threads, ApiCode(t), initAlone' = initAlone PROVE IInv'
  BY <1>2, GpuMallocInv, GpuWriteInv, FreeEnterInv, GpuFreeInv DEF ApiCode
<1>3. ASSUME NEW t \in Threads, ShutdownCode(t), initAlone' = initAlone PROVE IInv'
  BY <1>3, ShutdownEnterInv, ReleaseQueueInv, ReleaseContextInv, DlcloseInv, ClearFlagInv DEF ShutdownCode
<1>4. CASE UNCHANGED vars
  BY <1>4 DEF vars, gstate, driver, IInv, TypeOK, RefsInv, RefsWanted, TmpInv, ShutdownInv, LibraryInv,
              InUse, Callable, AloneInv, Making, Ready, InShutdown, CallsReachLibrary
<1> QED
  BY <1>1, <1>2, <1>3, <1>4 DEF Next

(* Every reachable state satisfies the inductive invariant, if the         *)
(* application shuts down alone and frees its buffers before.              *)
THEOREM Invariance == ASSUME Careful PROVE Spec => []IInv
<1>1. Init => IInv
  BY InvInit
<1>2. IInv /\ [Next]_vars => IInv'
  BY Careful, NextInv
<1> QED
  BY <1>1, <1>2, PTL DEF Spec

-----------------------------------------------------------------------------
(* The values every variable may take; in particular dlclose gives back    *)
(* only references that dlopen took.                                       *)
THEOREM TypeCorrect == ASSUME Careful PROVE Spec => []TypeOK
<1>1. IInv => TypeOK
  BY DEF IInv
<1> QED
  BY <1>1, Careful, Invariance, PTL

(* However many threads race through init(), and whichever calls fail, no  *)
(* pointer of g_func is called that does not point into a loaded library.  *)
THEOREM CallsAreSafe == ASSUME Careful PROVE Spec => []CallsReachLibrary
<1>1. IInv => CallsReachLibrary
  BY DEF IInv
<1> QED
  BY <1>1, Careful, Invariance, PTL

(* With one thread at a time in init(), a set flag means a backend that    *)
(* works.                                                                  *)
THEOREM FlagMeansReady == ASSUME Careful PROVE Spec => []InitializedMeansReady
<1>1. IInv => InitializedMeansReady
  BY DEF IInv, AloneInv, InitializedMeansReady
<1> QED
  BY <1>1, Careful, Invariance, PTL

(* Then a buffer is also written through a queue of its own context.       *)
THEOREM WritesFindTheirContext == ASSUME Careful PROVE Spec => []WritesMatchContext
<1>1. IInv => WritesMatchContext
  <2> SUFFICES ASSUME IInv, initAlone, NEW t \in Threads, pc[t] = "write"
               PROVE  queue # Null /\ queueCtx[queue] = buf[t]
    BY DEF WritesMatchContext
  <2>1. ~InShutdown
    BY NoShutdown DEF InShutdown, ShutdownSteps
  <2> QED
    BY <2>1 DEF IInv, AloneInv, ApiSteps, Ready
<1> QED
  BY <1>1, Careful, Invariance, PTL

-----------------------------------------------------------------------------
(* The contexts that nobody will use again: those that are not the         *)
(* backend's, nor about to be stored, nor the current one while it serves. *)
Serving ==
  \/ initialized
  \/ \E t \in Threads :
       \/ pc[t] \in {"createQueue", "setFlag"}
       \/ pc[t] = "storeQueue" /\ tmp[t] # Null
Coming == {c \in liveCtx : \E t \in Threads : pc[t] = "storeContext" /\ tmp[t] = c}
Dead == {c \in liveCtx : c \notin Coming /\ (Serving => c # context)}

(* Each of them was lost when a queue for it was refused.                  *)
LossInv == initAlone => Cardinality(Dead) <= refused

LEMMA DeadFinite ==
  ASSUME IInv
  PROVE  /\ Dead \subseteq Contexts /\ IsFiniteSet(Dead) /\ Cardinality(Dead) \in Nat
         /\ Cardinality(Dead) <= Cardinality(Contexts) /\ Cardinality(Contexts) \in Nat
<1>1. Dead \subseteq Contexts
  BY DEF Dead, IInv, TypeOK
<1> HIDE DEF Dead
<1> QED
  BY <1>1, BackendAssumption, FS_Subset, FS_CardinalityType

LEMMA NoNewLoss ==
  ASSUME IInv, LossInv, initAlone' = initAlone, refused' = refused, initAlone => Dead' \subseteq Dead
  PROVE  LossInv'
<1> SUFFICES ASSUME initAlone PROVE Cardinality(Dead') <= refused'
  BY DEF LossInv
<1>1. IsFiniteSet(Dead) /\ Cardinality(Dead) \in Nat /\ Cardinality(Dead) <= refused
  BY DeadFinite DEF LossInv
<1>2. IsFiniteSet(Dead') /\ Cardinality(Dead') \in Nat /\ Cardinality(Dead') <= Cardinality(Dead)
  BY <1>1, FS_Subset, FS_CardinalityType
<1>3. refused \in Nat
  BY DeadFinite DEF IInv, TypeOK
<1> QED
  BY <1>1, <1>2, <1>3

(* A refused queue takes its context along, and nothing else does.         *)
LEMMA CreateQueueLoss ==
  ASSUME IInv, LossInv, NEW t \in Threads, CreateQueue(t), initAlone' = initAlone, IInv'
  PROVE  LossInv'
<1> USE DEF CreateQueue, Transition, gstate
<1> SUFFICES ASSUME initAlone PROVE Cardinality(Dead') <= refused'
  BY DEF LossInv
<1>1. pc[t] = "createQueue" /\ pc' = [pc EXCEPT ![t] = "storeQueue"] /\ Serving /\ liveCtx' = liveCtx
  BY DEF Serving
<1>2. Coming' = Coming
  <2>1. ASSUME NEW u \in Threads
        PROVE  (pc'[u] = "storeContext" <=> pc[u] = "storeContext") /\ (pc[u] = "storeContext" => tmp'[u] = tmp[u])
    BY <1>1 DEF IInv, TypeOK
  <2> QED
    BY <1>1, <2>1 DEF Coming
<1>3. CASE refused' = refused /\ \E q \in Queues : tmp' = [tmp EXCEPT ![t] = q]
  <2>1. tmp'[t] # Null /\ pc'[t] = "storeQueue"
    BY <1>1, <1>3, BackendAssumption DEF IInv, TypeOK
  <2>2. Dead' \subseteq Dead
    BY <1>1, <1>2, <2>1 DEF Dead, Serving
  <2> QED
    BY <1>3, <2>2, NoNewLoss DEF LossInv
<1>4. CASE refused' = IF refused < Cardinality(Contexts) THEN refused + 1 ELSE refused
  <2>1. Dead' \subseteq Dead \cup {context}
    BY <1>1, <1>2 DEF Dead
  <2>2. /\ IsFiniteSet(Dead) /\ Cardinality(Dead) \in Nat /\ Cardinality(Dead) <= refused
        /\ Cardinality(Contexts) \in Nat
    BY DeadFinite DEF LossInv
  <2>3. /\ IsFiniteSet(Dead \cup {context}) /\ Cardinality(Dead \cup {context}) \in Nat
        /\ Cardinality(Dead \cup {context}) <= Cardinality(Dead) + 1
    <3>1. Cardinality(Dead \cup {context}) = IF context \in Dead THEN Cardinality(Dead) ELSE Cardinality(Dead) + 1
      BY <2>2, FS_AddElement
    <3>2. IsFiniteSet(Dead \cup {context})
      BY <2>2, FS_AddElement
    <3> QED
      BY <2>2, <3>1, <3>2
  <2>4. Cardinality(Dead') \in Nat /\ Cardinality(Dead') <= Cardinality(Dead \cup {context})
    BY <2>1, <2>3, FS_Subset, FS_CardinalityType
  <2>5. Cardinality(Dead') <= Cardinality(Contexts)
    <3>1. Dead' \subseteq Contexts
      BY DEF Dead, IInv, TypeOK
    <3> QED
      BY <3>1, BackendAssumption, FS_Subset
  <2>6. refused \in 0..Cardinality(Contexts)
    BY DEF IInv, TypeOK
  <2> QED
    BY <1>4, <2>2, <2>3, <2>4, <2>5, <2>6
<1> QED
  BY <1>3, <1>4

LEMMA LossNext == ASSUME Careful, IInv, LossInv, [Next]_vars PROVE LossInv'
<1> USE DEF Transition, gstate, driver
<1>1. CASE \E t \in Threads : CreateQueue(t)
  <2>1. IInv' /\ initAlone' = initAlone
    BY <1>1, NextInv, Careful DEF Next, CreateQueue, vars
  <2> QED
    BY <1>1, <2>1, CreateQueueLoss
<1>2. ASSUME NEW t \in Threads, ~CreateQueue(t), InitCode(t), initAlone' = initAlone
      PROVE  LossInv'
  <2>1. refused' = refused
    BY <1>2 DEF InitCode, Enter, InitCheck, Dlopen, Dlsym, QueryDevice, CreateContext, StoreContext,
               StoreQueue, SetFlag
  <2>2. \A u \in Threads : initAlone /\ u # t /\ pc[t] \in InitSteps => pc[u] \notin InitSteps
    BY DEF IInv, AloneInv
  <2>3. ASSUME initAlone PROVE Dead' \subseteq Dead
    <3>1. CASE CreateContext(t)
      BY <2>2, <2>3, <3>1 DEF CreateContext, Dead, Coming, Serving, InitSteps, IInv, TypeOK, TmpInv
    <3>2. CASE StoreContext(t)
      <4>1. pc[t] = "storeContext" /\ ~initialized /\ \A u \in Threads : u # t => pc[u] \notin InitSteps
        BY <2>2, <2>3, <3>2 DEF StoreContext, IInv, AloneInv, InitSteps
      <4>2. ~Serving
        BY <4>1 DEF Serving, InitSteps
      <4>3. Coming = {c \in liveCtx : c = tmp[t]}
        BY <4>1 DEF Coming, InitSteps
      <4>4. context' = tmp[t] /\ liveCtx' = liveCtx
        BY <3>2 DEF StoreContext
      <4>5. tmp[t] # Null => pc'[t] = "createQueue"
        BY <3>2 DEF StoreContext, IInv, TypeOK
      <4>6. Null \notin liveCtx
        BY BackendAssumption DEF IInv, TypeOK
      <4>7. tmp[t] # Null => Serving'
        BY <4>5 DEF Serving
      <4> QED
        BY <4>2, <4>3, <4>4, <4>6, <4>7 DEF Dead
    <3>3. CASE StoreQueue(t)
      BY <2>2, <2>3, <3>3 DEF StoreQueue, Dead, Coming, Serving, InitSteps, IInv, TypeOK, TmpInv
    <3>4. CASE SetFlag(t)
      BY <2>2, <2>3, <3>4 DEF SetFlag, Dead, Coming, Serving, InitSteps, IInv, TypeOK, TmpInv
    <3>5. CASE Enter(t) \/ InitCheck(t) \/ Dlopen(t) \/ Dlsym(t) \/ QueryDevice(t)
      BY <3>5 DEF Enter, InitCheck, Dlopen, Dlsym, QueryDevice, Dead, Coming, Serving, IInv, TypeOK
    <3> QED
      BY <1>2, <3>1, <3>2, <3>3, <3>4, <3>5 DEF InitCode
  <2> QED
    BY <1>2, <2>1, <2>3, NoNewLoss
<1>3. ASSUME NEW t \in Threads, ApiCode(t), initAlone' = initAlone PROVE LossInv'
  <2>1. refused' = refused /\ Dead' \subseteq Dead
    BY <1>3 DEF ApiCode, GpuMalloc, GpuWrite, FreeEnter, GpuFree, Dead, Coming, Serving, IInv, TypeOK
  <2> QED
    BY <1>3, <2>1, NoNewLoss
<1>4. ASSUME NEW t \in Threads, ShutdownCode(t), initAlone' = initAlone PROVE LossInv'
  <2>1. refused' = refused
    BY <1>4 DEF ShutdownCode, ShutdownEnter, ReleaseQueue, ReleaseContext, Dlclose, ClearFlag
  <2>2. Dead' \subseteq Dead
    <3>1. CASE ReleaseContext(t)
      BY <3>1 DEF ReleaseContext, Dead, Coming, Serving, IInv, TypeOK
    <3>2. CASE ClearFlag(t)
      <4>1. context = Null /\ context' = Null /\ liveCtx' = liveCtx /\ Null \notin liveCtx
        BY <3>2, BackendAssumption DEF ClearFlag, IInv, TypeOK, ShutdownInv, ShutdownSteps
      <4>2. Coming' = Coming
        BY <3>2 DEF ClearFlag, Coming, IInv, TypeOK
      <4> QED
        BY <4>1, <4>2 DEF Dead
    <3>3. CASE ShutdownEnter(t) \/ ReleaseQueue(t) \/ Dlclose(t)
      BY <3>3 DEF ShutdownEnter, ReleaseQueue, Dlclose, Dead, Coming, Serving, IInv, TypeOK
    <3> QED
      BY <1>4, <3>1, <3>2, <3>3 DEF ShutdownCode
  <2> QED
    BY <1>4, <2>1, <2>2, NoNewLoss
<1>5. CASE UNCHANGED vars
  BY <1>5 DEF vars, LossInv, Dead, Coming, Serving
<1> QED
  BY <1>1, <1>2, <1>3, <1>4, <1>5 DEF Next

(* With one thread at a time in init(), a context is lost only when a      *)
(* clCreateCommandQueue failed, whatever else failed, and however often    *)
(* the backend was shut down.                                              *)
THEOREM LossesAreRefusals == ASSUME Careful PROVE Spec => []OnlyRefusedQueuesLeak
<1>1. Init => LossInv
  <2>1. Init => Dead = {} /\ refused = 0
    BY DEF Init, Dead
  <2> QED
    BY <2>1, FS_EmptySet DEF LossInv
<1>2. IInv /\ LossInv /\ [Next]_vars => LossInv'
  BY Careful, LossNext
<1>3. IInv /\ LossInv => OnlyRefusedQueuesLeak
  <2> SUFFICES ASSUME IInv, LossInv, initAlone
               PROVE  Cardinality(liveCtx \ ({context} \cup {tmp[t] : t \in Threads})) <= refused
    BY DEF OnlyRefusedQueuesLeak
  <2> DEFINE L == liveCtx \ ({context} \cup {tmp[t] : t \in Threads})
  <2>1. L \subseteq Dead
    BY DEF Dead, Coming
  <2> HIDE DEF L
  <2>2. IsFiniteSet(Dead) /\ Cardinality(Dead) \in Nat /\ Cardinality(Dead) <= refused /\ refused \in Nat
    <3>1. refused \in 0..Cardinality(Contexts) /\ Cardinality(Contexts) \in Nat
      BY DeadFinite DEF IInv, TypeOK
    <3> QED
      BY <3>1, DeadFinite DEF LossInv
  <2>3. Cardinality(L) \in Nat /\ Cardinality(L) <= Cardinality(Dead)
    BY <2>1, <2>2, FS_Subset, FS_CardinalityType
  <2>4. Cardinality(L) <= refused
    BY <2>2, <2>3
  <2> QED
    BY <2>4 DEF L
<1> QED
  BY <1>1, <1>2, <1>3, Careful, Invariance, PTL DEF Spec
=============================================================================
