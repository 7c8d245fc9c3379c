--------------------------- MODULE PyDeviceProofs ---------------------------
(***************************************************************************)
(* Theorems about PyDevice, for any number of devices, contexts, queues    *)
(* and buffers and any bounds.                                             *)
(***************************************************************************)
EXTENDS PyDevice, TLAPS

(* A device that is up and was given handles of its own shares them with   *)
(* no other object, and so keeps them.                                     *)
ContextsInv ==
  /\ \A i \in Ids : state[i] # "absent" => ctx[i] \in Contexts /\ queue[i] \in Queues
  /\ \A i \in Ids : state[i] = "absent" => ctx[i] = None
  /\ \A i \in Ids \ heirs, j \in Ids :
       Up(i) /\ state[j] # "absent" /\ (ctx[j] = ctx[i] \/ queue[j] = queue[i]) => j = i
  /\ DevicesKeepQueues

(* A kernel keeps its context from being handed out again, so the kernel   *)
(* of an id is of that id's context or of one that no device has for its   *)
(* own.                                                                    *)
KernelsInv ==
  /\ \A i \in Ids : cache[i] # None => cache[i] \in kept
  /\ \A i \in Ids \ reused : cache[i] = None \/ (state[i] # "absent" /\ cache[i] = ctx[i])
  /\ \A i \in Ids, j \in Ids \ heirs : Up(j) /\ cache[i] = ctx[j] => j = i

(* A handle is in one list, once, while its buffer exists, and the model   *)
(* and the loader of a device that is up name handles of its list, each    *)
(* its own.                                                                *)
Owns(i) ==
  /\ \A h \in Handles : buffers[i][h] <= 1
  /\ ~Up(i) => In(buffers[i]) = {}
  /\ state[i] = "absent" => In(loader[i]) = {} /\ model[i] = {}
  /\ Up(i) =>
       /\ \A h \in In(buffers[i]) : bufCtx[h] = ctx[i]
       /\ InUse(i) \subseteq In(buffers[i])
       /\ i \notin closed => model[i] \cap In(loader[i]) = {}
Apart == \A i, j \in Ids : \A h \in Handles : h \in In(buffers[i]) /\ h \in In(buffers[j]) => i = j
OwnersInv == careless = 0 => Apart /\ \A i \in Ids : Owns(i)

IInv == TypeOK /\ ContextsInv /\ KernelsInv /\ OwnersInv /\ BuffersAreListed

-----------------------------------------------------------------------------
(* What malloc and free do to a list, entry by entry.                      *)

LEMMA MallocEffect ==
  ASSUME TypeOK, NEW i \in Ids, NEW h \in Handles, ctx[i] \in Contexts, Malloc(i, h)
  PROVE  /\ buffers' \in [Ids -> [Handles -> 0..MaxCopies]]
         /\ bufCtx' \in [Handles -> Contexts \cup {None}]
         /\ \A j \in Ids, g \in Handles :
              buffers'[j][g] = buffers[j][g] + IF j = i /\ g = h THEN 1 ELSE 0
         /\ \A g \in Handles : bufCtx'[g] = IF g = h THEN ctx[i] ELSE bufCtx[g]
<1>1. buffers \in [Ids -> [Handles -> 0..MaxCopies]] /\ MaxCopies \in Nat
  BY DeviceAssumption DEF TypeOK
<1>2. Append1(buffers[i], h) \in [Handles -> 0..MaxCopies]
  <2>1. buffers[i] \in [Handles -> 0..MaxCopies] /\ buffers[i][h] < MaxCopies
    BY <1>1 DEF Malloc
  <2>2. buffers[i][h] + 1 \in 0..MaxCopies
    BY <1>1, <2>1
  <2> QED
    BY <2>1, <2>2 DEF Append1
<1>3. buffers' = [buffers EXCEPT ![i] = Append1(buffers[i], h)]
  BY DEF Malloc
<1>4. \A j \in Ids : buffers'[j] = IF j = i THEN Append1(buffers[i], h) ELSE buffers[j]
  BY <1>1, <1>3
<1>5. \A g \in Handles : Append1(buffers[i], h)[g] = buffers[i][g] + IF g = h THEN 1 ELSE 0
  BY <1>1 DEF Append1
<1>6. buffers' \in [Ids -> [Handles -> 0..MaxCopies]]
  BY <1>1, <1>2, <1>3
<1>7. \A j \in Ids, g \in Handles :
        buffers'[j][g] = buffers[j][g] + IF j = i /\ g = h THEN 1 ELSE 0
  BY <1>1, <1>4, <1>5
<1> QED
  BY <1>6, <1>7 DEF Malloc, TypeOK

LEMMA FreeEffect ==
  ASSUME TypeOK, NEW i \in Ids, NEW l \in [Handles -> 0..MaxCopies], FreeAll(i, l)
  PROVE  /\ buffers' \in [Ids -> [Handles -> 0..MaxCopies]]
         /\ bufCtx' \in [Handles -> Contexts \cup {None}]
         /\ \A j \in Ids : j # i => buffers'[j] = buffers[j]
         /\ \A h \in Handles : buffers'[i][h] = IF l[h] < buffers[i][h] THEN buffers[i][h] - l[h] ELSE 0
         /\ \A h \in Handles : bufCtx'[h] = IF h \in In(l) THEN None ELSE bufCtx[h]
         /\ \A j \in Ids, h \in Handles : h \notin In(l) => buffers'[j][h] = buffers[j][h]
<1>1. buffers \in [Ids -> [Handles -> 0..MaxCopies]] /\ MaxCopies \in Nat
  BY DeviceAssumption DEF TypeOK
<1>2. PICK b : b = Minus(buffers[i], l)
  OBVIOUS
<1>3. \A h \in Handles : l[h] \in 0..MaxCopies /\ buffers[i][h] \in 0..MaxCopies
  BY <1>1
<1>4. \A h \in Handles : b[h] = IF l[h] < buffers[i][h] THEN buffers[i][h] - l[h] ELSE 0
  BY <1>2 DEF Minus
<1>5. \A h \in Handles : b[h] \in 0..MaxCopies
  BY <1>1, <1>3, <1>4
<1>6. b \in [Handles -> 0..MaxCopies]
  BY <1>2, <1>5 DEF Minus
<1>7. buffers' = [buffers EXCEPT ![i] = b]
  BY <1>2 DEF FreeAll
<1>8. buffers' \in [Ids -> [Handles -> 0..MaxCopies]] /\ buffers'[i] = b
  BY <1>1, <1>6, <1>7
<1>9. \A j \in Ids : j # i => buffers'[j] = buffers[j]
  BY <1>1, <1>7
<1>10. \A h \in Handles : h \notin In(l) => buffers'[i][h] = buffers[i][h]
  BY <1>3, <1>4, <1>8 DEF In
<1>11. /\ bufCtx' \in [Handles -> Contexts \cup {None}]
       /\ \A h \in Handles : bufCtx'[h] = IF h \in In(l) THEN None ELSE bufCtx[h]
  BY DEF FreeAll, Released, TypeOK
<1> QED
  BY <1>4, <1>8, <1>9, <1>10, <1>11

(* The list with one entry of each of some handles, and the empty one.      *)
LEMMA EachFacts ==
  ASSUME NEW hs \in SUBSET Handles
  PROVE  Each(hs) \in [Handles -> 0..MaxCopies] /\ In(Each(hs)) = hs
         /\ \A h \in hs : Each(hs)[h] = 1
<1>1. \A h \in Handles : Each(hs)[h] = IF h \in hs THEN 1 ELSE 0
  BY DEF Each
<1>2. 0 \in 0..MaxCopies /\ 1 \in 0..MaxCopies
  BY DeviceAssumption
<1>3. Each(hs) \in [Handles -> 0..MaxCopies]
  BY <1>2 DEF Each
<1> QED
  BY <1>1, <1>3 DEF In

LEMMA NoEntriesFacts ==
  /\ NoEntries \in [Handles -> 0..MaxCopies] /\ In(NoEntries) = {}
  /\ \A h \in Handles : NoEntries[h] = 0
BY DeviceAssumption DEF NoEntries, In

-----------------------------------------------------------------------------
(* What listing and freeing do to the parts of the invariant that are the  *)
(* same in several actions.                                                *)

LEMMA MallocListed ==
  ASSUME IInv, NEW i \in Ids, NEW h \in Free, Up(i), Malloc(i, h), state' = state
  PROVE  BuffersAreListed'
<1>1. h \in Handles /\ ctx[i] \in Contexts
  BY DEF IInv, ContextsInv, Free, Up
<1>2. \A j \in Ids, g \in Handles : buffers'[j][g] = buffers[j][g] + IF j = i /\ g = h THEN 1 ELSE 0
  BY <1>1, MallocEffect DEF IInv
<1>3. \A g \in Handles : bufCtx'[g] = IF g = h THEN ctx[i] ELSE bufCtx[g]
  BY <1>1, MallocEffect DEF IInv
<1>4. \A j \in Ids, g \in Handles : buffers[j][g] \in Nat
  BY DeviceAssumption DEF IInv, TypeOK
<1>5. \A j \in Ids, g \in Handles : buffers[j][g] > 0 => buffers'[j][g] > 0
  BY <1>2, <1>4
<1>6. buffers'[i][h] > 0
  BY <1>1, <1>2, <1>4
<1> SUFFICES ASSUME NEW g \in Handles, bufCtx'[g] # None
             PROVE  \E j \in Ids : Up(j)' /\ g \in In(buffers[j])'
  BY DEF BuffersAreListed
<1>7. CASE g = h
  BY <1>1, <1>6, <1>7 DEF In, Up
<1>8. CASE g # h
  <2>1. PICK j \in Ids : Up(j) /\ buffers[j][g] > 0
    BY <1>3, <1>8 DEF IInv, BuffersAreListed, In
  <2>2. Up(j)' /\ buffers'[j][g] > 0
    BY <1>5, <2>1 DEF Up
  <2> QED
    BY <2>2 DEF In
<1> QED
  BY <1>7, <1>8

(* A buffer that survives a free is still where it was listed, also when   *)
(* the device that freed goes down with an empty list.                     *)
LEMMA FreeListed ==
  ASSUME IInv, NEW i \in Ids, NEW l \in [Handles -> 0..MaxCopies], FreeAll(i, l),
         \A j \in Ids : Up(j) => Up(j)' \/ (j = i /\ l = buffers[i])
  PROVE  BuffersAreListed'
<1> SUFFICES ASSUME NEW h \in Handles, bufCtx'[h] # None
             PROVE  \E j \in Ids : Up(j)' /\ h \in In(buffers[j])'
  BY DEF BuffersAreListed
<1>1. h \notin In(l) /\ bufCtx[h] # None
  BY FreeEffect DEF IInv
<1>2. PICK j \in Ids : Up(j) /\ h \in In(buffers[j])
  BY <1>1 DEF IInv, BuffersAreListed
<1>3. Up(j)'
  BY <1>1, <1>2
<1>4. buffers'[j][h] = buffers[j][h]
  BY <1>1, FreeEffect DEF IInv
<1> QED
  BY <1>2, <1>3, <1>4 DEF In

(* A device freeing entries of its own list leaves the others' alone.      *)
LEMMA FreeApart ==
  ASSUME IInv, careless = 0, NEW i \in Ids, NEW l \in [Handles -> 0..MaxCopies],
         FreeAll(i, l), In(l) \subseteq In(buffers[i])
  PROVE  /\ Apart'
         /\ \A j \in Ids, h \in Handles : buffers'[j][h] <= 1
         /\ \A h \in Handles : h \in In(buffers[i])' <=> h \in In(buffers[i]) /\ h \notin In(l)
         /\ \A j \in Ids : \A h \in In(buffers[j]) : j # i => h \notin In(l) /\ bufCtx'[h] = bufCtx[h]
         /\ \A j \in Ids : j # i => buffers'[j] = buffers[j]
         /\ \A h \in Handles : h \notin In(l) => bufCtx'[h] = bufCtx[h]
<1>1. Apart /\ \A j \in Ids, h \in Handles : buffers[j][h] <= 1
  BY DEF IInv, OwnersInv, Owns
<1>2. \A j \in Ids, h \in Handles : buffers[j][h] \in Nat /\ l[h] \in Nat
  BY DeviceAssumption DEF IInv, TypeOK
<1>3. \A j \in Ids : j # i => buffers'[j] = buffers[j]
  BY FreeEffect DEF IInv
<1>4. \A h \in Handles : buffers'[i][h] = IF l[h] < buffers[i][h] THEN buffers[i][h] - l[h] ELSE 0
  BY FreeEffect DEF IInv
<1>5. \A h \in Handles : bufCtx'[h] = IF h \in In(l) THEN None ELSE bufCtx[h]
  BY FreeEffect DEF IInv
<1>6. \A h \in Handles : buffers'[i][h] <= 1
  BY <1>1, <1>2, <1>4
<1>7. \A h \in Handles : buffers'[i][h] > 0 <=> buffers[i][h] > 0 /\ ~(l[h] > 0)
  BY <1>1, <1>2, <1>4
<1>8. \A h \in Handles : h \in In(buffers[i])' <=> h \in In(buffers[i]) /\ h \notin In(l)
  BY <1>7 DEF In
<1>9. \A j \in Ids, h \in Handles : h \in In(buffers[j])' => h \in In(buffers[j])
  BY <1>3, <1>8 DEF In
<1>10. Apart'
  BY <1>1, <1>9 DEF Apart
<1>11. \A j \in Ids : \A h \in In(buffers[j]) : j # i => h \notin In(l) /\ bufCtx'[h] = bufCtx[h]
  BY <1>1, <1>5 DEF Apart, In
<1>12. \A j \in Ids, h \in Handles : buffers'[j][h] <= 1
  <2> TAKE j \in Ids, h \in Handles
  <2>1. CASE j = i
    BY <1>6, <2>1
  <2>2. CASE j # i
    BY <1>1, <1>3, <2>2
  <2> QED
    BY <2>1, <2>2
<1> QED
  BY <1>3, <1>5, <1>8, <1>10, <1>11, <1>12

-----------------------------------------------------------------------------
(* One lemma for the initial states and one for each kind of step.         *)

LEMMA InvInit == Init => IInv
<1> SUFFICES ASSUME Init PROVE IInv
  OBVIOUS
<1>1. TypeOK
  BY NoEntriesFacts, DeviceAssumption DEF Init, TypeOK
<1>2. ContextsInv /\ KernelsInv /\ BuffersAreListed
  BY DEF Init, ContextsInv, KernelsInv, BuffersAreListed, DevicesKeepQueues, Up
<1>3. \A i \in Ids : In(buffers[i]) = {} /\ In(loader[i]) = {} /\ \A h \in Handles : buffers[i][h] = 0
  BY NoEntriesFacts DEF Init
<1>4. OwnersInv
  BY <1>3 DEF Init, OwnersInv, Owns, Apart, InUse, Up
<1> QED
  BY <1>1, <1>2, <1>4 DEF IInv

LEMMA NewDeviceStep ==
  ASSUME IInv, NEW i \in Ids, NewDevice(i)
  PROVE  IInv'
<1>1. PICK c \in Contexts, q \in Queues :
        /\ ~Alive(c) /\ queueCtx[q] = None
        /\ held' = held \cup {c} /\ queueCtx' = [queueCtx EXCEPT ![q] = c]
        /\ ctx' = [ctx EXCEPT ![i] = c] /\ queue' = [queue EXCEPT ![i] = q]
        /\ heirs' = IF \E j \in Ids : ctx[j] = c \/ queue[j] = q THEN heirs \cup {i} ELSE heirs
  BY DEF NewDevice
<1>2. /\ state' = [state EXCEPT ![i] = "up"] /\ state[i] = "absent"
      /\ UNCHANGED <<buffers, loader, model, closed, cache, kept, bufCtx, reused, careless>>
  BY DEF NewDevice, lists
<1>3. TypeOK'
  BY <1>1, <1>2 DEF IInv, TypeOK
<1>4. c \notin held /\ c \notin kept /\ c # None
  BY <1>1, DeviceAssumption DEF Alive
<1>5. /\ \A j \in Ids : j # i => state'[j] = state[j] /\ ctx'[j] = ctx[j] /\ queue'[j] = queue[j]
      /\ state'[i] = "up" /\ ctx'[i] = c /\ queue'[i] = q
  BY <1>1, <1>2 DEF IInv, TypeOK
<1>6. heirs \subseteq heirs' /\ (i \notin heirs' => \A j \in Ids : ctx[j] # c /\ queue[j] # q)
  BY <1>1
<1>7. \A j \in Ids \ heirs : Up(j) => ctx[j] # c /\ queue[j] # q
  <2> SUFFICES ASSUME NEW j \in Ids \ heirs, Up(j) PROVE ctx[j] # c /\ queue[j] # q
    OBVIOUS
  <2>1. ctx[j] \in held /\ queueCtx[queue[j]] = ctx[j] /\ ctx[j] \in Contexts
    BY DEF IInv, ContextsInv, DevicesKeepQueues, Up
  <2> QED
    BY <1>1, <1>4, <2>1, DeviceAssumption
<1>8. ContextsInv'
  <2>1. \A j \in Ids : state'[j] # "absent" => ctx'[j] \in Contexts /\ queue'[j] \in Queues
    BY <1>5 DEF IInv, ContextsInv
  <2>2. \A j \in Ids : state'[j] = "absent" => ctx'[j] = None
    BY <1>5 DEF IInv, ContextsInv
  <2>3. ASSUME NEW j \in Ids \ heirs', NEW k \in Ids,
               Up(j)', state'[k] # "absent", ctx'[k] = ctx'[j] \/ queue'[k] = queue'[j]
        PROVE  k = j
    <3>1. CASE j = i
      BY <1>5, <1>6, <2>3, <3>1
    <3>2. CASE j # i /\ k = i
      BY <1>5, <1>6, <1>7, <2>3, <3>2 DEF Up
    <3>3. CASE j # i /\ k # i
      BY <1>5, <1>6, <2>3, <3>3 DEF IInv, ContextsInv, Up
    <3> QED
      BY <3>1, <3>2, <3>3
  <2>4. ASSUME NEW j \in Ids \ heirs', Up(j)'
        PROVE  ctx'[j] \in held' /\ queueCtx'[queue'[j]] = ctx'[j]
    <3>1. CASE j = i
      BY <1>1, <1>5, <3>1 DEF IInv, TypeOK
    <3>2. CASE j # i
      <4>1. Up(j) /\ j \in Ids \ heirs
        BY <1>5, <1>6, <2>4, <3>2 DEF Up
      <4>2. ctx[j] \in held /\ queueCtx[queue[j]] = ctx[j] /\ queue[j] \in Queues /\ queue[j] # q
        BY <1>7, <4>1 DEF IInv, ContextsInv, DevicesKeepQueues, Up
      <4> QED
        BY <1>1, <1>5, <3>2, <4>2 DEF IInv, TypeOK
    <3> QED
      BY <3>1, <3>2
  <2> QED
    BY <2>1, <2>2, <2>3, <2>4 DEF ContextsInv, DevicesKeepQueues
<1>9. KernelsInv'
  <2>1. \A j \in Ids : cache'[j] # None => cache'[j] \in kept'
    BY <1>2 DEF IInv, KernelsInv
  <2>2. \A j \in Ids \ reused' : cache'[j] = None \/ (state'[j] # "absent" /\ cache'[j] = ctx'[j])
    BY <1>2, <1>5 DEF IInv, KernelsInv
  <2>3. ASSUME NEW j \in Ids, NEW k \in Ids \ heirs', Up(k)', cache'[j] = ctx'[k]
        PROVE  k = j
    <3>1. CASE k = i
      BY <1>2, <1>4, <1>5, <2>3, <3>1 DEF IInv, KernelsInv
    <3>2. CASE k # i
      BY <1>2, <1>5, <1>6, <2>3, <3>2 DEF IInv, KernelsInv, Up
    <3> QED
      BY <3>1, <3>2
  <2> QED
    BY <2>1, <2>2, <2>3 DEF KernelsInv
<1>10. OwnersInv'
  <2> SUFFICES ASSUME careless = 0 PROVE Apart' /\ \A j \in Ids : Owns(j)'
    BY <1>2 DEF OwnersInv
  <2>1. Apart' /\ \A j \in Ids : Owns(j)
    BY <1>2 DEF IInv, OwnersInv, Apart, In
  <2>2. Owns(i)'
    <3>1. In(buffers[i]) = {} /\ In(loader[i]) = {} /\ model[i] = {} /\ \A h \in Handles : buffers[i][h] <= 1
      BY <1>2, <2>1 DEF Owns, Up
    <3>2. In(buffers[i])' = {} /\ In(loader[i])' = {} /\ model'[i] = {} /\ \A h \in Handles : buffers'[i][h] <= 1
      BY <1>2, <3>1 DEF In
    <3> QED
      BY <1>5, <3>2 DEF Owns, InUse, Up
  <2>3. \A j \in Ids : j # i => Owns(j)'
    BY <1>2, <1>5, <2>1 DEF Owns, InUse, Up, In
  <2> QED
    BY <2>1, <2>2, <2>3
<1>11. BuffersAreListed'
  BY <1>2, <1>5 DEF IInv, BuffersAreListed, Up, In
<1> QED
  BY <1>3, <1>8, <1>9, <1>10, <1>11 DEF IInv

(* A new buffer, of the loader or of the model.                            *)
LEMMA AllocationStep ==
  ASSUME IInv, NEW i \in Ids, LoadTensor(i) \/ ModelMalloc(i)
  PROVE  IInv'
<1>1. PICK h \in Free :
        /\ Malloc(i, h)
        /\ \/ /\ loader[i][h] < MaxCopies
              /\ loader' = [loader EXCEPT ![i] = Append1(@, h)]
              /\ UNCHANGED <<model, closed>>
           \/ /\ model' = [model EXCEPT ![i] = {h}] /\ closed' = closed \ {i}
              /\ UNCHANGED loader
           \/ UNCHANGED <<loader, model, closed>>
  BY DEF LoadTensor, ModelMalloc
<1>2. Up(i) /\ UNCHANGED <<state, ctx, queue, cache, held, kept, queueCtx, reused, heirs, careless>>
  BY DEF LoadTensor, ModelMalloc, Up, objects, history
<1>3. ctx[i] \in Contexts /\ h \in Handles /\ bufCtx[h] = None
  BY <1>2 DEF IInv, ContextsInv, Up, Free
<1>4. /\ buffers' \in [Ids -> [Handles -> 0..MaxCopies]]
      /\ bufCtx' \in [Handles -> Contexts \cup {None}]
      /\ \A j \in Ids, g \in Handles : buffers'[j][g] = buffers[j][g] + IF j = i /\ g = h THEN 1 ELSE 0
      /\ \A g \in Handles : bufCtx'[g] = IF g = h THEN ctx[i] ELSE bufCtx[g]
  BY <1>1, <1>3, MallocEffect DEF IInv
<1>5. \A j \in Ids, g \in Handles : loader[j][g] \in Nat /\ buffers[j][g] \in Nat
  BY DeviceAssumption DEF IInv, TypeOK
<1>6. /\ loader' \in [Ids -> [Handles -> 0..MaxCopies]]
      /\ \/ /\ \A j \in Ids, g \in Handles : loader'[j][g] = loader[j][g] + IF j = i /\ g = h THEN 1 ELSE 0
            /\ UNCHANGED <<model, closed>>
         \/ loader' = loader /\ model' = [model EXCEPT ![i] = {h}] /\ closed' = closed \ {i}
         \/ UNCHANGED <<loader, model, closed>>
  <2>1. CASE UNCHANGED loader
    BY <1>1, <2>1 DEF IInv, TypeOK
  <2>2. CASE /\ loader[i][h] < MaxCopies
             /\ loader' = [loader EXCEPT ![i] = Append1(@, h)] /\ UNCHANGED <<model, closed>>
    <3>1. loader \in [Ids -> [Handles -> 0..MaxCopies]]
      BY DEF IInv, TypeOK
    <3>2. loader[i] \in [Handles -> 0..MaxCopies] /\ loader[i][h] + 1 \in 0..MaxCopies
      BY <1>3, <2>2, <3>1, DeviceAssumption
    <3>3. Append1(loader[i], h) \in [Handles -> 0..MaxCopies]
      BY <3>2 DEF Append1
    <3>4. loader' \in [Ids -> [Handles -> 0..MaxCopies]]
      BY <2>2, <3>1, <3>3
    <3>5. \A j \in Ids : loader'[j] = IF j = i THEN Append1(loader[i], h) ELSE loader[j]
      BY <2>2, <3>1
    <3>6. \A g \in Handles : Append1(loader[i], h)[g] = loader[i][g] + IF g = h THEN 1 ELSE 0
      BY <1>5, <3>2 DEF Append1
    <3> QED
      BY <1>5, <2>2, <3>4, <3>5, <3>6
  <2> QED
    BY <1>1, <2>1, <2>2
<1>7. TypeOK'
  <2>1. model' = model \/ model' = [model EXCEPT ![i] = {h}]
    BY <1>6
  <2>2. closed' \subseteq closed
    BY <1>6
  <2>3. model \in [Ids -> SUBSET Handles] /\ {h} \in SUBSET Handles /\ closed \subseteq Ids
    BY <1>3 DEF IInv, TypeOK
  <2>4. model' \in [Ids -> SUBSET Handles] /\ closed' \subseteq Ids
    BY <2>1, <2>2, <2>3
  <2> QED
    BY <1>2, <1>4, <1>6, <2>4 DEF IInv, TypeOK
<1>8. ContextsInv' /\ KernelsInv'
  BY <1>2 DEF IInv, ContextsInv, KernelsInv, DevicesKeepQueues, Up
<1>9. OwnersInv'
  <2> SUFFICES ASSUME careless = 0 PROVE Apart' /\ \A j \in Ids : Owns(j)'
    BY <1>2 DEF OwnersInv
  <2>1. Apart /\ \A j \in Ids : Owns(j)
    BY DEF IInv, OwnersInv
  <2>2. \A j \in Ids : h \notin In(buffers[j])
    BY <1>3, <2>1, DeviceAssumption DEF IInv, ContextsInv, Owns, Up
  <2>3. \A j \in Ids, g \in Handles : g \in In(buffers[j])' <=> g \in In(buffers[j]) \/ (j = i /\ g = h)
    BY <1>3, <1>4, <1>5 DEF In
  <2>4. Apart'
    BY <2>1, <2>2, <2>3 DEF Apart
  <2>5. \A j \in Ids, g \in Handles : buffers'[j][g] <= 1
    <3>1. buffers[i][h] = 0
      BY <1>3, <1>5, <2>2 DEF In
    <3> QED
      BY <1>4, <1>5, <2>1, <3>1 DEF Owns
  <2>6. ASSUME NEW j \in Ids, j # i PROVE Owns(j)'
    <3>1. /\ In(buffers[j])' = In(buffers[j]) /\ In(loader[j])' = In(loader[j])
          /\ model'[j] = model[j] /\ (j \in closed' <=> j \in closed)
      BY <1>4, <1>5, <1>6, <2>6 DEF In, IInv, TypeOK
    <3>2. \A g \in In(buffers[j]) : bufCtx'[g] = bufCtx[g]
      BY <1>4, <2>2 DEF In
    <3> QED
      BY <1>2, <2>1, <2>5, <3>1, <3>2 DEF Owns, InUse, Up
  <2>7. Owns(i)'
    <3>1. \A g \in In(buffers[i])' : bufCtx'[g] = ctx'[i]
      BY <1>2, <1>4, <2>1, <2>3 DEF Owns, In
    <3>2. \A g \in Handles : g \in In(loader[i])' => g \in In(loader[i]) \/ g = h
      BY <1>5, <1>6 DEF In
    <3>3. /\ In(loader[i]) \subseteq In(buffers[i])
          /\ i \notin closed => model[i] \subseteq In(buffers[i]) /\ model[i] \cap In(loader[i]) = {}
      BY <1>2, <2>1 DEF Owns, InUse
    <3>4. In(loader[i])' \subseteq In(buffers[i])'
      BY <1>3, <2>3, <3>2, <3>3 DEF In
    <3>5. ASSUME i \notin closed'
          PROVE  model'[i] \subseteq In(buffers[i])' /\ model'[i] \cap In(loader[i])' = {}
      <4>1. CASE loader' = loader /\ model' = [model EXCEPT ![i] = {h}]
        <5>1. model'[i] = {h} /\ In(loader[i])' = In(loader[i])
          BY <4>1 DEF IInv, TypeOK, In
        <5> QED
          BY <1>3, <2>2, <2>3, <3>3, <5>1
      <4>2. CASE UNCHANGED <<model, closed>>
        <5>1. model[i] \subseteq In(buffers[i]) /\ model[i] \cap In(loader[i]) = {} /\ model[i] \subseteq Handles
          BY <3>3, <3>5, <4>2 DEF IInv, TypeOK
        <5>2. \A g \in model[i] : g \in In(buffers[i])' /\ g # h /\ g \notin In(loader[i])'
          BY <2>2, <2>3, <3>2, <5>1
        <5> QED
          BY <4>2, <5>2
      <4> QED
        BY <1>6, <4>1, <4>2
    <3>6. Up(i)'
      BY <1>2 DEF Up
    <3> QED
      BY <2>5, <3>1, <3>4, <3>5, <3>6 DEF Owns, InUse, Up
  <2> QED
    BY <2>4, <2>6, <2>7
<1>10. BuffersAreListed'
  BY <1>1, <1>2, MallocListed
<1> QED
  BY <1>7, <1>8, <1>9, <1>10 DEF IInv

LEMMA GetKernelStep ==
  ASSUME IInv, NEW i \in Ids, GetKernel(i)
  PROVE  IInv'
<1>1. /\ Up(i) /\ cache' = [cache EXCEPT ![i] = ctx[i]] /\ kept' = kept \cup {ctx[i]}
      /\ UNCHANGED <<state, ctx, queue, buffers, loader, model, closed, held, queueCtx, bufCtx,
                     reused, heirs, careless>>
  BY DEF GetKernel, Up, objects, lists, history
<1>2. ctx[i] \in Contexts
  BY <1>1 DEF IInv, ContextsInv, Up
<1>3. TypeOK'
  BY <1>1, <1>2 DEF IInv, TypeOK
<1>4. ContextsInv'
  BY <1>1 DEF IInv, ContextsInv, DevicesKeepQueues, Up
<1>5. KernelsInv'
  <2>1. cache'[i] = ctx[i] /\ \A j \in Ids : j # i => cache'[j] = cache[j]
    BY <1>1 DEF IInv, TypeOK
  <2>2. \A j \in Ids : cache'[j] # None => cache'[j] \in kept'
    BY <1>1, <2>1 DEF IInv, KernelsInv
  <2>3. \A j \in Ids \ reused' : cache'[j] = None \/ (state'[j] # "absent" /\ cache'[j] = ctx'[j])
    BY <1>1, <2>1 DEF IInv, KernelsInv, Up
  <2>4. ASSUME NEW j \in Ids, NEW k \in Ids \ heirs', Up(k)', cache'[j] = ctx'[k]
        PROVE  k = j
    <3>1. CASE j = i
      BY <1>1, <2>1, <2>4, <3>1 DEF IInv, ContextsInv, Up
    <3>2. CASE j # i
      BY <1>1, <2>1, <2>4, <3>2 DEF IInv, KernelsInv, Up
    <3> QED
      BY <3>1, <3>2
  <2> QED
    BY <2>2, <2>3, <2>4 DEF KernelsInv
<1>6. OwnersInv' /\ BuffersAreListed'
  BY <1>1 DEF IInv, OwnersInv, Owns, Apart, InUse, In, Up, BuffersAreListed
<1> QED
  BY <1>3, <1>4, <1>5, <1>6 DEF IInv

(* As long as nobody is careless a model frees buffers of its own device,  *)
(* and its handles are of no use any more.                                 *)
LEMMA ModelShutdownStep ==
  ASSUME IInv, NEW i \in Ids, ModelShutdown(i)
  PROVE  IInv'
<1>1. /\ FreeAll(i, Each(model[i])) /\ closed' = closed \cup {i} /\ state[i] # "absent"
      /\ Careless(i \in closed \/ state[i] = "down")
      /\ UNCHANGED <<state, ctx, queue, loader, model, cache, held, kept, queueCtx, reused, heirs>>
  BY DEF ModelShutdown, objects
<1>2. /\ model[i] \in SUBSET Handles /\ Each(model[i]) \in [Handles -> 0..MaxCopies]
      /\ In(Each(model[i])) = model[i]
  BY EachFacts DEF IInv, TypeOK
<1>3. careless' \in 0..MaxCareless /\ (careless' = 0 => careless = 0 /\ i \notin closed /\ Up(i))
  BY <1>1, DeviceAssumption DEF IInv, TypeOK, Careless, Up
<1>4. TypeOK'
  BY <1>1, <1>2, <1>3, FreeEffect DEF IInv, TypeOK
<1>5. ContextsInv' /\ KernelsInv'
  BY <1>1 DEF IInv, ContextsInv, KernelsInv, DevicesKeepQueues, Up
<1>6. OwnersInv'
  <2> SUFFICES ASSUME careless' = 0 PROVE Apart' /\ \A j \in Ids : Owns(j)'
    BY DEF OwnersInv
  <2>1. careless = 0 /\ i \notin closed /\ Up(i) /\ \A j \in Ids : Owns(j)
    BY <1>3 DEF IInv, OwnersInv
  <2>2. model[i] \subseteq In(buffers[i]) /\ model[i] \cap In(loader[i]) = {} /\ In(loader[i]) \subseteq In(buffers[i])
    BY <2>1 DEF Owns, InUse
  <2>3. /\ Apart'
        /\ \A j \in Ids, h \in Handles : buffers'[j][h] <= 1
        /\ \A h \in Handles : h \in In(buffers[i])' <=> h \in In(buffers[i]) /\ h \notin model[i]
        /\ \A j \in Ids : \A h \in In(buffers[j]) : j # i => bufCtx'[h] = bufCtx[h]
        /\ \A j \in Ids : j # i => buffers'[j] = buffers[j]
        /\ \A h \in Handles : h \notin model[i] => bufCtx'[h] = bufCtx[h]
    BY <1>1, <1>2, <2>1, <2>2, FreeApart
  <2>4. Owns(i)'
    <3>1. \A h \in In(buffers[i])' : bufCtx'[h] = ctx'[i]
      BY <1>1, <2>1, <2>3 DEF Owns, In
    <3>2. In(loader[i])' \subseteq In(buffers[i])'
      BY <1>1, <2>2, <2>3 DEF In
    <3>3. i \in closed' /\ Up(i)'
      BY <1>1, <2>1 DEF Up
    <3> QED
      BY <2>3, <3>1, <3>2, <3>3 DEF Owns, InUse, Up
  <2>5. ASSUME NEW j \in Ids, j # i PROVE Owns(j)'
    BY <1>1, <2>1, <2>3, <2>5 DEF Owns, InUse, Up, In
  <2> QED
    BY <2>3, <2>4, <2>5
<1>7. BuffersAreListed'
  BY <1>1, <1>2, FreeListed DEF Up
<1> QED
  BY <1>4, <1>5, <1>6, <1>7 DEF IInv

LEMMA LoaderShutdownStep ==
  ASSUME IInv, NEW i \in Ids, LoaderShutdown(i)
  PROVE  IInv'
<1>1. /\ FreeAll(i, loader[i]) /\ loader' = [loader EXCEPT ![i] = NoEntries] /\ state[i] # "absent"
      /\ Careless(state[i] = "down")
      /\ UNCHANGED <<state, ctx, queue, model, closed, cache, held, kept, queueCtx, reused, heirs>>
  BY DEF LoaderShutdown, objects
<1>2. loader[i] \in [Handles -> 0..MaxCopies]
  BY DEF IInv, TypeOK
<1>3. careless' \in 0..MaxCareless /\ (careless' = 0 => careless = 0 /\ Up(i))
  BY <1>1, DeviceAssumption DEF IInv, TypeOK, Careless, Up
<1>4. TypeOK'
  BY <1>1, <1>2, <1>3, FreeEffect, NoEntriesFacts DEF IInv, TypeOK
<1>5. ContextsInv' /\ KernelsInv'
  BY <1>1 DEF IInv, ContextsInv, KernelsInv, DevicesKeepQueues, Up
<1>6. OwnersInv'
  <2> SUFFICES ASSUME careless' = 0 PROVE Apart' /\ \A j \in Ids : Owns(j)'
    BY DEF OwnersInv
  <2>1. careless = 0 /\ Up(i) /\ \A j \in Ids : Owns(j)
    BY <1>3 DEF IInv, OwnersInv
  <2>2. /\ In(loader[i]) \subseteq In(buffers[i])
        /\ i \notin closed => model[i] \cap In(loader[i]) = {} /\ model[i] \subseteq In(buffers[i])
    BY <2>1 DEF Owns, InUse
  <2>3. /\ Apart'
        /\ \A j \in Ids, h \in Handles : buffers'[j][h] <= 1
        /\ \A h \in Handles : h \in In(buffers[i])' <=> h \in In(buffers[i]) /\ h \notin In(loader[i])
        /\ \A j \in Ids : \A h \in In(buffers[j]) : j # i => bufCtx'[h] = bufCtx[h]
        /\ \A j \in Ids : j # i => buffers'[j] = buffers[j]
        /\ \A h \in Handles : h \notin In(loader[i]) => bufCtx'[h] = bufCtx[h]
    BY <1>1, <1>2, <2>1, <2>2, FreeApart
  <2>4. In(loader[i])' = {} /\ \A j \in Ids : j # i => loader'[j] = loader[j]
    <3>1. loader'[i] = NoEntries
      BY <1>1 DEF IInv, TypeOK
    <3>2. \A h \in Handles : ~(loader'[i][h] > 0)
      BY <3>1, NoEntriesFacts
    <3> QED
      BY <1>1, <3>2 DEF In, IInv, TypeOK
  <2>5. Owns(i)'
    <3>1. \A h \in In(buffers[i])' : bufCtx'[h] = ctx'[i]
      BY <1>1, <2>1, <2>3 DEF Owns, In
    <3>2. i \notin closed => model[i] \subseteq In(buffers[i])'
      BY <2>2, <2>3 DEF IInv, TypeOK
    <3>3. Up(i)'
      BY <1>1, <2>1 DEF Up
    <3> QED
      BY <1>1, <2>3, <2>4, <3>1, <3>2, <3>3 DEF Owns, InUse, Up
  <2>6. ASSUME NEW j \in Ids, j # i PROVE Owns(j)'
    BY <1>1, <2>1, <2>3, <2>4, <2>6 DEF Owns, InUse, Up, In
  <2> QED
    BY <2>3, <2>5, <2>6
<1>7. BuffersAreListed'
  BY <1>1, <1>2, FreeListed DEF Up
<1> QED
  BY <1>4, <1>5, <1>6, <1>7 DEF IInv

(* The first shutdown of a device, a later one, or that of __del__.  The   *)
(* others that are up keep what is their own because no handle that i      *)
(* names is theirs.                                                        *)
LEMMA ReleaseStep ==
  ASSUME IInv, NEW i \in Ids, DeviceShutdown(i) \/ Collect(i)
  PROVE  IInv'
<1> DEFINE gone == state'[i] = "absent"
<1>1. /\ FreeAll(i, buffers[i]) /\ held' = held \ {ctx[i]} /\ state[i] # "absent"
      /\ queueCtx' = [q \in Queues |-> IF q = queue[i] THEN None ELSE queueCtx[q]]
      /\ UNCHANGED <<cache, kept, careless>>
  BY DEF DeviceShutdown, Collect, ReleaseAll, history
<1>2. \/ /\ state' = [state EXCEPT ![i] = "down"]
         /\ UNCHANGED <<ctx, queue, loader, model, closed, reused, heirs>>
      \/ /\ state' = [state EXCEPT ![i] = "absent"]
         /\ ctx' = [ctx EXCEPT ![i] = None] /\ queue' = [queue EXCEPT ![i] = None]
         /\ loader' = [loader EXCEPT ![i] = NoEntries]
         /\ model' = [model EXCEPT ![i] = {}] /\ closed' = closed \ {i}
         /\ reused' = reused \cup {i} /\ heirs' = heirs \ {i}
  BY DEF DeviceShutdown, Collect, history
<1>3. buffers[i] \in [Handles -> 0..MaxCopies]
  BY DEF IInv, TypeOK
<1>4. TypeOK'
  <2>1. /\ buffers' \in [Ids -> [Handles -> 0..MaxCopies]]
        /\ bufCtx' \in [Handles -> Contexts \cup {None}]
    BY <1>1, <1>3, FreeEffect DEF IInv
  <2>2. held' \subseteq Contexts /\ queueCtx' \in [Queues -> Contexts \cup {None}]
    BY <1>1 DEF IInv, TypeOK
  <2>3. /\ state' \in [Ids -> {"absent", "up", "down"}]
        /\ ctx' \in [Ids -> Contexts \cup {None}] /\ queue' \in [Ids -> Queues \cup {None}]
    BY <1>2 DEF IInv, TypeOK
  <2>4. loader' \in [Ids -> [Handles -> 0..MaxCopies]]
    <3>1. loader \in [Ids -> [Handles -> 0..MaxCopies]]
      BY DEF IInv, TypeOK
    <3>2. loader' = loader \/ loader' = [loader EXCEPT ![i] = NoEntries]
      BY <1>2
    <3> QED
      BY <3>1, <3>2, NoEntriesFacts
  <2>5. model' \in [Ids -> SUBSET Handles] /\ closed' \subseteq Ids
    <3>1. model \in [Ids -> SUBSET Handles] /\ {} \in SUBSET Handles /\ closed \subseteq Ids
      BY DEF IInv, TypeOK
    <3>2. model' = model \/ model' = [model EXCEPT ![i] = {}]
      BY <1>2
    <3>3. closed' \subseteq closed
      BY <1>2
    <3> QED
      BY <3>1, <3>2, <3>3
  <2>6. reused' \subseteq Ids /\ heirs' \subseteq Ids
    BY <1>2 DEF IInv, TypeOK
  <2> QED
    BY <1>1, <2>1, <2>2, <2>3, <2>4, <2>5, <2>6 DEF IInv, TypeOK
<1>5. /\ ~Up(i)'
      /\ \A j \in Ids : j # i =>
           /\ state'[j] = state[j] /\ ctx'[j] = ctx[j] /\ queue'[j] = queue[j]
           /\ loader'[j] = loader[j] /\ model'[j] = model[j]
           /\ (j \in closed' <=> j \in closed) /\ (j \in heirs' <=> j \in heirs)
  BY <1>2 DEF IInv, TypeOK, Up
<1>6. /\ gone => ctx'[i] = None /\ i \in reused'
      /\ ~gone => ctx'[i] = ctx[i] /\ queue'[i] = queue[i] /\ reused' = reused
      /\ reused \subseteq reused'
  BY <1>2 DEF IInv, TypeOK
<1>7. ContextsInv'
  <2>1. \A j \in Ids : state'[j] # "absent" => ctx'[j] \in Contexts /\ queue'[j] \in Queues
    BY <1>1, <1>5, <1>6 DEF IInv, ContextsInv
  <2>2. \A j \in Ids : state'[j] = "absent" => ctx'[j] = None
    BY <1>5, <1>6 DEF IInv, ContextsInv
  <2>3. ASSUME NEW j \in Ids \ heirs', NEW k \in Ids,
               Up(j)', state'[k] # "absent", ctx'[k] = ctx'[j] \/ queue'[k] = queue'[j]
        PROVE  k = j
    <3>1. j # i /\ Up(j) /\ j \notin heirs
      BY <1>5, <2>3 DEF Up
    <3>2. state[k] # "absent" /\ (ctx[k] = ctx[j] \/ queue[k] = queue[j])
      BY <1>1, <1>5, <1>6, <2>3, <3>1
    <3> QED
      BY <3>1, <3>2 DEF IInv, ContextsInv
  <2>4. ASSUME NEW j \in Ids \ heirs', Up(j)'
        PROVE  ctx'[j] \in held' /\ queueCtx'[queue'[j]] = ctx'[j]
    <3>1. j # i /\ Up(j) /\ j \notin heirs /\ ctx'[j] = ctx[j] /\ queue'[j] = queue[j]
      BY <1>5, <2>4 DEF Up
    <3>2. ctx[i] # ctx[j] /\ queue[i] # queue[j]
      BY <1>1, <3>1 DEF IInv, ContextsInv
    <3>3. ctx[j] \in held /\ queueCtx[queue[j]] = ctx[j] /\ queue[j] \in Queues
      BY <3>1 DEF IInv, ContextsInv, DevicesKeepQueues, Up
    <3> QED
      BY <1>1, <3>1, <3>2, <3>3
  <2> QED
    BY <2>1, <2>2, <2>3, <2>4 DEF ContextsInv, DevicesKeepQueues
<1>8. KernelsInv'
  <2>1. \A j \in Ids : cache'[j] # None => cache'[j] \in kept'
    BY <1>1 DEF IInv, KernelsInv
  <2>2. \A j \in Ids \ reused' : cache'[j] = None \/ (state'[j] # "absent" /\ cache'[j] = ctx'[j])
    BY <1>1, <1>5, <1>6 DEF IInv, KernelsInv
  <2>3. \A j \in Ids, k \in Ids \ heirs' : Up(k)' /\ cache'[j] = ctx'[k] => k = j
    BY <1>1, <1>5 DEF IInv, KernelsInv, Up
  <2> QED
    BY <2>1, <2>2, <2>3 DEF KernelsInv
<1>9. OwnersInv'
  <2> SUFFICES ASSUME careless = 0 PROVE Apart' /\ \A j \in Ids : Owns(j)'
    BY <1>1 DEF OwnersInv
  <2>1. \A j \in Ids : Owns(j)
    BY DEF IInv, OwnersInv
  <2>2. /\ Apart'
        /\ \A j \in Ids, h \in Handles : buffers'[j][h] <= 1
        /\ \A h \in Handles : h \notin In(buffers[i])'
        /\ \A j \in Ids : \A h \in In(buffers[j]) : j # i => bufCtx'[h] = bufCtx[h]
        /\ \A j \in Ids : j # i => buffers'[j] = buffers[j]
    BY <1>1, <1>3, FreeApart
  <2>3. Owns(i)'
    <3>1. In(buffers[i])' = {}
      BY <2>2 DEF In
    <3>2. gone => In(loader[i])' = {} /\ model'[i] = {}
      <4> SUFFICES ASSUME gone PROVE In(loader[i])' = {} /\ model'[i] = {}
        OBVIOUS
      <4>1. loader'[i] = NoEntries /\ model'[i] = {}
        BY <1>2 DEF IInv, TypeOK
      <4>2. \A h \in Handles : ~(loader'[i][h] > 0)
        BY <4>1, NoEntriesFacts
      <4> QED
        BY <4>1, <4>2 DEF In
    <3> QED
      BY <1>5, <2>2, <3>1, <3>2 DEF Owns
  <2>4. ASSUME NEW j \in Ids, j # i PROVE Owns(j)'
    BY <1>5, <2>1, <2>2, <2>4 DEF Owns, InUse, Up, In
  <2> QED
    BY <2>2, <2>3, <2>4
<1>10. BuffersAreListed'
  <2>1. \A j \in Ids : Up(j) => Up(j)' \/ (j = i /\ buffers[i] = buffers[i])
    BY <1>5 DEF Up
  <2> QED
    BY <1>1, <1>3, <2>1, FreeListed
<1> QED
  BY <1>4, <1>7, <1>8, <1>9, <1>10 DEF IInv

LEMMA InvStep == IInv /\ [Next]_vars => IInv'
<1> SUFFICES ASSUME IInv, [Next]_vars PROVE IInv'
  OBVIOUS
<1>1. CASE Next
  BY <1>1, NewDeviceStep, AllocationStep, GetKernelStep, ModelShutdownStep, LoaderShutdownStep,
     ReleaseStep DEF Next
<1>2. CASE UNCHANGED vars
  <2>1. UNCHANGED <<state, ctx, queue, buffers, loader, model, closed, cache, held, kept, queueCtx,
                    bufCtx, reused, heirs, careless>>
    BY <1>2 DEF vars, objects, lists, driver, history
  <2> QED
    BY <2>1 DEF IInv, TypeOK, ContextsInv, KernelsInv, OwnersInv, Owns, Apart, InUse, In, Up,
                DevicesKeepQueues, BuffersAreListed
<1> QED
  BY <1>1, <1>2

-----------------------------------------------------------------------------
(* The theorems, for every caller and every order of shutdowns.            *)

(* The inductive invariant holds in every state.                           *)
THEOREM Invariance == Spec => []IInv
BY InvInit, InvStep, PTL DEF Spec

(* Every variable keeps its type.                                          *)
THEOREM TypeCorrect == Spec => []TypeOK
<1>1. IInv => TypeOK
  BY DEF IInv
<1> QED
  BY <1>1, Invariance, PTL

(* Until a model is shut down twice, or a model or a loader after its      *)
(* device, nobody releases a buffer of a device that is up                 *)
(* (device.py:104-108, 244-263).                                           *)
THEOREM KeepBuffers == Spec => []DevicesKeepBuffers
<1>1. IInv => DevicesKeepBuffers
  BY DEF IInv, OwnersInv, Owns, DevicesKeepBuffers
<1> QED
  BY <1>1, Invariance, PTL

(* A device whose handles no other object named when it was made keeps its *)
(* context and its queue through every repeated release                    *)
(* (device.py:250-253, 259-263).                                           *)
THEOREM KeepQueues == Spec => []DevicesKeepQueues
<1>1. IInv => DevicesKeepQueues
  BY DEF IInv, ContextsInv
<1> QED
  BY <1>1, Invariance, PTL

(* Every buffer of the driver is in the list of a device that is up,       *)
(* whatever the callers do (device.py:101, 245-249).                       *)
THEOREM NothingUnlisted == Spec => []BuffersAreListed
<1>1. IInv => BuffersAreListed
  BY DEF IInv
<1> QED
  BY <1>1, Invariance, PTL

(* A kernel of the cache is of the context of the device it is asked for,  *)
(* or the id is a reused one and the kernel of no context in which it      *)
(* could run (kernels.py:16-22).                                           *)
THEOREM StaleAreRefused == Spec => []StaleKernelsAreRefused
<1>1. IInv => StaleKernelsAreRefused
  <2> SUFFICES ASSUME IInv, NEW i \in Ids, Up(i), cache[i] # None, cache[i] # ctx[i]
               PROVE  i \in reused /\ \A j \in Ids \ heirs : Up(j) => queueCtx[queue[j]] # cache[i]
    BY DEF StaleKernelsAreRefused
  <2>1. i \in reused
    BY DEF IInv, KernelsInv
  <2>2. ASSUME NEW j \in Ids \ heirs, Up(j) PROVE queueCtx[queue[j]] # cache[i]
    <3>1. queueCtx[queue[j]] = ctx[j]
      BY <2>2 DEF IInv, ContextsInv, DevicesKeepQueues
    <3>2. cache[i] # ctx[j]
      BY <2>2 DEF IInv, KernelsInv
    <3> QED
      BY <3>1, <3>2
  <2> QED
    BY <2>1, <2>2
<1> QED
  BY <1>1, Invariance, PTL
=============================================================================
