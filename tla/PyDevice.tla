------------------------------ MODULE PyDevice ------------------------------
(***************************************************************************)
(* Who owns and who releases what in the Python package: XeCudaDevice of   *)
(* device.py (its context, its queue, its list of buffers), the buffers    *)
(* Model and WeightLoader allocate through it, and the _kernel_cache of    *)
(* kernels.py.  Python runs one call at a time; what makes this hard is    *)
(* that the driver reuses handles, that Python reuses id(), that objects   *)
(* go on naming what they released, and that __del__ runs shutdown again.  *)
(*                                                                         *)
(* The driver is external: releasing a handle that names nothing is        *)
(* refused, and a context lives as long as the application's reference or  *)
(* a buffer, a queue or a kernel of it.                                    *)
(*                                                                         *)
(* Definitions that no action uses (FreeForgetful, ...) are faulty         *)
(* variants of the definition they precede: the README says which property *)
(* notices each of them.                                                   *)
(***************************************************************************)
EXTENDS Naturals

CONSTANTS
  Ids,         \* the values id() can give to a device object
  Contexts,    \* cl_context values the driver can hand out
  Queues,      \* cl_command_queue values the driver can hand out
  Handles,     \* cl_mem values the driver can hand out
  None,
  MaxCopies,   \* bound on how often one handle is in one list
  MaxCareless  \* bound on the careless shutdowns

ASSUME DeviceAssumption ==
  None \notin Contexts /\ MaxCopies \in Nat \ {0} /\ MaxCareless \in Nat

VARIABLES
  state,    \* state[i]: the device object with that id: absent, up, down
  ctx,      \* its _ctx, which it keeps when it is down
  queue,    \* its _queue, kept too
  buffers,  \* its _buffers: how often each handle is in the list
  loader,   \* WeightLoader.gpu_buffers: how often each handle is in it
  model,    \* the buffers Model.shutdown frees, that is the listed attributes
  closed,   \* the ids whose model was shut down; its attributes keep naming
  cache,    \* _kernel_cache: the context of the kernel kept for that id
  held,     \* the driver's contexts that have the application's reference
  kept,     \* those that have a kernel, which nothing releases
  queueCtx, \* the context of each queue of the driver, None for the others
  bufCtx,   \* the same of each buffer
            \* History, which no step reads but for the bound:
  reused,   \* the ids that belonged to an earlier device too
  heirs,    \* the devices that got a handle another device still names
  careless  \* a model was shut down twice, or something after its device

objects == <<state, ctx, queue>>
lists == <<buffers, loader, model, closed>>
driver == <<held, kept, queueCtx, bufCtx>>
history == <<reused, heirs, careless>>
vars == <<objects, lists, cache, driver, history>>

NoEntries == [h \in Handles |-> 0]

Init ==
  /\ state = [i \in Ids |-> "absent"]
  /\ ctx = [i \in Ids |-> None] /\ queue = [i \in Ids |-> None]
  /\ buffers = [i \in Ids |-> NoEntries] /\ loader = [i \in Ids |-> NoEntries]
  /\ model = [i \in Ids |-> {}] /\ closed = {}
  /\ cache = [i \in Ids |-> None]
  /\ held = {} /\ kept = {}
  /\ queueCtx = [q \in Queues |-> None] /\ bufCtx = [h \in Handles |-> None]
  /\ reused = {} /\ heirs = {} /\ careless = 0

-----------------------------------------------------------------------------
(* The driver                                                              *)

Alive(c) ==
  \/ c \in held \/ c \in kept
  \/ \E q \in Queues : queueCtx[q] = c
  \/ \E h \in Handles : bufCtx[h] = c

Free == {h \in Handles : bufCtx[h] = None}

(* clReleaseMemObject for each of hs: a handle that names no buffer is     *)
(* rejected, one that was handed out again is released from its new owner. *)
Released(hs) == [h \in Handles |-> IF h \in hs THEN None ELSE bufCtx[h]]

-----------------------------------------------------------------------------
(* Lists of handles                                                        *)

In(l) == {h \in Handles : l[h] > 0}

(* One more entry of h; l after remove() for each entry of m, which does   *)
(* nothing when there is none.                                             *)
Append1(l, h) == [l EXCEPT ![h] = @ + 1]
Minus(l, m) == [h \in Handles |-> IF m[h] < l[h] THEN l[h] - m[h] ELSE 0]
Each(hs) == [h \in Handles |-> IF h \in hs THEN 1 ELSE 0]

-----------------------------------------------------------------------------
(* XeCudaDevice                                                            *)

(* XeCudaDevice(): a failure raises, and the half-made object is dropped   *)
(* by a __del__ that finds no context, or one without a queue.             *)
NewDeviceClassContext(i) ==
  /\ state[i] = "absent"
  /\ \E c \in Contexts, q \in Queues :
       /\ ~Alive(c) /\ queueCtx[q] = None
       /\ held' = held \cup {c} /\ queueCtx' = [queueCtx EXCEPT ![q] = c]
       /\ ctx' = [j \in Ids |-> IF j = i \/ state[j] # "absent" THEN c ELSE None]
       /\ queue' = [queue EXCEPT ![i] = q]
       /\ heirs' = IF \E j \in Ids : ctx[j] = c \/ queue[j] = q
                   THEN heirs \cup {i} ELSE heirs
  /\ state' = [state EXCEPT ![i] = "up"]
  /\ UNCHANGED <<lists, cache, kept, bufCtx, reused, careless>>

NewDevice(i) ==
  /\ state[i] = "absent"
  /\ \E c \in Contexts, q \in Queues :
       /\ ~Alive(c) /\ queueCtx[q] = None
       /\ held' = held \cup {c} /\ queueCtx' = [queueCtx EXCEPT ![q] = c]
       /\ ctx' = [ctx EXCEPT ![i] = c] /\ queue' = [queue EXCEPT ![i] = q]
       /\ heirs' = IF \E j \in Ids : ctx[j] = c \/ queue[j] = q
                   THEN heirs \cup {i} ELSE heirs
  /\ state' = [state EXCEPT ![i] = "up"]
  /\ UNCHANGED <<lists, cache, kept, bufCtx, reused, careless>>

(* malloc(): the handle joins _buffers, or the context is gone and it      *)
(* raises.                                                                 *)
MallocUnlisted(i, h) ==
  /\ Alive(ctx[i]) /\ buffers[i][h] < MaxCopies
  /\ bufCtx' = [bufCtx EXCEPT ![h] = ctx[i]]
  /\ UNCHANGED buffers

MallocListedTwice(i, h) ==
  /\ Alive(ctx[i]) /\ buffers[i][h] < MaxCopies
  /\ bufCtx' = [bufCtx EXCEPT ![h] = ctx[i]]
  /\ buffers' = [buffers EXCEPT ![i] = Append1(Append1(@, h), h)]

Malloc(i, h) ==
  /\ Alive(ctx[i]) /\ buffers[i][h] < MaxCopies
  /\ bufCtx' = [bufCtx EXCEPT ![h] = ctx[i]]
  /\ buffers' = [buffers EXCEPT ![i] = Append1(@, h)]

FreeForgetful(i, l) ==
  /\ bufCtx' = Released(In(l))
  /\ UNCHANGED buffers

(* free() for each entry of l: it leaves _buffers and is released whether  *)
(* it was in it or not.                                                    *)
FreeAll(i, l) ==
  /\ bufCtx' = Released(In(l))
  /\ buffers' = [buffers EXCEPT ![i] = Minus(@, l)]

ReleaseAllAndKernels(i) ==
  /\ FreeAll(i, buffers[i])
  /\ queueCtx' = [q \in Queues |-> IF q = queue[i] THEN None ELSE queueCtx[q]]
  /\ held' = held \ {ctx[i]} /\ kept' = kept \ {ctx[i]}

(* shutdown(): the buffers, then the queue and the context, which the      *)
(* object goes on naming: the next time they are released again, whoever   *)
(* has them by then.                                                       *)
ReleaseAll(i) ==
  /\ FreeAll(i, buffers[i])
  /\ queueCtx' = [q \in Queues |-> IF q = queue[i] THEN None ELSE queueCtx[q]]
  /\ held' = held \ {ctx[i]}
  /\ UNCHANGED kept

DeviceShutdown(i) ==
  /\ state[i] # "absent"
  /\ ReleaseAll(i)
  /\ state' = [state EXCEPT ![i] = "down"]
  /\ UNCHANGED <<ctx, queue, loader, model, closed, cache, history>>

(* The last reference to the device, its model and its loader goes:        *)
(* __del__ runs shutdown, for the first time or once more, and the id is   *)
(* free for another device.                                                *)
Collect(i) ==
  /\ state[i] # "absent"
  /\ ReleaseAll(i)
  /\ state' = [state EXCEPT ![i] = "absent"]
  /\ ctx' = [ctx EXCEPT ![i] = None] /\ queue' = [queue EXCEPT ![i] = None]
  /\ loader' = [loader EXCEPT ![i] = NoEntries]
  /\ model' = [model EXCEPT ![i] = {}] /\ closed' = closed \ {i}
  /\ reused' = reused \cup {i} /\ heirs' = heirs \ {i}
  /\ UNCHANGED <<cache, careless>>

-----------------------------------------------------------------------------
(* The loader and the model of a device, and the kernel cache              *)

(* One iteration of WeightLoader.load().  It can raise between any two, so *)
(* any number of tensors may be in.                                        *)
LoadTensor(i) ==
  /\ state[i] = "up"
  /\ \E h \in Free :
       /\ Malloc(i, h)
       /\ loader[i][h] < MaxCopies
       /\ loader' = [loader EXCEPT ![i] = Append1(@, h)]
  /\ UNCHANGED <<objects, model, closed, cache, held, kept, queueCtx, history>>

(* Model.__init__: a buffer shutdown will free, or one it will not, that   *)
(* is buf_inv_rms and, in the first forward, buf_logits, which only the    *)
(* device's list keeps.  Each can raise before the next, and a new Model   *)
(* may take the place of an earlier one, shut down or not.                 *)
ModelMalloc(i) ==
  /\ state[i] = "up"
  /\ \E h \in Free :
       /\ Malloc(i, h)
       /\ \/ model' = [model EXCEPT ![i] = {h}] /\ closed' = closed \ {i}
          \/ model[i] # {} /\ UNCHANGED <<model, closed>>
  /\ UNCHANGED <<objects, loader, cache, held, kept, queueCtx, history>>

(* What a shutdown may count as, up to the bound on careless ones.         *)
Careless(is) ==
  /\ is => careless < MaxCareless
  /\ careless' = careless + IF is THEN 1 ELSE 0

(* Model.shutdown(): the attributes keep their handles, so the next time   *)
(* the same ones are freed again, whoever has them by then.                *)
ModelShutdown(i) ==
  /\ state[i] # "absent" /\ model[i] # {}
  /\ FreeAll(i, Each(model[i]))
  /\ closed' = closed \cup {i}
  /\ Careless(i \in closed \/ state[i] = "down")
  /\ UNCHANGED <<objects, loader, model, cache, held, kept, queueCtx, reused, heirs>>

(* WeightLoader.shutdown(): the dictionary is cleared.                     *)
LoaderShutdown(i) ==
  /\ state[i] # "absent" /\ In(loader[i]) # {}
  /\ FreeAll(i, loader[i])
  /\ loader' = [loader EXCEPT ![i] = NoEntries]
  /\ Careless(state[i] = "down")
  /\ UNCHANGED <<objects, model, closed, cache, held, kept, queueCtx, reused, heirs>>

GetKernelAnyDevice(i) ==
  /\ state[i] = "up" /\ cache[i] = None /\ Alive(ctx[i])
  /\ cache' = [j \in Ids |-> IF cache[j] = None THEN ctx[i] ELSE cache[j]]
  /\ kept' = kept \cup {ctx[i]}
  /\ UNCHANGED <<objects, lists, held, queueCtx, bufCtx, history>>

(* _get_kernel() when the cache has none for the id: a new kernel, which   *)
(* keeps its context for good.  When it has one that one is returned, and  *)
(* nothing changes.                                                        *)
GetKernel(i) ==
  /\ state[i] = "up" /\ cache[i] = None /\ Alive(ctx[i])
  /\ cache' = [cache EXCEPT ![i] = ctx[i]]
  /\ kept' = kept \cup {ctx[i]}
  /\ UNCHANGED <<objects, lists, held, queueCtx, bufCtx, history>>

Next == \E i \in Ids :
  \/ NewDevice(i) \/ LoadTensor(i) \/ ModelMalloc(i) \/ GetKernel(i)
  \/ ModelShutdown(i) \/ LoaderShutdown(i) \/ DeviceShutdown(i) \/ Collect(i)

Spec == Init /\ [][Next]_vars
-----------------------------------------------------------------------------
(* Properties                                                              *)

Up(i) == state[i] = "up"

(* The values every variable may take.                                     *)
TypeOK ==
  /\ state \in [Ids -> {"absent", "up", "down"}]
  /\ ctx \in [Ids -> Contexts \cup {None}] /\ queue \in [Ids -> Queues \cup {None}]
  /\ buffers \in [Ids -> [Handles -> 0..MaxCopies]]
  /\ loader \in [Ids -> [Handles -> 0..MaxCopies]]
  /\ model \in [Ids -> SUBSET Handles] /\ closed \subseteq Ids
  /\ cache \in [Ids -> Contexts \cup {None}]
  /\ held \subseteq Contexts /\ kept \subseteq Contexts
  /\ queueCtx \in [Queues -> Contexts \cup {None}]
  /\ bufCtx \in [Handles -> Contexts \cup {None}]
  /\ reused \subseteq Ids /\ heirs \subseteq Ids /\ careless \in 0..MaxCareless

(* The buffers that a device's model and its loader may still use.         *)
InUse(i) == In(loader[i]) \cup (IF i \in closed THEN {} ELSE model[i])

(* Until somebody shuts down a model twice, or a model or a loader after   *)
(* its device, a device that is up keeps its buffers: no free() and no     *)
(* shutdown, not the second one of __del__ either, releases a buffer that  *)
(* a model or a loader uses or that is in the list of a device that is up, *)
(* in whatever order devices come and go (device.py:104-108, 244-263).     *)
DevicesKeepBuffers ==
  careless = 0 => \A i \in Ids : Up(i) => \A h \in In(buffers[i]) \cup InUse(i) : bufCtx[h] = ctx[i]

(* A device that is up keeps its context and its queue, although every     *)
(* shut down device releases its own again when it is collected, unless    *)
(* it was given a handle that such a device still names                    *)
(* (device.py:250-253, 259-263).  That is the one way to lose them.        *)
DevicesKeepQueues ==
  \A i \in Ids \ heirs : Up(i) => ctx[i] \in held /\ queueCtx[queue[i]] = ctx[i]

(* A device takes its buffers along, also those Model.shutdown does not    *)
(* free and those of a load or a model that raised half way: every buffer  *)
(* of the driver is in the list of a device that is up, whatever its       *)
(* callers do (device.py:101, 245-249).                                    *)
BuffersAreListed ==
  \A h \in Handles : bufCtx[h] # None => \E i \in Ids : Up(i) /\ h \in In(buffers[i])

(* The kernel _get_kernel returns is of the device's own context, or it is *)
(* a stale one: the id was an earlier device's, and then it is of a        *)
(* context that no device with handles of its own has again, so that every *)
(* launch of it is refused and none runs elsewhere (kernels.py:16-22).     *)
StaleKernelsAreRefused ==
  \A i \in Ids : Up(i) /\ cache[i] # None =>
    \/ cache[i] = ctx[i]
    \/ i \in reused /\ \A j \in Ids \ heirs : Up(j) => queueCtx[queue[j]] # cache[i]
=============================================================================
