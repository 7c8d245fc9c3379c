# XeCUDA: a TLA+ model of its runtime and inference path

XeCUDA offers the CUDA runtime interface (`xeCudaMalloc`, `xeCudaLaunchKernel`,
`xeCublasSgemm`, ...) on top of OpenCL, a thin layer with the names of Level
Zero, and a Python package that runs a language model on the same GPU. This
directory holds TLA+ specifications of the parts that carry its logic, the TLC
configurations that check them on small instances, and proofs checked by TLAPS.
Source paths below are relative to the repository's root.

1. [The system](#1-the-system)
2. [The modules](#2-the-modules)
3. [The runs](#3-the-runs)
4. [The proofs](#4-the-proofs)
5. [What the code gets wrong](#5-what-the-code-gets-wrong)
6. [What is not modelled](#6-what-is-not-modelled)
7. [What could come next](#7-what-could-come-next)

## 1. The system

| Component | Code | State | Operations | Uses |
|---|---|---|---|---|
| OpenCL backend | `include/xecuda_ocl.h` | `g_state` (flag, context, queue), `g_func`, `g_hCL` | `init`, `shutdown`, `gpuMalloc/Free/Write/Read/Sync`, compile, launch | the OpenCL library through `dlopen` |
| Runtime | `src/xecuda_runtime.cpp` | `g_bufSizes` under `g_bufMutex`, `g_currentDevice`, `g_lastError`, stream ids, memset kernel | malloc, free, memset, memcpy, streams, errors | backend |
| Level Zero interface | `src/xecuda_l0.cpp` | the caller's `xeL0State_t` | init, alloc, free, module, launch, shutdown | backend |
| BLAS | `src/xecuda_blas.cpp` | static programs, kernels and `once_flag`s | `xeCublasSgemm`, `xeCudaMatVecQ4KM` | backend |
| CPU kernel launch | `include/xecuda_kernel.h` | `thread_local g_xeWorkContext` | `xeCudaLaunchKernel` | OpenMP |
| Streams and events | `src/xecuda_stream.cpp` | host time stamps | create, record, elapsed | - |
| DLL loader | `src/xecuda_ze_loader.cpp` | one flag | load | runtime |
| XMX, flash attention | `src/xecuda_xmx.cpp` | - | tile products on the CPU | - |
| Python device | `python/xecuda/device.py` | context, queue, `_programs`, `_kernels`, `_buffers` | malloc, free, read, write, build, launch, shutdown | OpenCL through ctypes |
| Python kernels | `python/xecuda/kernels.py` | `_kernel_cache` | one wrapper per kernel | device |
| Weights, model, generation | `weight_loader.py`, `model.py`, `generate.py` | weight buffers; activation buffers; token list | load, `forward`, the decoding loop | kernels, device, tokenizer |
| GGUF readers, tokenizer | `gguf_loader.py`, `gguf_reader.py`, `tokenizer.py` | vocabulary, merge ranks | parse, encode, decode | files |
| PyTorch bridge, autograd | `torch_bridge.py`, `autograd.py` | patched methods; the value graph | init; backward, Adam | PyTorch |
| Tools, samples, web page | `tools/`, `examples/`, `webapp/` | - | scripts | - |
| Reference operators | `tools/ref/ops.cpp` | tensors, `wdata`, the pool's chunk counter | one function per tensor operator, run by every thread of a pool | barrier and chunk counter of the pool (not in the repository) |
| Rest of the reference | `tools/ref/` | - | llama.cpp and ggml, kept to be read | - |

How they interact. Every C++ entry point tests `xoc::isInitialized()`, most of
them call `xoc::init()` when it is false, and then go through `g_state` and
`g_func`. All of these are process-wide, and the only locks in the program are
`g_bufMutex` and the `once_flag`s of three kernels. There is one in-order
command queue. The Python side talks to OpenCL on its own: it shares nothing
with the C++ side.

What is hard about each, and what makes it correct:

* **Backend.** Every external call of `init` may fail, each leaves `g_state` half
  filled, and the next call tries again; nothing is locked. A set flag must mean a
  usable backend, no call may go into a closed library, a buffer and the queue
  it is written through must belong together, and no context may get lost.
* **Device memory.** The driver reuses a handle as soon as it is released, and
  the map is updated under a lock the driver calls are outside of. The size on
  record must be that of the buffer, no buffer may be lost on an error path.
* **Kernels of the runtime.** Arguments live in one `cl_kernel` per process,
  results of calls are dropped, temporaries must live as long as the device
  needs them, callers wait for another thread's compilation.
* **CPU launch.** One flat loop, run by a team; index arithmetic in 32 bits.
* **Model.** Nearly 500 launches per token over 13 buffers that are never cleared,
  none of whose results is looked at.
* **Copies, streams, errors.** Copies, launches and modules of all threads share
  one queue; a copy between two buffers is a read and a write with a host block in
  between; a counter and an error variable are shared by all threads.
* **Python device.** Three owners free the same handles, objects go on naming what they
  released, `shutdown` runs again in `__del__`, a cache is keyed by the address of an object.
* **GPU kernels.** Tree reductions with barriers; work-items that read what
  others write; rows that do not end where a work-group does.
* **Reference operators.** About a hundred functions, each with its own way of
  cutting the work into shares, its own barriers and index arithmetic. Two
  threads may not write the same element, nothing may be forgotten when the work does
  not divide by the number of threads, and every thread must reach every barrier.
* **Parsers, tokenizer, autograd.** Sequential algorithms over files and graphs.

`PROJECT.json` lists the hazards at their lines and the properties that cover them.

## 2. The modules

| Module | Models | Checked by | Proved in |
|---|---|---|---|
| `XocBackend` | `xecuda_ocl.h`, `xeL0Shutdown`, and the callers of `init` | `MCXocBackend` | `XocBackendProofs` |
| `Allocator` | what device memory promises (abstract) | through `XeMemory` | `XeMemoryProofs` |
| `XeMemory` | `xeCudaMalloc`, `xeCudaFree`, L0 alloc and free, init and shutdown | `MCXeMemory` | `XeMemoryProofs` |
| `XeKernels` | `xeCublasSgemm`, `xeCudaMatVecQ4KM`, `xeCudaMemset`, the queue | `MCXeKernels` | `XeKernelsProofs` |
| `XeRuntime` | `xeCudaMemcpy`, synchronisation, `g_lastError`, L0 modules and launches, events | `MCXeRuntime` | `XeRuntimeProofs` |
| `KernelLaunch` | `xeCudaLaunchKernel` | `MCKernelLaunch` | `KernelLaunchProofs` |
| `PyDevice` | `device.py`, the kernel cache, the buffers of `WeightLoader` and `Model` | `MCPyDevice` | `PyDeviceProofs` |
| `ModelForward` | `generate`, `Model.forward`, the launches it makes | `MCModelForward` | `ModelForwardProofs` |
| `GgmlThreads` | the pool of threads, or the work-groups, that run one operator | `MCTensorOps` | `GgmlProofs` |
| `GgmlLayout` | shapes, elements, shares, plans | `MCTensorOps` | `GgmlProofs` |
| `GgmlElements`, `GgmlRows`, `GgmlWindows`, `GgmlSequence` | the operators of `tools/ref/ops.cpp` | `MCTensorOps` | `GgmlProofs`, about half of them |
| `GpuKernels` | the OpenCL kernels of `kernels.py` | `MCTensorOps` | - |

The C++ side (`XocBackend` up to `KernelLaunch`) is five views of one process:
`XeMemory`, `XeKernels` and `XeRuntime` take the backend as one flag or one epoch, which
is what `XocBackend` shows it to be when inits do not overlap. `ModelForward`
uses buffers and kernels whose lifetimes `PyDevice` follows, and takes a kernel as one
step whose inside `GpuKernels` follows.

In the modules of the C++ side `pc[t]` says where thread `t` is, and a
function of the program is a row of actions, split where another thread can
come between two accesses of shared state. Failing calls are extra disjuncts.
In some modules a definition that no action uses stands in front of one with a
similar name (`FreeCodeReleaseFirst` in front of `FreeCode`): it is the same
code with a plausible mistake, and TLC finds the property of the last column of
section 3 violated when it takes the definition's place.

**XocBackend.** `InitCheck`, `Dlopen`, `Dlsym`, `QueryDevice`, `CreateContext`,
`StoreContext`, `CreateQueue`, `StoreQueue`, `SetFlag` are `init`; a creation
and the assignment of its result are two steps, because the assignment can be
overtaken. `ReleaseQueue`, `ReleaseContext`, `Dlclose`, `ClearFlag` are
`shutdown`. `GpuMalloc`, `GpuWrite` and `GpuFree` stand for the callers.
`libRefs` counts `dlopen` references: a library loaded twice and closed once
stays. `badCall` is set when a call goes through `g_func` while nothing is
loaded. `refused` and `badCall` are history variables. What the application
orders itself is a constant each, `ShutdownAlone` and `FreeAfterShutdown`, and
`initAlone`, chosen from `InitPolicies`, says whether inits may overlap. A second creation hands out a handle that is not live.

**XeMemory.** `MallocCall/Create/Lock/Put/Return` and `FreeCall/Lock/Erase/Release`
follow the two functions; the driver's part, `live`, is separate from the
program's, `bufSizes`, and `Unused` lets the driver reuse any dead handle.
`cudaHeld` and `l0Held` are the pointers the application has. The application
frees only what it holds, with the function of the interface it came from, and
shuts down between calls. Sizes are model values: only equality matters.

**XeKernels.** `Call`, `OnceEnter`, `Compile`, `OnceDone`, one `SetArg` per
argument, `LaunchAccepted` or `LaunchRefused`, `Sync`, and for
`xeCudaMatVecQ4KM` the allocation, writing, reading and release of its three
temporaries. `Execute` is the device. A kernel object remembers the epoch of
the context it was made in; a launch in another epoch is refused. Arguments are
grouped (dimensions, inputs, output, scalars), and a result is the set of calls
whose arguments went into it, so a mixture is visible.

**XeRuntime.** `CopyCall` chooses source and destination; `CopyRead`, `CopyReadDone`
and `CopyReturn` bring a buffer to the host, `CopyWrite` the other way, and a
copy between buffers is `CopyAlloc`, a read and a write through a temporary.
`LaunchKernel` is the L0 launch, `SynchronizeCall`, `Sync` and `Wait` are the synchronising
calls, `CompileProgram` and `CreateKernel` the L0 module, `EventRecord` and
`GetLastError` what they are called. A command sits in `jobs` until `Execute`, the
device, runs it. Values are the names of the buffer or host block they came from;
`seen` collects what a copy's source held since its call began, and `raised`,
`reported` and `recorded` are history.

**KernelLaunch.** `RunAlone` is the path of at most one thread, `EnterLoop`,
`Take`, `StoreContext`, `KernelReadsBlock`, `KernelReadsThread` and `Return` the
OpenMP loop; `Decompose` is the index arithmetic with products modulo
`UIntRange`, and `Crash` the division by a product that wrapped to zero.
A kernel reads `blockIdx` and `threadIdx` in two steps: a context shared by the
team would be noticed.

**ModelForward.** A launch is a record: the sizes of the kernel's parameters as
its source declares them, the sizes of the arguments as its wrapper passes them,
and the buffers it writes with those it reads. A pass is the embedding row,
then the layers, then the head (`Launches`), a stage at a time. Contents are sets of
token positions, with `Garbage` for memory never written. Weight buffers are
constants and appear only through their type, which selects the kernel. A
buffer is one cell: kernels that read or write a part of it are taken to touch
all of it. `clSetKernelArg` fails exactly when sizes differ.

**PyDevice.** A device object has an id, a context, a queue and the list of its buffers;
the loader and the model hold handles they got from it. Lists are counts of their entries,
because a stale handle can get into one twice. `LoadTensor` and
`ModelMalloc` allocate, one buffer at a time, so that either can stop half way;
`ModelShutdown`, `LoaderShutdown` and `DeviceShutdown` are the three `shutdown`s, and
`Collect` is the collector that runs `__del__`, after which the id is free again;
`GetKernel` is `_get_kernel` with its cache, the kernel standing for all. Any order is possible:
a device may be shut down again and again, stay around while others are made (as in
`python/examples/08_real_hardware_test.py:173`), and be collected under them; its `_ctx` and
`_queue`, and the attributes of a `Model`, keep naming what was released, and the next
shutdown releases it once more. What is left out is any other use of a device after its shutdown.
The driver hands out every handle that names nothing, keeps a context alive as long as something of
it is left, and refuses to release what does not exist. Three variables are history that no action
reads, but for the bound on `careless`: `reused` has the ids of earlier devices, `heirs` the devices
made with a context or a queue that another object still named, and `careless` counts the shutdowns of
a model that was shut down before, or of a model or a loader whose device was. No caller
in the repository is careless (`generate.py:193`, `test_pipeline.py:250`, 360).

**GgmlThreads, and the operators.** An operator of `ops.cpp` is an operator of TLA+
that returns a *plan*: for each thread a program of steps, a step being
the elements it writes with those each is computed from, or a barrier, or the loop
over chunks; the elements the call is given; and for every element of the result the
inputs its mathematical definition names, written down independently of the
shares and offsets (`result`). `GgmlThreads` runs a plan: all threads at once,
barriers meet, chunks are taken from the pool's counter. `from[c]` is the set of
inputs element `c` has been computed from so far. Sharing is by name in
`GgmlLayout` (`Chunk` for `dr = (nr + nth - 1) / nth`, `Strided` for `ith, ith + nth, ...`).
Values matter where the code's control depends on them (row indices,
`count_equal`, pooling's position of the maximum), and are constants then. Types appear where
the code takes another path (quantised rows as a whole, `wdata` conversions). The pool,
`ggml_barrier` and the chunk counter are external, modelled from how `ops.cpp` calls them.
`Disciplined` is a condition on the text of a plan, not on its runs: steps of two threads that
conflict have different numbers of barriers in front of them (`IsOrdered`), the chunk counter is
set before a barrier that those who take chunks wait for (`SetsCounterFirst`), and steps name only
elements of the call's tensors (`IsInside`).

**GpuKernels.** The same machine runs an OpenCL kernel: a thread is a work-item, a
team is a work-group, and a barrier waits for the team only. Local memory and the
private variables of the work-items are scratch cells. `W`, a power of two, is the size
of a group. The launches are those of the wrappers (grid size, local size); `RmsNorm` has the
wrapper's `n_rows` and `dim`, of which the kernel gets the product.

## 3. The runs

Every run names its configuration, `<run>.cfg`.

| Run | Expected | Instance | What it shows |
|---|---|---|---|
| `XocBackend` | pass | 3 threads, one at a time inside `init` or all of them racing, 3 contexts, 2 queues, all six failures | no call into a closed library, even when inits race; when they do not, a set flag means a usable backend, a buffer is written through its own context's queue, and only a refused queue loses a context |
| `XocLateFree` | violation | 1 thread frees after shutdown | a call into a library that was closed |
| `XeMemory` | pass | 2 threads, 3 handles, 2 sizes | map and driver agree, nothing is lost, map accesses exclude each other, `Allocator` is implemented |
| `XeKernels` | pass | 2 threads, each in any entry point, all five failures, 2 epochs | success means computed, or a refused launch nobody looked at; temporaries live as long as the queue needs them and no longer; every call returns |
| `XeKernelsShared` | violation | 2 threads in `xeCublasSgemm` | a product of the other thread's matrices, reported as success |
| `XeRuntime` | pass | 2 threads, 2 buffers, 1 program, 1 error at a time, all six failures | a copy delivers a value its source held during the call; events follow their thread's work; an error is reported once; no program is lost |
| `KernelLaunch` | pass | 2 workers, 44 launches, `unsigned` of 8 values | launches whose divisors fit run every thread exactly once and return |
| `ModelForward` | pass | layers hybrid, attention, hybrid; 4 type assignments; 3 passes; 2 refused calls | a refused call spoils its own pass only |
| `ModelForwardFused` | violation | all weights Q4_K, nothing refused | the fused projections never run |
| `PyDevice` | pass | 2 ids, 3 contexts, 2 queues, 2 handles, 2 entries of a handle in a list, 1 careless shutdown | without a careless shutdown no device loses a buffer; only heirs lose a context or a queue; every buffer is listed; a stale kernel has a reused id and is refused |
| `TensorOps` | pass | 401 calls: teams of 1 to 5 threads, work-groups of 2 and 4 items | no race, no index outside, every element computed from the inputs of its definition, every call ends; the text of each call is `Disciplined` |
| `GpuFusedNorm` | violation | `add_rms_norm` over two work-groups | each group divides by the root of its own half of the squares |

**Bounds, and why they are enough.** Two threads exhibit each race found here;
`XocBackend` takes a third so that one can wait while two interfere. Three
contexts allow a lost one, a current one and one in the making; two sizes tell
right from wrong; three handles are one for each thread and one for reuse. Two
epochs make a kernel stale once; a second staleness is the same state. In `XeRuntime` a
second buffer is the other end of a copy, and the failures let one program
be lost or kept. The 44 launches are all with dimensions up to two and at most eight
threads, and two with a dimension of three; with `UIntRange = 8` both fitting and wrapping
divisors occur, zero included. Three layers put each kind of layer in front of
and behind the other (the program's 32 repeat hybrid, hybrid, hybrid, attention);
three passes let a buffer be read one or two passes after it was written. In
`PyDevice` one device can be made and used while another is shut down, named, shut down again and
collected; the kernels of two ids keep at most two contexts alive, so that a third is there to be handed out, and a handle
listed twice takes one careless shutdown. `rms_norm` has one row in `TensorOps`, as in every call
of `model.py` (section 5 says what two do). `TensorOps` takes shapes whose rows do not divide by
the number of threads, with more threads than rows (5), with broadcast dimensions
of each kind the code distinguishes, with windows that reach over every
border; `flash_attn_ext` comes with each of its three paths. The
shapes are fixed: an operator that goes wrong only for larger ones would pass.
`MaxRefs` (references on the library), `MaxEpoch`, `MaxErrors`, `MaxNew`,
`MaxRefused`, `MaxCopies` and `MaxCareless` bound what would grow for ever. `XocBackend`,
`XeRuntime` and `PyDevice` use symmetry over threads and handles, which no
property tells apart, with safety properties only; no other run uses it.

**Fairness.** `XeKernels` assumes weak fairness of each thread inside a call and
of the device: operating system and driver keep running both, and neither can
be disabled by others for ever (`call_once` lets the waiting thread through when
the first is done, the queue is in order). Nobody is assumed to start a call or to
shut down. `KernelLaunch` and `GgmlThreads` assume weak fairness of their next-state
relation: a team with work left does some of it; each thread has finitely many
steps, so that is enough. All other properties are safety.

**Deadlock** is checked except where the system ends: a launch returns
(`KernelLaunch`), a generation is over (`ModelForward*`), an operator is done
(`TensorOps`, `GpuFusedNorm`; that it never stops before is `CallsEnd`).

**What each property notices.** Replacing a definition by its faulty variant:

| Property | Run | Definition, variant |
|---|---|---|
| `TypeOK` | `XocBackend` | `Dlclose`, `DlcloseUnchecked`: closes a library it does not have |
| `InitializedMeansReady` | `XocBackend` | `ClearFlag`, `KeepFlag`: shutdown leaves the flag set |
| `CallsReachLibrary` | `XocBackend` | `Dlsym`, `DlsymUnchecked`: goes on with missing symbols |
| `WritesMatchContext` | `XocBackend` | `StoreQueue`, `StoreQueueUnchecked`: takes a refused queue |
| `OnlyRefusedQueuesLeak` | `XocBackend` | `ReleaseContext`, `ForgetContext`: forgets without releasing |
| `TypeOK` | `XeMemory` | `MallocCreate`, `MallocCreateUntested`: does not test for failure |
| `SizesMatch`, `ImplementsAllocator` | `XeMemory` | `FreeCode`, `FreeCodeReleaseFirst`: releases before it erases |
| `EntriesAreLive` | `XeMemory` | `FreeCall`, `FreeCallNoErase`: never erases |
| `NoOrphans` | `XeMemory` | `FreeCall`, `FreeCallNothingWhenDown`: a late free does nothing |
| `MapExclusive` | `XeMemory` | `Lock`, `LockUntested`: does not wait for the mutex |
| `TypeOK` | `XeKernels` | `SetArg`, `SetArgButLast`: leaves the last argument out |
| `ComputedOrRefused`, `QueuedBuffersExist` | `XeKernels` | `Sync`, `SyncNotWaiting`: does not wait for the queue |
| `NoTemporaryLeft` | `XeKernels` | `MatVecAlloc`, `MatVecAllocLeaving`: returns without freeing |
| `CallsReturn` | `XeKernels` | `Compile`, `CompileFlagOnSuccess`: a failed compilation keeps the flag taken |
| `TypeOK`, `ErrorsReportedOnce` | `XeRuntime` | `GetLastError`, `GetLastErrorKeeping`: does not reset the variable |
| `CopiedValueWasThere` | `XeRuntime` | `CopyReadDone`, `CopyReadDoneUnwaited`: takes the block before the read has run |
| `EventsFollowWork` | `XeRuntime` | `Sync`, `SyncUnwaited`: returns before the queue is empty |
| `ProgramsAccounted` | `XeRuntime` | `CreateKernel`, `CreateKernelKeeping`: a failed kernel leaves its program |
| `TypeOK` | `KernelLaunch` | `Take`, `TakeTwice`: the loop's counter may advance by two and pass the end |
| `FittingLaunchesAreComplete` | `KernelLaunch` | `Return`, `ReturnAtLastIndex`: does not wait for the team |
| `NoThreadTwice` | `KernelLaunch` | `StoreContext`, `StaticContext`: one context for the whole team |
| `FittingLaunchesReturn` | `KernelLaunch` | `Take`, `TakeButLast`: never hands out the last index |
| `TypeOK` | `ModelForward` | `StartPass`, `StartPassOneMore`: a pass too many |
| `LossesStayInTheirPass` | `ModelForward` | `FeedForward`, `FeedForwardNoUp`: the gate is multiplied with the buffer of an earlier pass |
| `TypeOK` | `PyDevice` | `Malloc`, `MallocListedTwice`: a new buffer is put in the list twice |
| `DevicesKeepBuffers` | `PyDevice` | `FreeAll`, `FreeForgetful`: `free` leaves the handle in `_buffers` |
| `DevicesKeepQueues` | `PyDevice` | `NewDevice`, `NewDeviceClassContext`: `_ctx` is an attribute of the class |
| `BuffersAreListed` | `PyDevice` | `Malloc`, `MallocUnlisted`: a new buffer is not put in the list |
| `StaleKernelsAreRefused` | `PyDevice` | `ReleaseAll`, `ReleaseAllAndKernels`: shutdown releases the kernels too, and `_kernel_cache` keeps them |
| `TypeOK` | `TensorOps` | `ChunkProgram`, `ChunkProgramUnset`: the pool's counter is not set |
| `RaceFree` | `TensorOps` | `Acc`, `AccUnordered`: no barrier behind the copy |
| `WithinBounds` | `TensorOps` | `Clamped`, `ClampedBelow`: a window is cut at one end only |
| `ResultsAreComplete` | `TensorOps` | `HeadsOf`, `HeadsOfRounded`: the heads a thread gets are rounded down |
| `Disciplined` | `TensorOps` | `Acc`, `AccUnordered`: no barrier behind the copy |
| `CallsEnd` | `TensorOps` | `CountEqual`, `CountEqualEarly`: a thread without rows returns before the barrier |

## 4. The proofs

`XeMemoryProofs` proves for any sets of threads, handles and sizes, with the one
assumption that the null values are none of them (`MemoryAssumption`):

* `TypeCorrect`, `SizesCorrect`, `NoStaleEntries`, `NothingLost` and
  `MapAccessExclusive`: the five invariants of the run `XeMemory`;
* `Refinement`: `Spec` implies `Abstract!Spec`, the abstract `Allocator` with
  `owned` mapped to the handles the application holds and `size` to the sizes on
  record for them.

None of the safety invariants is inductive. `SizesMatch` speaks of handles the
application holds, and is threatened by a thread that is still freeing a handle
of the same value; so the inductive invariant `IInv` (`Invariance`) says what
threads in transit own. `TransitInv`: the handle of a running malloc or free
exists, is nobody else's and is not held. `MallocInv`: a malloc keeps the size
it asked for until the driver's buffer has it. `HeldInv`: the two interfaces
hold different, live handles. `MutexInv`: exactly the threads at the map hold
`g_bufMutex`. `EntryInv`, while `lateFree` is false: an entry has the
driver's size, a buffer of the L0 interface has none, and a free that is about to
release has erased. From `TransitInv` and the position of the erase before the release
follows that the driver cannot reuse a handle that still has an entry (unless a
free ran while the backend was down, which `lateFree` records).

The invariance proof has a lemma each for malloc, for free and for the L0
interface, in each a step per action and under it one per conjunct. The
refinement proof shows that `MallocReturn` and `L0Create` are `Allocate`,
that `FreeCall` and `L0Free` are `Release`, and that every other step leaves the
two mapped values alone, which again needs `IInv`.

`XocBackendProofs` proves the run's five invariants for any numbers of threads,
contexts, queues and references, and any subset of failing calls, from the
assumption `Careful`: the application shuts down while no other call runs and no buffer is left
(`XocLateFree` shows what happens otherwise). `LibraryInv` carries the argument: whenever
somebody may call through `g_func` (`InUse`), the library is loaded and its symbols are those of
the loaded one (`Callable`), and a thread between `dlopen` and its symbols has a
reference of its own, so that the failing path's `dlclose` of one thread never unloads what
another one uses. `RefsInv` counts the references that threads on their way to `dlopen`
will still take; `ShutdownInv` is what being alone gives; `AloneInv` is the part
for inits that do not overlap, from which `FlagMeansReady` and
`WritesFindTheirContext` follow. `OnlyRefusedQueuesLeak` has an invariant of its own on top,
`LossInv`: it counts as dead also the current context of an init that gave up, so that the
refused queue and not the later overwriting is the step that adds one. Finiteness of the sets of threads and contexts
(`BackendAssumption`) is needed to count.

`XeKernelsProofs` proves the four invariants of `XeKernels` for any threads, any
assignment of entry points to them and any number of epochs. `QueueInv`: a job in
the queue belongs to a thread that waits for it, and its arguments were all set by
callers of its entry point. `ArgsInv`: arguments are set in order, so that none is
missing at the launch, even when threads share the kernel. `TempsInv`: where in the code
the three temporaries exist. `OutInv`, for a thread alone in its entry point: the output
is empty up to the launch, and a finished job made it from the thread's own arguments.

`XeRuntimeProofs` proves the five invariants of `XeRuntime` for any threads, buffers,
programs and errors. `QueueInv`: a command in the queue is that of a thread that waits, and a
reading thread's is the read of its source. `CopyInv` and `PlacesInv`: a read that has run has taken
a value of `seen`, and the current content is always in `seen`. `ModulesInv`: a program belongs to
one running call or to the caller. Both modules begin with two lemmas on appending
to and taking from a sequence.

`KernelLaunchProofs` proves the three invariants of `KernelLaunch` for any set of launches, any
team and any width of `unsigned`. The core is that `Decompose` is injective on the indices of a launch whose
divisors fit (lemmas on quotients and remainders); `PhaseInv`, `AloneInv`, `WorkersInv` and
`RunsInv` say which index each worker holds and that the runs so far are exactly the images of the indices
handed out and finished.

`ModelForwardProofs` proves `TypeOK` and `LossesStayInTheirPass` for any sequence of layers, any types of
weights and any number of passes. `FreshInv` is the argument: in a pass without a refused call, what
the stage was given (`Entry`: the embedding row, then `a`) and every buffer it has written hold the
pass's own position. It is preserved because a stage's launches read only what is in `Entry` or
written earlier in the stage (`Flows`, a lemma for each kind of layer and for the head), so no buffer of
an earlier pass is ever read. `LossyInv`, that without a fused norm a call is lost only where the
driver refuses it, gives `OnlyFusedAreLost`: what the run `ModelForwardFused` shows is the only such loss.

`PyDeviceProofs` proves the five invariants of `PyDevice` for any ids, contexts, queues and handles, and for
every order of shutdowns. `ContextsInv` says that a device that is up and no heir shares its context
and its queue with no object at all, so that whoever releases for the second time releases something
else; a new device breaks this only for itself, which makes it an heir. `Owns` and `Apart` say that, until
somebody is careless, a handle is in one list of one device, once, and that the model and the loader use
disjoint parts of it. `KernelsInv` says that the kernels of the cache keep their contexts, so that none
of these is handed out again, to the same id or to another. `BuffersAreListed` is inductive by itself.

`GgmlProofs` is about the operators of `ops.cpp`, for tensors and teams of every size, where the run
`TensorOps` has a few small ones. Its theorems are of three kinds.

* *Arithmetic.* For any numbers of rows and threads the three ways of sharing (`StridesPartition`,
  `ChunksPartition`, `HeadsPartition`) give every row to exactly one thread, and for every shape the loops'
  decoding of a flat index (`RowOf`, `ElementOf`) is the inverse of the offset (`DecodingAnOffset`,
  `DecodingAnIndex`).
* *The machine.* `MachineInv` is the inductive invariant of `GgmlThreads` for any set of plans that
  `PlansAssumption` admits: a team is always between the same barriers (`LockStepInv`), chunks are handed
  out once (`ChunksInv`), and values come from inputs (`ValuesInv`). From it follows `DisciplinedIsSafe`: a call
  whose text keeps the discipline has `TypeOK`, `RaceFree` and `WithinBounds` in every interleaving.
  The run `TensorOps` finds all its 401 texts, those of the GPU kernels included, `Disciplined`, so the
  hypothesis is that of the calls checked.
* *The operators.* Three forms of a plan each imply all four invariants, `ResultsAreComplete` included:
  `DirectIsRight`, no thread uses what another computes; `PreparedIsRight`, every thread prepares
  cells, waits, and works on what anyone prepared; `PooledIsRight`, the threads take chunks from the
  counter. The three theorems on calls say which operators have these forms, for all shapes, parameters
  and numbers of threads:

| Theorem | Calls | Conditions |
|---|---|---|
| `DirectCallsAreRight` | `dup` (contiguous), `add1`, quantised `add`, the activations and their gated forms, `scale`, `clamp`, `fill`, `sum`, `sum_rows`, `mean`, `argmax`, `cumsum`, `argsort`, `diag`, `tri`, the norms and their gradients, `soft_max` and its gradient, the gradient of the cross entropy, SGD, `concat`, `get_rows`, `add_id`, pooling, `upscale`, `pad` | those the code asserts: equal rows of the two tensors, indices within the rows, rows of at least two elements where a row is cut in halves |
| `PreparedCallsAreRight` | `diag_mask`, `acc`, `set`, the three outer products, `flash_attn_ext` split over the positions | the region fits into `dst`; planes of `src1` a multiple of those of `src0`; one query, at least `split_at` positions, query heads a multiple of key heads |
| `PooledCallsAreRight` | `flash_attn_ext` by the row, `gated_delta_net` | fewer than `q_tile` queries and not the split path; heads a multiple of key heads; sequences of `v` a multiple of those of `q` and `k`, at least one snapshot |

  The conditions are the assertions in front of the operators, or what their integer divisions take
  for granted; `TensorOps` runs calls of each row of the table.

Only model-checked:

* liveness: `CallsReturn`, `FittingLaunchesReturn`, `CallsEnd`;
* that a text is `Disciplined`, and `ResultsAreComplete`, for the operators outside the table: they are
  finite computations for the shapes of `TensorOps`. Among them are tiled flash attention, whose tiles are
  defined by recursion over the queries, so that a proof is an induction over data; `count_equal` and
  `cross_entropy_loss`, which add up partial results of the threads; `add_rel_pos`; copies between layouts
  and types, `repeat`, `set_rows`, `group_norm`, `roll`, `top_k`; the convolutions, the rotary embeddings,
  the recurrences except `gated_delta_net`, `flash_attn_back`, the mixtures, and the GPU kernels.

## 5. What the code gets wrong

Shown by a run each:

* `XocLateFree`: `xeCudaFree` after `xeL0Shutdown` jumps into an unloaded library
  (`xecuda_runtime.cpp:111`).
* `XeKernelsShared`: `xeCublasSgemm` from two threads shares one set of arguments.
* `ModelForwardFused`: `norm_matvec_q4k` declares `const float inv_rms`
  (`kernels.py:940`) and is passed a buffer (`kernels.py:1002`).
* `GpuFusedNorm`: `add_rms_norm` sums the squares of one work-group and
  divides by the length of the whole row (`kernels.py:790`; the comment at `kernels.py:764` promises
  the norm of the row). `Model._add_norm_matvec` launches it, which `forward` does not call.

Further observations, without a run of their own. From the modules:

* Two first calls of `xoc::init` at once make two contexts, one of which is lost
  (`xecuda_ocl.h:142`, in a header that calls itself a singleton); after it a buffer may be
  written through the other context's queue. `InitializedMeansReady`,
  `WritesMatchContext` and `OnlyRefusedQueuesLeak` speak of inits that do not overlap.
* `XeCudaDevice.shutdown` releases the queue and the context and goes on naming them, and `__del__`
  releases them again (`device.py:250-263`). A device that is made in between may have been given
  the same handles, and loses its context or its queue when the older one is collected: without
  `\ heirs` `DevicesKeepQueues` fails. `dev = XeCudaDevice()` after `dev.shutdown()` is enough, as the
  new object exists before the old one is dropped.
* `_kernel_cache` is keyed by `id(device)` (`kernels.py:17`) and never cleared. A device that gets the id
  of a collected one gets its kernels, of the old context: every launch is refused, and as no wrapper
  looks at the result, nothing is computed. `StaleKernelsAreRefused` says that it is no worse: since
  kernels are never released their context is never handed out again, and they run on no other device
  either (heirs apart). That a cached kernel is always the device's own fails.
* `Model.shutdown` keeps its handles (`model.py:262-272`): a second one, or one after the device's, or a
  loader's after the device's, frees whatever the driver has made of them since, and `free` does not mind that
  the handle is not in the list (`device.py:104-108`). Without `careless = 0` `DevicesKeepBuffers` fails.
* `rms_norm` takes `n_rows` and `dim` and hands the kernel their product (`kernels.py:76-78`): with two rows
  the kernel reads the weight past its `dim` elements and divides by one root for both rows, that is
  `WithinBounds` and `ResultsAreComplete` fail for `RmsNorm(2, dim, ...)`. `test_pipeline.py:70-85` launches two
  rows with a weight of one and expects a root for each; `validate_real_gpu.py:127` notes that the
  kernel "computes ONE RMS over the flat array". `model.py:176-181` normalizes all heads as one row; whether the
  weight is that long is up to the file.
* A copy between two buffers is a read and a write (`xecuda_runtime.cpp:182`): another
  thread's command may come between them. `CopiedValueWasThere` says what remains true.

* A refused `clCreateCommandQueue` leaves the context behind; the next `init`
  overwrites it (`xecuda_ocl.h:233`). `OnlyRefusedQueuesLeak` says that this is
  the only way to lose one.
* A free while the backend is down leaves the map's entry
  (`xecuda_runtime.cpp:109`); `EntriesAreLive` excepts it through `lateFree`. The
  next `xeCudaMalloc` of the handle overwrites the entry, which `SizesMatch` covers.
* `xeCudaMatVecQ4KM` and `xeCudaMemset` report success for a launch that was
  refused; `ComputedOrRefused` says that they do nothing worse.
* The static kernels and their flags outlive the context: after shutdown and
  init each launch of them is refused.
* A launch whose divisor wraps to zero reaches `Crash`; a grid of zero threads
  takes `RunAlone` and runs the kernel once (`xecuda_kernel.h:67`).

From reading the code:

* Decoding passes the last token alone (`generate.py:94`), as its comment admits
  (`generate.py:92`): the logits depend on one token, which is not "correct for greedy decoding".
* `xeCudaMemset` fills `count / 4` words: up to three bytes at the end keep their values
  (`xecuda_runtime.cpp:151`).
* `xeL0LaunchKernel` uses the first of the three group counts only (`xecuda_l0.cpp:103`);
  `xeL0FreeMemory` does not test `isInitialized`.
* `nextStreamId` is counted up without a lock (`xecuda_runtime.cpp:208`): two streams can get one id, which no
  code reads.
* Two work-items of `rope_inplace` read what the other one writes (`kernels.py:120`), and so do those
  of `rope_fused_qkv`; `rope_qk_norm` never uses its norm weights (`kernels.py:1359`).
  `add_norm` is passed a buffer for a `const float`, as `norm_matvec_q4k` is (`kernels.py:1136`).
* `add_writeback_norm` over several groups adds the residual once per group
  (`kernels.py:1302`); `GpuKernels` models it for a row of one group, and no code launches it.
* In `ops.cpp`: the row decoding of `count_equal` is right for `ne02 = ne03 = 1` only (1649);
  `set_rows` with a repeated index is a race; `flash_attn_back` is right when there are as many
  key heads as query heads; the transposed convolutions ignore batches; `wkv` takes the
  number of tokens to be a multiple of that of sequences. The instances keep to those conditions.

## 6. What is not modelled

* In modelled parts: floating-point values and the arithmetic inside kernels; failures of
  `clSetKernelArg` other than by size, and of `clFinish`; several devices; torn
  reads of `g_state`, whose fields are machine words on the platforms the program
  is built for; `xeCudaMallocHost`, the device queries and the creation of streams and events,
  which keep no state another call reads; `memset` and the generic `enqueue_kernel` of the Python
  device, which no wrapper uses.
* In the GPU kernels: the elementwise ones, whose work-items share nothing, and the rotary
  ones (section 5).
* In the operators: values, except where control depends on them; strides other than those of
  the layouts named in each operator; the SIMD variants, which compute the same rows.
* The GGUF readers, the tokenizer, autograd and the source translator: sequential
  programs without shared state, whose correctness is in bytes, strings and regular
  expressions; a model would repeat them.
* The PyTorch bridge: patches of methods of a library outside the repository.
* The rest of `tools/ref/`: graph construction and tables kept to be read. They are not
  built, and what they call (the scheduler, the KV cache, the backends) is not there.
* The DLL loader, XMX and flash attention tiles, benchmark, samples, build files, scripts, the web page (which
  talks to no part of the program) and the second inference front ends.

## 7. What could come next

1. `ResultsAreComplete` for the operators section 4 lists as model-checked: those that share whole rows
   and have no barrier are `IsDirect` (copies, `repeat`, the rotary embeddings, the convolutions by row), and
   `count_equal` and `cross_entropy_loss` are `IsPrepared` once the first thread's sum is one of the cells it finishes.
2. A composition of `XocBackend` with `XeMemory`: the one-step init of the second
   implemented by the first.
3. The rotary kernels and the elementwise ones in `GpuKernels`.
