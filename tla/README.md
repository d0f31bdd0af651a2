# Verification of the TensorRT RTX execution provider

TLA+ models, TLC runs and TLAPS proofs about the NVIDIA TensorRT RTX plugin
execution provider for ONNX Runtime (ORT). Paths below are relative to the root
of the repository. `PROJECT.json` lists every run, mutant, theorem, hazard and
the source lines each definition translates.

    tlc -config arena_wired.cfg MCArena      # a run: its cfg and its MC module
    tlapm MempoolProofs.tla                  # a proof module

## The system

| part | code | state | operations | interacts with |
|---|---|---|---|---|
| BFC arena | `src/ep_arena.*` | chunks, bins, regions, reservations, statistics, stream index | Alloc, AllocOnStream, Reserve, Free, Shrink, ResetChunksUsingStream | ORT above, the raw device allocator below |
| raw allocators | `src/tensorrt_rtx_allocator.*` | none | cudaMalloc/cudaFree, pinned host memory, the 256 GB cap | the arena |
| sync GPU allocator | `src/gpu_sync_allocator.h` | a pointer to the arena | allocateAsync, deallocateAsync | TensorRT RTX above, the arena below |
| CUDA mempool | `src/cuda_mempool_arena.*` | allocation and stream maps, probe result | Alloc, AllocOnStream, Reserve, Free, Shrink | compute path, CUDA's stream-ordered pool |
| provider factory | `src/tensorrt_rtx_provider_factory.*` | per-device arenas, mempools, adapters, the async-failure latch, interop contexts | CreateEp, CreateAllocator, CreateDataTransfer, CreateSyncStream, Init/DeinitGraphicsInterop | every other part; several sessions and threads |
| compute path | `src/tensorrt_rtx_execution_provider.cc:6012-6472, 6567-6909` | engine, context, binding caches, context memory | CreateState, Compute | factory, mempool, arena, TensorRT |
| weight streaming | same file, 4331-4618 | budgets, execution contexts | SetDynamicOptions, run start | compute path |
| CUDA graphs | `src/cuda_graph.cc`, same file 5332-5482 | captured graphs per annotation id, warm-up counts | capture begin/end, replay, delete | compute path (the calls are commented out there) |
| stream support | `src/tensorrt_rtx_execution_provider_stream_support.cc` | stream and event handles | create, notify, wait, flush, destroy | factory (interop context), ORT |
| data transfer | `src/tensorrt_rtx_execution_provider_data_transfer.cc` | none | CopyTensors | streams |
| partitioning, compilation | `..._execution_provider.cc:935-2805, 3592-4252` | node groups, engines | GetCapability, Compile | TensorRT parser and builder |
| EP context models | `src/onnx_ctx_model_helper.*` | none | read, validate, write EPContext nodes | compile |
| refit, weightless engines | `src/weightless_refit.*` | refit requests | refit | compile |
| direct CUDA reader | `src/direct_cuda_stream_reader.*` | ring of staging buffers | read, seek | engine deserialisation |
| QDQ lowering and other rewrites | `src/qdq_lowering.*`, `src/*_compatibility.*` | none | graph to graph | parser |
| profiler | `src/tensorrt_rtx_profiler.h` | events of runs | start, stop, collect | ORT |

What is hard: memory that crosses parts with different ideas of ordering (the
arena hands out memory immediately, the mempool in stream order); lazily created
shared objects; failures in the middle of an operation that has already changed
state; caches in the compute path that outlive what they describe. The hazards
are listed at their lines in `PROJECT.json`.

What makes each part correct:
* **arena** - clients' memory is disjoint and inside memory the arena owns; its
  chunk lists, bins and handle table agree after every sequence of calls; the
  statistics balance; Shrink gives back exactly what is unused; nothing leaks.
* **mempool** - the books agree with the pool although CUDA calls run outside the
  lock; a block returns to the pool behind the work on it; every call returns.
* **factory** - one object per device however calls interleave; a pointer handed
  out stays valid; the latch is permanent; no context in use is destroyed.
* **compute** - an inference runs on the addresses of this run's tensors and on
  context memory that is large enough and not in anybody else's hands.
* **weight streaming, graphs** - nothing captured or cached survives the object
  it describes.
* **devices, interop, streams** - everybody who judges a device judges alike; a
  context is made, published and destroyed once; a call leaves the caller's current
  context alone.
* **partitioning** - what is claimed is what the parser reported, fusing it leaves
  an acyclic graph, control flow is claimed whole or not at all.
* **rewritings** - the rewritten graph computes the same values, and ORT's nodes
  can be found in it again.
* **engines** - a published engine is complete and stays, temporary files do not,
  and a loaded engine has all its weights.

## Modules

* **Arena** models `ArenaImpl`. All public operations run under `lock_`, so an
  action is a whole operation: `Allocate` (with its four outcomes: a free chunk,
  an extension, the limit, a device failure), `Reserve`, `Free`,
  `ResetChunksUsingStream`, `Shrink`. The private helpers keep their names
  (`SplitChunk`, `Merge`, `Coalesce`, `FreeAndMaybeCoalesce`, ...) and are
  functions from one value of the record `arena` to the next, composed in the
  order the code calls them. `arena.fault` records that an `ENFORCE_EP` of a helper
  (on a chunk, a bin or a handle) would have fired; the region constructor's, on the
  size, is a branch of `AllocExtend`. Integers that wrap keep their width (`Available`). Abstractions: a
  unit of 256 bytes is `Unit` bytes, sizes and bins are scaled down, ORT's sync
  ids are the variable `clock`, chunks on the free list are blank (the code
  leaves stale fields there that it overwrites on reuse), the statistics that
  only ever grow are left out.
* **ArenaProperties** states what must hold; **ArenaSpec** is the abstract
  arena (blocks owned, parts in hand), which `ImplementsArenaSpec` relates to
  Arena by the mapping *owned = blocks from the device, held = granted parts*.
* **GpuSyncAllocator** composes the adapter with the arena it shares with ORT.
* **Mempool** models `CudaMempoolAllocator` with threads. Every CUDA call outside
  `mutex_` is a step of its own between the steps under the lock, and the CUDA
  side is modelled as far as the code relies on it: which blocks are out of the
  pool, which work and which frees are pending on which stream, which stream
  handles are valid. Clients destroy streams and may get the same handle again.
  A client frees each pointer once and uses it on the stream it allocated it for.
* **Compute** models `ComputeImpl` (and its twin for EPContext nodes, which is
  the same protocol) of a session with any number of fused nodes. `tensorrt_mu_`
  admits one call at a time; the stages of a call (`SwitchProfile`, `FirstRun` /
  `AlwaysBind` / `InputsChanged` / `OutputsSame` / `OutputsMoved` for
  `IsIOBindingRequired`, `BindInputs`, `BindOutputs`, the choice of context memory,
  `Enqueue`, `Finish`) are steps, because the stream runs on meanwhile and because
  a stage that fails leaves behind what the earlier ones changed. `context` is what
  TensorRT's IExecutionContext remembers, `state` is the compute state with its
  two caches, `call` the locals, `inflight` the unfinished runs of each node by the
  kind of context memory they use. A tensor is an address and a shape; the shape of
  an output is represented by the input shapes it follows from; memory is a number
  that only `Need` and `EngineNeed` give.
* **WeightStreaming** extends it with `ApplyRuntimeWeightStreamingBudget`:
  contexts destroyed, budgets applied engine by engine, contexts made again, and
  the rollback of either, each of which may fail for any set of engines. An engine
  whose auxiliary streams cannot be had leaves a context with an old compute state
  behind (`half`). Applying a budget has a third outcome besides success and failure:
  it is set, the log call after it fails, and an error is returned (lines 505-514,
  `ApplyBudgetUnlogged`); the rollback passes that engine by (`lost`). All engines are
  assumed capable of streaming: otherwise the code refuses before it changes anything.
  `rejected` and `outcome` are history: on which contexts making or binding failed, and
  what the last update said of each engine.
* **Factory** models what the sessions of a process share: arena, mempool, adapter,
  pinned arena, data transfer and kernel registry, made on first use. A session is
  a thread; a step is what the code does under one lock or between two. An object is
  the number it got when it was made, storing over it destroys it, and a pointer is
  good while its number is the stored one. `latch` and `shrink` are the places where
  a compute call acts on what it has read earlier under the lock.
* **CudaGraph** extends Factory with `HandleCudaGraphStart` and the CUDAGraphManager
  of the sessions that enable graphs. The compute path's calls of it are commented
  out (`tensorrt_rtx_execution_provider.cc:6816-6870`); a run is what they say.
* **Devices** models the four judgements of a device (discovery, memory infos,
  CreateEp, the incompatibility details), in processes with a driver and in
  sandboxed ones that compile for a virtual device. **Interop** extends it with the
  CUDA context that every thread has current, `InitGraphicsInterop` and
  `DeinitGraphicsInterop` in their locked sections, and the calls on streams,
  notifications and imported resources. Such a call is two steps or three: it looks its
  context up, enters a scope that makes it current (`SetContext`, `SetContextNoThrow`
  and `PushContext` are the constructors of `ScopedCudaContext` and its two siblings),
  and leaves it (`Restored`, `PopContext`), whether what it did inside succeeded or
  not; entering may fail, and other threads may destroy contexts in between. A CUDA
  call in a destroyed context fails, and so does setting one current, the restore
  included; `cuCtxPopCurrent` is taken to succeed. ORT releases a stream after its
  notifications, and one thread at a time is in a call on a stream.
* **Partition** models `GetCapability` over a graph and the bodies of its
  control-flow nodes, called in ORT's order. A graph has nodes with flaws and edges;
  what TensorRT's parser answers is an input, a number of a region for each node.
  `GetSupportedList` keeps its three index spaces; the removal of cycles drops one
  group a step.
* **QdqLowering**, **CompatibilityPasses** and **Preprocessing** model the passes
  over the serialized graph. The first two are operators from graph to graph, the
  last applies them, one node a step, in the order of
  `RunTensorRtProtoPreprocessing`. A float is counted in units of 1/`One`, with
  types of fewer bits in the same order, so that overflow, saturation and rounding
  occur on small numbers. **PreprocessingProperties** has the reference: what each
  ONNX operator computes, by definition and not by the code.
* **WeightlessRefit** models the refit table, its byte layout, filtering and
  replay; **EngineProfiles** the optimisation profiles, from the user's lists to
  the engine's; **StreamReader** the direct CUDA reader with its ring of slots, in
  which an upload reads its slot when the stream runs it; a read can fail before its
  copy is enqueued or after, when the event cannot be recorded. **EpContext** composes the
  three: sessions that compile and export, sessions that load what was exported,
  over one file system and the process-wide API lock. An engine's bytes are
  `[node, stripped, whole]`. Files are truncated, written and removed in steps of
  their own, every step that can fail may, and the process may crash between two. The
  path in an exported node is that of its engine: the way through a path relative to the
  context model's directory and back (`onnx_ctx_model_helper.cc:602-626, 894-899`) ends
  where it began if that directory is absolute, or the current one; see below for the
  other case. The reader's position moves chunk by chunk, not at the end of a read
  (413), which nobody can see; after a read that failed, TensorRT asks for no more.
* `...Properties` state what must hold of each, `MC...` give the instances for TLC,
  and **MempoolProofs**, **SessionProofs**, **FactoryProofs**, **InteropProofs**,
  **EpContextProofs** and **ArenaProofs** the theorems, with **FoldLemmas** for all
  and **ChunkProofs**, what each helper of the arena does to its chunks, for the last.

Definitions marked *(mutant)* are the plausible slips used to show that each
property depends on the code; no specification uses them.

## Runs

| run | question | size and bounds |
|---|---|---|
| arena_wired | is the arena right as the provider wires it (kNextPowerOfTwo, no streams), and does it implement ArenaSpec? | five units of device memory, two request sizes and a reservation; 102k states |
| gpu_sync_shared | TensorRT and ORT on one arena: do the bins and the stream-aware paths keep the structure, with sizes over the device's cap and counters with arbitrary initial values? | three units, two streams, one synchronisation each way; 677k states |
| mempool_drained | do the books agree with the pool, are frees ordered behind work, and does every call return? | two threads, two blocks, one stream and the default stream, destroyed only when drained; fair threads; 75k states |
| session_runs | are bindings and context memory those of the run, for own and kept memory, on the session's and the user's stream, through updates and failures? | one node, one input with two shapes, a plain and a data-dependent output, two buffers, two profiles, two budgets; 929k states |
| session_budgets | does an update keep its word whichever stages fail, and does it touch budgets only of engines without a context? | two nodes, one of them at a time in a call, a shape input, two budgets; 2.9 million states |
| factory_shared | do the shared objects outlive every pointer to them, does a synchronous session stay synchronous, are graphs captured only when warm? | two sessions on a device, two objects of a kind at most, two annotation ids, a warm-up of two; 1.5 million states |
| devices_interop | do the judgements of a device agree, is no context lost, has every caller its context back, do streams and events lie in the context they are used in? | seven hardware and three CUDA devices, with and without a driver, two threads, a stream, two graphics contexts; 1.9 million states |
| partition | is what is claimed what the parser reported, acyclic when fused, and whole? | all acyclic graphs of four nodes with every answer of the parser, folded and EPContext nodes, control flow with every pair of eight bodies; 50k states |
| rewrites | does the rewritten graph compute the same, but for the cases named below, and is it traceable? | every layout and type of a quantization node, with ties, 16-bit integers in fp16 and subnormal scales, neighbourhoods of an anchor, Boolean bridges, clips, dilated pools of f32 and fp16, rotary caches; 5692 models, 103k states |
| engines | are published engines complete, temporary files gone, loaded engines whole (but for one kind of load, see below), profiles right? | two sessions, two fused nodes, five compile and four load settings, engines of older tools in files and behind a read callback, a failure or crash anywhere; 1.4 million states |

The bounds are small and the cases still occur. Five units are enough for two
regions with splits, merges on both sides, a request that fits only after
coalescing, a region that cannot be shrunk next to one that can, reservations
between regions and a device too full to extend; deeper bins repeat what two bins
do. In the mempool two threads and two blocks are enough for one thread to
obtain an address another is still freeing; a third party of either kind meets
no new step, and the theorems hold for any number. In a session two tensors and
two buffers tell an old binding from a new one, a second input or output would
only repeat the first; two profiles and two budgets are one to leave and one to
reach, and two engines are one that an update has reached and one it has not.
Two sessions are one that makes a shared object and one that has its pointer, and
a second object of a kind (`MaxObjects`) is the replacement; two annotation ids are
one that is captured and one that is reset with it. Two threads and two contexts
give every race of Init with Init and with Deinit. Cycles through two groups need
four nodes, cycles through three the chain of five. The tensors of the rewrites have two elements an axis, and a block or
a channel of two is told from the next. Two nodes are one whose engine is written
when the other's compile fails; a plan longer than the ring's slots
(`SlotBytes`, `RingDepth`) makes the reader reuse each slot.

Instances the runs leave to the theorems: a mempool whose streams are destroyed
busy (`DestroyBusy`), for which `Books` is proved; several engines, or shape inputs,
in `BindingsFresh`. kSameAsRequested is in Arena but not wired in `src/`, and no run
uses it.

Two runs find a violation, a disagreement between the code and its comments:

| run | what TLC shows |
|---|---|
| session_stale_binding | the input cache is written before the inputs are bound: after a binding that failed, the same run tried again skips binding and is enqueued on the tensors of an earlier run (`tensorrt_rtx_execution_provider.cc:6053`) |
| factory_lazy | pinned arena, data transfer and kernel registry are looked up and stored without a lock: of two sessions set up at the same time the second's object replaces, and destroys, the one the first was given (`tensorrt_rtx_provider_factory.cc:1796`) |

### Exceptions that the properties name

Four properties are false of the code in cases that they spell out. The instances
reach each case, and without the exception TLC finds the property violated.

* `UpdateReportsTruth` excepts an engine whose budget was set and whose log call then
  failed (`tensorrt_rtx_execution_provider.cc:512-513`): the update reports failure, the
  rollback does not count the engine among those it changed, and it keeps the budget.
* `SameMeaning` asks for equal values only of models that are `Exact`; of the others it
  asks for type and shape. 876 of the 5692 models are not. A DequantizeLinear is not
  exact if it is folded with a scale that is subnormal in fp16, which is read as half of
  it (`qdq_lowering.cc:348`), or through f32 with more digits than it has; if an integer
  does not fit in the float type it is cast to at once, as a 16-bit one in fp16, of
  which the comment of lines 1498-1499 says nothing; or if the difference of value and
  zero point does not fit there and the scale is no power of two. A QuantizeLinear is
  not exact at a tie: the code rounds after the zero point was added (2211-2229, and the
  chain of nodes in the comment above it), where the comment of line 1924 rounds before
  and that of line 2129 says it "mirrors the spec math"; with an odd zero point the even
  neighbour is another one. A dilated
  average pool is not exact if a partial sum does not fit in its type, as in fp16,
  where `pooling_dilation_compatibility.cc:547-549` says "exactly".
* `NeighbourhoodsUniform` excepts a neighbourhood in which the policy and the rewriting
  disagree, against the comment of lines 1933-1935 of `qdq_lowering.cc`: a
  QuantizeLinear whose input has no known type, for which the policy does not ask
  (1653-1686) and the driver does (1957-1964), so that its siblings are lowered and it
  is not; and a node whose blocks do not divide the axis, which the policy counts as
  lowered and the rewriting declines.
* `LoadedEnginesWhole` excepts the load of `RefitSkipped`: a session with a read
  callback loads a model whose engine has a `.stripped.engine` name, and a refitted
  engine exists in a file beside that name. The code takes that file for what it loads
  and marks the refit as done (`onnx_ctx_model_helper.cc:923-936`), but asks the callback
  for the name in the model and gets the stripped engine (944-949, 1039). The comment of
  lines 915-917 says that the engine is then complete.

## Seen while modelling, without a run

Read off the code or met in a run that no longer is one; none is covered by a
property.

*Arena and mempool.* `Reserve` ignores `max_mem`; once the total is above it the
`size_t` subtraction in `Extend` wraps and the arena grows without limit
(`ep_arena.cc:103-108`). After a Shrink a new region can get the id of one that is
still there (`ep_arena.cc:228, 938` against `ep_arena.h:446`); `AllocatorStats` is
not initialised, so the first region's id may not be 0 and Shrink may release it; the
device allocator throws an exception `Extend` does not catch, so no smaller size is
tried (`ep_arena.cc:122`, `tensorrt_rtx_allocator.cc:197`); the adapter allocates
through `Reserve`, so each of its allocations is a cudaMalloc
(`docs/technical-notes.md:52`). `Reserve` of a size over the 256 GB cap records a
reservation at nullptr; after a Shrink an `initial_growth_chunk_size_bytes` that is
not a multiple of 256 makes the region constructor's ENFORCE fire;
`stream_to_chunks_` keeps handles of chunks that moved to another stream, which the
assertion at `ep_arena.cc:818` denies (latent: `AllocOnStream` is registered as
nullptr). If the recorded stream was destroyed while busy, the mempool frees the block
on stream 0, which does not wait for non-blocking streams
(`cuda_mempool_arena.cc:390`); the probe's result is never tried again.

*Session.* A smaller weight-streaming budget may raise the memory requirement, and
the block kept since the first run is passed to TensorRT with the new size
(`tensorrt_rtx_execution_provider.cc:6356, 4376`). On the user's stream nothing is
synchronised, and the transient block goes back to the arena, which other sessions
use on other streams, while the inference is pending (6434, 3339). The output cache
keeps the dims of an earlier binding when binding an output fails, so a later run
with the same inputs may ask ORT for an output of another shape, and before the first
binding that succeeds every retry asks for scalars and is refused. An engine that
lost its context in a failed update has no way back, since later updates refuse it,
while an update to the budget it has reports success. A graph of one
annotation id keeps old bindings when only another id's run re-binds;
"independent captured graphs" (`provider_options.h:372`) are captured one at a time.

*Partition.* Nodes of other providers that are unnamed, or share a name, are one
vertex of the search for cycles; a group is told "fully supported" by a count that
includes duplicates; outer values captured by a body are no edges of that search
(around `tensorrt_rtx_execution_provider.cc:2646-2650`). The instances use unique
names and no captures.

*Interop.* A stream whose context cannot be asked for after it was made is not
destroyed (`tensorrt_rtx_execution_provider_stream_support.cc:230-235`). A context
that another thread destroyed in the meantime cannot be made current again, and the
thread goes on in the one the call borrowed. If a device is selected for an import
because nothing was current, it stays selected after the pop.

*Rewrites.* Values in
the typed fields of FLOAT, DOUBLE, INT64 and UINT64 constants are not read
(`qdq_lowering.cc:386-504`). A zero point known only at run time, or one that cannot
be read, is taken for zero. An initializer that a caller may override is folded as a
constant. A rewrite that is declined may leave its Reshape and initializers behind, and a fold
that is given up at an element (`qdq_lowering.cc:1360-1368, 1381-1390`) leaves an
initializer without data (`Unfinished`). Input and scale of a QuantizeLinear have one
type in the instances.
The Boolean bridge and the test for a single consumer do not see uses inside bodies.
GetCapability and the build run the passes on different graphs though
the header speaks of identical inputs.

*Engines.* After a failure to parse the max or opt list the min list stays in force.
Two profiles for some of the dynamic inputs lead past the end of a profile list. The
implicit profile of a static shape tensor takes its dimensions for values; a shape
tensor alone is refused; a shape tensor disables CUDA graphs after earlier nodes have
copied the setting. A second compile to the same path truncates the published engine
outside the lock, and removes it when its build fails
(`onnx_ctx_model_helper.h:108-109`): the instance gives each session a directory of
its own. The file of an earlier node stays behind if a later node of the same compile
fails before the model is written. The final path of an engine is not checked for
being open. An engine cache outside the model's directory is exported by file name
(`onnx_ctx_model_helper.cc:617-623`); one in a relative directory, when
`ep_context_file_path` has a relative directory too, is exported as it is and joined with
that directory a second time at load (602-626, 894-899). Two comments (1934-1951,
2166) speak of engines built at inference, which the code never does. If
`cudaEventRecord` fails after the copy was enqueued, the slot is not marked as in
flight and Cleanup does not wait for it; the model has this, and no property speaks of
what a failed load's copies read. Dropping the records of a missing source also drops records of kind constant
that name it.

## Fairness

Only `FairSpec` of Mempool assumes any: weak fairness of each thread that is
inside a call, which is what the operating system's scheduler gives. Nothing is
assumed of the streams: no step of DoAlloc or DoFree waits for a stream except
`cudaStreamSynchronize`, whose completion is part of the step that calls it. The
other runs check safety and assume none. `CHECK_DEADLOCK FALSE` is in the runs whose
system really may stop: a graph is partitioned or rewritten once, a compiler process
without a driver finds no device, and no session starts again when each has compiled
or loaded its model, or when the bound on objects is reached.

## Proofs

`MempoolProofs` proves for every set of threads, blocks, streams and sizes:

* `TypeCorrect`: `Spec => []TypeOK`. `TypeInv` adds to the types what each place
  in a call implies for its locals (`LocalsOK`: a thread past cudaMalloc has a
  block).
* `BooksCorrect`: `Spec => []Books`, where `Books` is `PoolAccounted`,
  `MappedPointersReachable` and `StreamMapExact`. `BookInv` is their conjunction
  with `TypeInv`: none of them is inductive alone, because whether `Insert` finds an
  entry of the same address depends on which thread carries the block.
* `FreesOrdered`: if `DestroyBusy` is FALSE, `Spec => []OrderedFree`. The
  strengthening says that pending work on a block outside the pool's hands is on
  the stream that the map or the freeing thread records.
* `InUseCorrect`: `Spec => []InUseExact`, the counter is a sum over the mapped
  blocks. The sum is a fold over a set; `FoldLemmas` proves what such a fold is.
* `PoolProbedFirst`: `Spec => NothingFromUnusablePool`; `ProbeGate` says that one
  thread probes at a time, and that a call gets past the probe only when it has
  finished and succeeded.

`FoldLemmas` holds what the other proofs need of data: induction over numbers and
finite sets (stated for a set in place of a predicate, since the provers cannot
instantiate the library's), sums over finite sets, and that a fold over a sequence or
a set is the function its recursion describes.

`SessionProofs` proves for every set of nodes, inputs, outputs, tensors, profiles and
budgets, on the assumptions `ComputeConstants` and `AutomaticBudget`:

* `TypeCorrect`: `Spec => []TypeOK`; `Types` adds that a call in progress has a node.
* `ContextsOutliveWork`, `UpdatesReportTruth`, `BudgetsWithoutContext`: from
  `PlaceInv` (a call uses a context that is there, an update excludes calls and
  pending work, and works on engines without contexts) and `UpdateInv` (what each
  stage of an update has and has not changed). `UpdatesReportTruth` has the exception
  of the property, an engine whose log call failed.
* `BindingsCorrect`: `Spec => []BindingsFresh`. The strengthening `BindInv` says per
  node what the caches describe (`CachesDescribe`) and what a call has established at
  each stage (`CallOnCourse`). It is inductive only per stage: in the stages that
  rebind, the caches describe nothing, and the flag `skip_io_binding_allowed` is what
  makes them describe the context again.
* `MemoryCovers`: `Spec => []ContextMemoryCovers`, from `MemoryInv`: kept memory has
  the engine-wide size of the budget it was allocated under.

`FactoryProofs` proves for every set of sessions and devices, any `LazyKinds` and any
`MaxObjects`:

* `TypeCorrect`: `Spec => []TypeOK`.
* `HandedOutValid`: `Spec => []HandedOutStaysValid`. It is not inductive: storing a
  second mempool is harmless only because nobody can have the first one yet. `SharedInv`
  says so per session, by the place it has reached: one that is making a memory object
  owns the lock and has found no arena (`LockHeld`), one that is running has no setup
  call left to make (`CallsDone`), one that is not has allocated nothing
  (`QuietUntilReady`), one whose allocator call succeeded has an arena on its device
  (`ArenaThere`), and each pointer is the stored object (`ArenaValid`, `AdapterValid`,
  `PoolValid`).
* `SyncStays`: `Spec => []SyncStaysSynchronous`, from `SyncInv`, which adds that the
  adapter of a device borrows the arena of that device and that a session with the
  adapter fetches no mempool.
* `CapturedWarm`: `GraphSpec => []GraphsAreWarm`, from `GraphInv`: what is captured
  or being captured has a full count, and until a session has had `MinRuns` regular
  runs it has had one more than any id counts, because the run that binds counts for
  the session only.
* `GraphsLeaveFactoryAlone`: `GraphSpec => Spec`, every step of the composition is a
  step or a stutter of the factory; so `HandedOutValidWithGraphs`.

`InteropProofs` proves for every set of threads, devices and hardware:

* `InteropTypes` and `JudgementsCorrect`: the devices ORT is told of are a sequence
  in the order of the CUDA indices (`InOrder`), and each judgement follows from the
  hardware record alone (`DevicesInv`).
* `ContextsKept`: from `InteropInv`. A call between two locked
  sections has in its locals what it took out of the map or has yet to put there
  (`Placed`), and a live context has one holder (`OneHolder`, `SomeHolder`): the map or
  a single call. Without the second part two Deinits could each destroy what they took.
* `MadeInTheirContext` and `CallersContextsKept` (`Spec => []MadeWhereRemembered` and
  `Spec => CallersContextKept`, an action property): from `ScopesInv`, which says what
  the stack of a thread in a call is: the one it found, with its top replaced if a scope
  changed it, with one more for a push, and with the device below that if one was
  selected (`previous`, `changed` and `found` agree with it); and that inside a scope the
  current context is the one the call was to work in. So leaving it restores what was
  found, and what is made inside lies where it is remembered. The two exceptions of
  `CallersContextKept` are the device that stays selected and the restore that fails.

`ChunkProofs` and `ArenaProofs` prove for every device, all sizes, streams and growth
settings, on `Configured` (the settings pass `ArenaConfig::IsValid`, and there is
memory):

* `ArenaTiles`, `ArenaFiles`, `ArenaEnforcesHold`, `ArenaKeepsClientsApart`: the chunks tile the regions,
  free chunks are filed and no ENFORCE on chunks, bins or handles fires, and live
  memory is disjoint. None is inductive alone: what a bin names is right only because
  links, handles and addresses agree. The invariant `MemoryInv` says that the arena is
  `Shaped`, that the device's blocks are apart and each region and each reservation is
  one of them (`Blocks`, `Owned`), and that each live pointer is a chunk in use or a
  reservation, and the converse (`Holdings`).
  A helper is called while the arena is *not* sound, between taking a
  chunk from its bin and putting it back; so `Sound(a, n, U)` carries the set `U` of
  chunks that are on their way, and the lemmas of `ChunkProofs` say for each helper
  (`SplitChunk`, `Merge`, `Coalesce`, the walk of `ResetChunksUsingStream`, ...)
  what it does to `U`.
* `Effects` sums up each step as the device, the clients and the statistics see it
  (`HandsOut`, `Grows`, `Strands`, `Reserves`, `TakesBack`, `GivesBack`, `Shrinks`);
  what follows rests on it.
* `ArenaLeaksNothing`, from `PoolInv`: growth stays a multiple of the unit, so that no
  block is stranded. `ArenaImplementsPool`: every step maps to a step of
  `ArenaSpec` or a stutter, under the mapping TLC uses. `PoolSafe` is what that
  gives: every behaviour of the abstract arena keeps what is in hand disjoint, inside
  owned blocks, and the blocks disjoint. The first two need `WholeGrowth` (the
  growth sizes are multiples of 256, as the defaults are): without it the region
  constructor throws after cudaMalloc, and the block is lost (see above).
* `ArenaStatisticsBalance`, from `BalanceInv`, a sum over blocks and claims. It needs
  `ReservesWithinCap`: a reservation over the device allocator's cap is booked though
  no memory was had (see above).
* `ArenaShrinksExactly` and `ArenaServesBestFit`, action properties. The second is
  proved without streams (`Unstreamed`), which is how the provider wires the arena
  today and how `arena_wired` checks it: with streams the best fit is over the chunks
  that are safe to take, and `FreeFor` is about chunks of no stream.
* `SyncAdapterIsClient`: `SyncSpec => Spec`, the adapter is one more client, so the
  theorems on the arena hold next to it.

`EpContextProofs` proves for every set of sessions, nodes, options and older models,
any layout of the reader's ring and any records the parser may report:

* `EnginesPublishedComplete` and `NothingLeft`: `Spec => []PublishedEnginesComplete`
  and `Spec => []NothingLeftBehind`, from `EnginesInv`. Neither is inductive: a node is
  published long after its engine was written, and other sessions write in between.
  `Compiles` says of each compiling session what its helper's output is at each place
  of the call (`OutputHeld`: truncated when opened, whole once written; `OutputKept`),
  what a node it has exported but not published refers to (`ExportsOK`), and that what
  was captured are the records of the node being built; `Attributed` that a published
  engine was written by a session that is done with it; `LeftOwned` that a temporary
  or partial file has a session that is writing it. Each action has a lemma that says
  what it may do to the files and the store (`KeptBy`, `Tidy`).
* `TablesRoundTrip`: `Spec => []TableRoundTrips`. `TableLayout` says where each field of
  each record is in a serialized table, `ReadsRecord` that the reader's bounds checks
  pass there and give the record back, and `TablesReadBack` that the loop ends at the
  end of the buffer with all records. The invariant is used for what the table was
  made of.
* `TablesSuffice`: `Spec => []ExportedTablesSuffice`, from `RefusalsOK`: what a load is
  refused for is in the table it read. `LoadsBecome` says what each step makes of a
  load's record, field by field; `UsedIs` and `AllIsUsed` what filtering to the engine
  leaves of what the export wrote, and `RefusedUnrefittable` that the replay can only
  miss what the parser or partitioning had lost.
* `LoadedWhole`: `Spec => []LoadedEnginesWhole`, from `LoadedInv`, which is
  `EnginesInv` with two parts more. `Placed`: only the session whose directory it is
  puts an engine where a load looks, and the models of an older tool are as they were;
  so that what a load's model refers to does not change between its steps (`Settled`).
  `LoadsOK`: what a load has established at each place (`LoadOK`): the file it chose is
  an engine of its node, one with a stripped engine is going to be refitted
  (`Located`), the engine it deserialized is that file's, and its weights are there or
  on their way (`Uploading`).
  The upload has an invariant of its own, `UploadOK`, over the ring of slots: the
  copies on the stream read slots that are held for them and hold the bytes that are
  to go where they write (`QueueOK`), and a byte below the reader's position has
  arrived or is covered by one of them (`Arrived`). It survives a read because a slot
  is reused only when no copy on the stream reads it, and a failed read because the
  position does not move; `ChunkIs` says that behind the prefix of an aligned read lie
  the bytes that were asked for, for any alignment, and `HostBytesAre` follows the
  reads to host memory chunk by chunk. `RefitSets` says that the replayed records
  set what the node's own records would.
* `ProfilesMatch`: `Spec => []ProfilesMatchInputs`. The maps a session keeps are shared
  by all its nodes, and an entry an earlier node left looks like one of the user's. The
  invariant, `AllBuiltRight`, says what else it can be: `MapsOK`, the user's entries,
  and for other names the implicit entry of some input of that name. `LoopFills` gives
  the loop over a node's inputs in closed form, `BuiltTrue` what a build reads from the
  maps, and `CompilesOnward` that each node's profiles are appended once, in order,
  however the rest of the call goes.

All six have the hypothesis `OwnDirectories`: two compiles of one model into one
directory overwrite each other's engines, which nothing in the code prevents. The
last three need more, about what the code takes as given and does not check.
`UsableRecords` (`TablesSuffice`): a record that a refit needs passes the refit's own
checks when it is given the model's weights, and a constant has no sources; a parser
that reported anything else would have every load refused, whatever the export did.
`WeightsNamedOnce` (`LoadedWhole`): no two different records of a node for one weight.
The last one of a name wins, and export may have dropped it for its sources, so that
an earlier one would win there. `OlderModels` (`LoadedWhole`): a model of an older tool
lies outside the sessions' directories and names an engine of its node, in a file or
behind the application's callback or both, and one that is stripped has the name the
code tells it by. Such a model has no table, so the code has nothing else to find out
by what it refers to. Nothing keeps a stripped engine behind the callback from having a
refitted file beside its name: that load is in the model, and `LoadedEnginesWhole` names
it as its exception. `InputsTyped` and `ProfilesFit`
(`ProfilesMatch`): no input is a shape tensor; inputs of one name have one shape; the
user's lists are kept all three or not at all, with shapes of full rank and the same
number of profiles for every input, and where that is more than one, every dynamic
input is named. Without them the code does index past a profile list, or take one
node's shape for another's ("Seen while modelling"). The instance for TLC satisfies
all of them, with one profile, two and none, and its `ASSUME`s say so.

The only assumptions are the ones on constants (`MempoolConstants`,
`ArenaConstants`, `ComputeConstants`, `AutomaticBudget`, `FactoryAssumption`,
`CudaGraphAssumption`, `DevicesAssumption`, `InteropAssumption`, `EpContextAssumption`,
`MaxBlobAssumption`, `ReaderAssumption`), which TLC evaluates in the runs, and the
hypotheses the theorems name. `MempoolConstants` takes the set of addresses to be finite.

Only model-checked: partition and rewrites, and liveness, which this prover does not
handle. **Partition** contains the search for cycles, which is recursive over a graph
and stays a `RECURSIVE` operator, and what the rewrites keep is a value defined by
recursion over a graph; the prover handles neither, nor a module that has one.

## Not modelled

* **Parts with no state or protocol of their own**: graph serialization, provider
  options and session configuration, the data transfer (one cudaMemcpy whose
  direction follows from two device types), the memcpy kernel, utilities.
* **Platform**: secure loading and the checks on paths, pinned and aligned host
  memory, the text of compatibility strings and of EPContext attributes; where a
  decision follows from one, the decision is modelled with all outcomes.
* **Observers**: the profiler, the memory log, dumps, logging.
* **TensorRT's own**: builder flags, the timing cache, kernels.
* **Runtime cache** (`tensorrt_rtx_execution_provider.cc:161-418`): read at
  creation, written at release; its write is neither atomic nor checked, and the last
  writer wins. What is lost is compile time, and no property depends on it.
* **RefitEngineImpl** (4732-4970): never called, though
  `onnx_ctx_model_helper.cc:737-738` says it is.
* **Compute states** (CreateState, ReleaseState), auxiliary streams, and the copies of
  empty, cast and data-dependent outputs: each belongs to one call or one node, and
  nothing in the model tells them apart.
* **Imported resources** beyond the context they are made in: offsets, sizes and
  handle types, which one call checks and hands on.
* **Errors between two devices** of a loop in discovery and in the memory infos
  (`tensorrt_rtx_provider_factory.cc:1037-1066, 1575-1584`): a CUDA or ORT call that fails
  there ends the call with what was listed so far.
* **The calls of CUDA graphs** in the compute path, commented out at this commit
  (`tensorrt_rtx_execution_provider.cc:6816-6870`): CudaGraph says what they would do.
* **Captured contents** of a CUDA graph, and the stream it is captured on.
* **Nested graphs** in the rotary pass, and any nesting of control flow deeper than
  one level.
* **Tests, examples, tools, Python packages**: clients of the library, read as
  documentation.
