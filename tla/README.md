# TLA+ models of D9VK

D9VK translates Direct3D 9, 10 and 11 calls into Vulkan. Most of its code is a translation of
one API's state into another's. What is hard to get right, and what this directory models, is
the machinery underneath: API threads, a command stream thread, two submission threads, shader
compiler threads and the GPU all work on the same command lists, chunks and pieces of memory.

Paths below are relative to the repository's `src/` directory (`dxvk/dxvk_queue.cpp` and so on).
`PROJECT.json` maps each definition to the lines it stands for.

Contents

1. Components of the system
2. How they interact
3. The modules
4. Submission queue
5. Command stream
6. Memory allocator
7. Mapped buffers
8. D3D9 buffer locks
9. Render passes
10. State cache
11. Findings
12. What is only model-checked, and what is not modelled
13. Plan
14. Running the checks

## 1. Components of the system

| component | state it keeps | operations | what is hard | what makes it correct |
|---|---|---|---|---|
| Submission queue (`dxvk_queue`) | two FIFO queues, pending count, stop flag, two mutexes, three condition variables | submit, present, synchronizeSubmission, synchronize, lock/unlockDeviceQueue; two worker threads | three kinds of threads, unlocked status, failed Vulkan calls, shutdown | a list has one owner, order is kept, nobody sleeps for ever, nothing is in flight at shutdown |
| Command lists (`dxvk_cmdlist`, `dxvk_recycler.h`) | fence, command buffers, tracked resources | beginRecording, submit, synchronize, reset | reuse while the previous use is still being retired | reset only after the GPU has finished |
| Device front end (`dxvk_device`) | recycler, statistics | createCommandList, submitCommandList, presentImage, waitForSubmission, lockSubmission, waitForIdle | status read without a lock | the caller never sees a stale result |
| Presenter, swap chains (`vulkan_presenter`, `d3d9_swapchain`, `d3d11_swapchain`) | Vulkan swap chain, image index, present status, frame events | PresentImage, RecreateSwapChain | present runs on another thread | the swap chain is not touched while a present may be issued |
| Command stream (`dxvk_cs`, D3D contexts, `d3d11_cmdlist`) | chunk pool, reference counts, chunk queue, pending count | EmitCs, FlushCsChunk, SynchronizeCsThread, Flush, command lists | chunks are shared by lists, queue and thread; drained and busy are counted, not observed | commands run once per issue and in order, chunks are reused only when nobody refers to them |
| Memory allocator (`dxvk_memory`) | chunks with free lists, heap statistics | alloc, free | fragmentation, alignment, fallbacks when memory runs out | no overlap, no leak, merged free lists, requests served, statistics true |
| Buffers (`dxvk_buffer`, `dxvk_lifetime`) | current slice, two free lists of slices | allocSlice, rename, freeSlice | three threads move a slice around | a slice in use by the GPU is not handed out |
| Staging (`dxvk_staging`) | current buffer, offset, queue of old ones | alloc, trim | reuse depends on when a use becomes visible | live slices do not overlap |
| Barriers (`dxvk_barrier`) | accesses since the last flush | access*, isBufferDirty, isImageDirty, recordCommands | overlap of ranges, layouts, stages | conflicting accesses have a barrier between them |
| Events, signals, queries (`dxvk_gpu_event`, `dxvk_signal`, `dxvk_gpu_query`, `d3d9_query`, `d3d11_query`) | pools of handles, begun/ended state | begin, end, getData, test | results arrive while the next use begins | a result belongs to the use it is read for |
| Pipelines, state cache (`dxvk_pipemanager`, `dxvk_graphics`, `dxvk_compute`, `dxvk_state_cache`) | tables, worker and writer queues, the file | getPipelineHandle, compilePipeline, registerShader, add*Pipeline, reading and writing | shaders come in any order, workers stop at any time, the process is killed | each cached pipeline is compiled once its shaders exist, and stored once |
| Context, render passes (`dxvk_context`, `dxvk_framebuffer`, `dxvk_renderpass`) | bound state, dirty flags, framebuffer, clears that wait, queries that run | draws, copies, clears, dispatches, queries, invalidateBuffer | state that lags behind what was asked, slots against attachment numbers | images and queries end up with what was asked for, in order |
| D3D9 buffers and textures (`d3d9_common_buffer`, `d3d9_common_texture`, lock functions of `d3d9_device`) | lock range, dirty range, read lock, map flags | LockBuffer, UnlockBuffer, LockImage, UnlockImage | when a lock may skip waiting for the GPU | the application never sees or changes data the GPU still uses |
| D3D9, D3D10, D3D11 devices, state blocks, DXGI | API state | the API | volume, not concurrency | agreement with Windows |
| Shader compilers (`dxbc`, `dxso`, `spirv`) | none between calls | compile | volume | agreement with the byte code |
| Reference counts, locks (`util/com`, `util/rc`, `util/sync`) | counters | AddRef, Release | two counters, non-atomic tests | deleted once, when nobody refers to it |
| HUD, OpenVR, configuration, logging, Vulkan loader, instance and adapter | | | | |

## 2. How they interact

    application thread(s)
        | EmitCs: closures into the current chunk                 (command stream)
        | FlushCsChunk: chunk -> m_chunksQueued
        v
    dxvk-cs thread: executes chunks on a DxvkContext
        | flushCommandList: endRecording, submitCommandList
        v
    m_submitQueue --dxvk-submit--> Vulkan queue, m_finishQueue    (submission queue)
        ^                              |
        | presents, from swap chains   v  GPU signals the list's fence
    swap chains                    dxvk-queue thread: fence wait, notify signals,
                                   free slices, events and queries, recycle the list

Calls go down and to the right; what comes back are status flags (`DxvkSubmitStatus`),
reference counts and use counts of resources (`isInUse`), signals, and objects returned to
pools: command lists, chunks, buffer slices, events, queries. Every pool is filled by another
thread than the one that empties it. Device memory is a service below all of them and is only
ever called with its own mutex held.

## 3. The modules

| module | role |
|---|---|
| `SubmissionQueue` | the submission queue, command list life cycle, device front end, frame protocol of a swap chain |
| `InOrderQueue` | what it promises: lists are executed and retired, and presents reported, in the order they were accepted; a list is lost only to a failure |
| `MCSubmissionQueue` | symmetry for TLC |
| `DataLemmas` | facts about sequences used as queues and pools, induction, sums over finite sets, folds |
| `SubmissionQueue_proofs` | proofs |
| `CommandStream` | command stream: immediate and deferred context, chunks, dxvk-cs thread |
| `CommandPipe` | what it promises: each command that a call asks for is issued exactly once and executed exactly once, in the order of the calls |
| `MCCommandStream`, `CommandStream_proofs` | symmetry for TLC; proofs |
| `MemoryAllocator` | memory types, chunks, free lists, fallbacks, statistics |
| `MCMemoryAllocator` | a device with two memory types and a driver that runs out |
| `MemoryAllocator_proofs` | proofs |
| `MappedBuffer` | one mappable buffer: slices, renaming, Map, from the API threads to the finish thread |
| `MCMappedBuffer`, `MappedBuffer_proofs` | symmetry; proofs |
| `D3D9BufferLock` | one staged D3D9 buffer: LockBuffer, UnlockBuffer, uploads, ProcessVertices |
| `D3D9BufferLock_proofs` | proofs |
| `RenderPass` | DxvkContext around render passes: targets, clears, draws, copies, dispatches, queries |
| `MCRenderPass`, `RenderPass_proofs` | target sets with and without gaps; proofs |
| `StateCacheFile` | the cache file, its readers and its writer thread, crashes |
| `StateCache` | shader registration, compiler threads, draws and sessions around that file |
| `MCStateCache` | two pipelines of two shaders |
| `StateCache_proofs` | proofs: types, scheduling, the file and wake-ups |

`MappedBuffer` and `D3D9BufferLock` stand on the two modules before them: they use of the command
stream that commands are executed in the order they were emitted (`CommandsInOrder`,
`SynchronizeDrains`), and of the submission queue that lists are issued and retired in order
(`ListsInOrder`) and that a list is reset only after its fence.

In each module, the operators that a subtle mistake would change stand next to the mistake
(`AdmissionLimit` beside `AdmissionLimitOffByOne`). The mistakes are used by nothing; replacing
the operator by its mistake must make TLC report the property the pair is listed with under
"mutants" in `PROJECT.json`. Each checked property is tied to at least one such mistake.

## 4. Submission queue

**Correspondence.** One client is one application thread with one swap chain. Its `pc` follows
`Present` and `PresentImage`: `dirty` (waitForSubmission before a dirty swap chain is rebuilt in
`recreateFirst`), `await` (waitForSubmission of a frame), `record` (createCommandList and beginRecording),
`acquire`, `submitFrame`, `present`, `presenting` (the synchronous path), `check`, and
`recreate`/`recreateLast` where the swap chain is rebuilt. Other calls are a `flush` without a
present, `syncLock`/`lock`/`locked` (an external library using the Vulkan queue) and
`syncIdle`/`idling` (waitForIdle before the device goes away). The submit thread goes through
`wait`, `taken`, `inVulkan`, `store`, `retire`; the finish thread through `wait`, `fence`,
`reset`, `retire`. One action is one critical section of `m_mutex` or `m_mutexQueue`, or one
unlocked access. In particular:

- an entry stays in its queue's front slot, moved from, until the worker pops it: admission
  counts it, `Unissued` and `Unfinished` do not;
- `recycleCommandList` happens outside the mutex before the pop, so a list can be recorded and
  submitted again while its old slot still exists;
- the present status is written without the mutex, and read without it by `waitForSubmission`
  before it decides to sleep (`WaitForSubmission` needs no mutex; `Sleep` does);
- a wait is explicit: a thread whose predicate is false joins `asleep` of its condition
  variable and runs again only after a notification of that variable. Spurious wake-ups only
  re-evaluate a predicate and are left out, which makes lost wake-ups visible;
- `DxvkCommandList::submit` may fail, the fence wait may fail (device lost), a present may report
  an error at any time. The first two are bounded by `MaxFailures`;
- `RecreateSwapChain` throws when it gets no swap chain (`RecreationFails`), wherever it is called. The
  status has been set by then, the call of `Present` ends (with an error code, or with the exception
  where a dirty swap chain is rebuilt, outside of the `try`), and the list it may have begun is never
  submitted. The context drops that list when it begins the next one; the model does so at once;
- `MarkNotReady` is merged with the queue push that follows it in `presentImage`: between the
  two only the calling thread can look at that status.

Not modelled: a `vkDeviceWaitIdle` that fails, which `waitForIdle` logs and ignores
(`dxvk_device.cpp:243`). Then nothing is known of the GPU, and what `WorkAccountedFor` says of shutdown is not claimed.

**What is checked.**

| run | instance | question |
|---|---|---|
| `queue` | 2 clients, 2 lists, MaxQueued 2, recycler 1, one failure, both present modes | safety |
| `queue_live` | 1 client, 3 lists, MaxQueued 1, no failure, both present modes | liveness, throttling, and deadlock |
| `queue_sync` | | a finding, section 11 |

- `ListOwnership`: a list that is being recorded or lies in the recycler is in no queue and not
  on the GPU, and nobody shares one.
- `PresenterQuiescent`: while a client acquires, renders or recreates, no present of its swap
  chain is left to be issued.
- `AsyncQueueExclusive`: the submit thread and external libraries use the Vulkan queue one at a
  time when presents are asynchronous. Of synchronous presents it says nothing: `queue_sync` does.
- `WorkAccountedFor`: `pendingSubmissions` never misses work, after failures too, and when all
  clients are done there is none left: the destructor does not drain the queues, the clients'
  `waitForIdle` does. The count may be too high: a submission that Vulkan refuses is never taken
  off it (`dxvk_queue.cpp:138`), though `dxvk_queue.h:74` reads as if 0 came back. Nor does the property
  say that callers blocked in `submit()` survive a failure; see `SleeperHasWaker`.
- `SleeperHasWaker`: no lost wake-up. Popping a present notifies only `m_submitCond` though it
  frees a slot that `submit()` waits for on `m_finishCond`. The queue is safe because, whenever
  a submitter sleeps, a list is still queued somewhere whose retirement will notify it; this
  needs at least as many slots as there are presenters (`MaxNumQueuedCommandBuffers` is 12; an
  application has one or two swap chains). A failed submission breaks the argument: the list leaves
  without a notification of `m_finishCond`, so the property excludes that case, and so `queue`
  runs without deadlock check.
- `ListsInOrder`: refinement of `InOrderQueue`. What is in flight there is what the finish queue
  still has to retire followed by what the submit queue has not reported (`InFlight`), lists and
  presents together, and a list has been executed there when its fence is signaled.
- `InFlightBound`: at most one list beyond the limit is between submit and its fence. It is
  checked with the liveness run, whose limit of 1 makes it bite.
- `CallersWake` (blocked submitters wake, presents are reported), `ShutdownCompletes`, `ListsRetired`:
  what must happen.

**Bounds.** Two clients suffice for every pairwise race (two presents queued, a present against
an external lock, a flush against a frame), two lists for a list that is recycled and submitted
while the other is still in flight; three in the liveness run so that a submitter meets a full
queue. The queues are bounded by the code. Failures are the only counter.

**Fairness.** Weak fairness of each worker thread, of a client inside a call, of the GPU and of
the destructor: threads are scheduled, Vulkan calls and fences return. Nobody is obliged to
begin a call. `ListsRetired` allows for `stopped` because the destructor drops what the finish
thread has not retired.

**What is proved** (`SubmissionQueue_proofs`), for any sets of clients and lists, any limits and any
number of failures, from `SizesAssumption` and `IdentitiesAssumption`:

- `TypeCorrect`. `TypeOK` is not inductive: `Head(submitQueue)` and `recording[c]` have the right
  type only where a thread may use them. `TypeInv` adds which `pc` values each thread can have,
  that a worker past `wait` finds its entry at the front, and when a client holds a list.
- `QueueExclusive`, with `LockInv`: whoever is inside a critical section owns its mutex.
- `ListsOwned` and `PresentersQuiescent`, together. `ListInv` adds to `ListOwnership` that the
  recycler, both queues and the GPU have no duplicates and are pairwise disjoint, with
  `Unreported` for the submit queue because the moved-from slot of a finished present stays;
  that what is not issued is neither on the GPU nor has its fence signaled; and that what the
  GPU holds has been issued and is not finished. `PresenterInv` says that as long as a client's present has not been reported its status
  is `notReady` and the client is not where it draws, presents or recreates. Neither half is
  inductive without the other.
- `SubmissionThrottled`: `InFlightBound` is inductive relative to these. A list that moves from one
  queue to the other is counted once because no list is queued twice; the present between two
  lists is not counted, while the admission test counts it, which only makes the test stricter.
- `WorkCounted`, with `WorkInv`: the GPU holds the newest part of the lists handed to it, in their
  order (`GpuInOrder`), so a fence wait that fails gives up the list which is also the GPU's oldest
  and none that the count no longer covers; `pending` counts each list in either queue, and once more
  the one whose slot is about to be popped; and a client that waits for idle after everything was
  issued has nobody behind it who submits (`IdleDrained`).

- `SleepersWake` (`SleeperHasWaker`), with `WakeInv`, for at most `MaxQueued` clients. The hypothesis is the
  argument's own: a sleeper of `submit()` sleeps on a full queue (`NotReadyQueued`, `FrameBetween`:
  a client has at most one present queued, and none while it submits), so with fewer other clients
  than slots a list is queued too, and its retirement notifies. With more presenters than slots
  the presents alone could fill the queue, and popping them wakes nobody. The code has 12 slots and one
  present per swap chain at a time.
- `KeepsOrder` (`ListsInOrder`): each step of the queue is a step of `InOrderQueue` or leaves its
  variables alone. The fence of the oldest list is signaled before the others' because the GPU works on what it
  was handed in order (`GpuInOrder`) and because what was handed out is on it or signaled
  (`IssuedCovered`); moving a list from one queue to the other leaves `InFlight` alone.

`DataLemmas` states what `Append`, `Tail`, concatenation and taking the last element do to the range and the
injectivity of a sequence.

## 5. Command stream

**Correspondence.** A call of the application is a program of steps in `todo` (`EmitCs`,
`FlushCsChunk`, `Flush`, `SynchronizeCsThread`, `ExecuteCommandList`, destruction); each step is one critical section of
the thread's mutex, one of the pool's spinlock, or a private access. Steps push further steps in front: emitting into a full
chunk dispatches it and allocates another; a flush emits the flush command, dispatches, clears
`m_csIsBusy`. A deferred context runs concurrently on another thread; its actions and those of
command lists keep reference counts as `DxvkCsChunkRef` does. The dxvk-cs thread has `lock` (its
critical section), `wait` and `exec`. Chunks hold numbered commands, or `Flush`; that is
all the properties need to know of a command.

A finished list is executed by the immediate context (`EmitToCsThread`, one chunk per critical
section) or by the deferred one (`EmitToCommandList`). In single-use mode a list is executed at
most once, which is what the option `d3d11.dcSingleUseMode` asks of the application. D3D11's
`FlushImplicit` depends on a timer and on the pending count: `maybeFlush` may do nothing. One
application thread stands for all threads that take the device lock.

**What is checked.** `stream` (four chunks of two commands, three commands, two executions, both
modes) and `stream_live` (four chunks of one command).

- `ChunksOwned`: the count of a chunk is the number of references that exist; it is in the pool
  exactly when there are none, and then it is empty; and no chunk is recorded into while the queue, a
  list or the dxvk-cs thread has it.
- `CommandsInOrder`: the stream refines `CommandPipe`, which has three parts. `Asked` is what the
  current call has yet to issue: a flush, the rest of a list, an emitted command; `Waiting` is the
  chunk queue and the current chunk; `Running` is the chunk that the thread executes. What leaves
  `Asked` is what enters `Waiting`, and what leaves `Waiting` is what is executed, all of it before
  more is taken. So a second push that is refused, a full chunk that is not dispatched, a chunk that is
  dropped or runs twice, or a list that overtakes violates it. A command that is emitted gets its number
  when it is issued and is `Fresh` until then.
- `SynchronizeDrains`: a synchronize returns only when every issued command has run, not merely
  when the queue is empty.
- `NothingStranded`: a flush that finds `m_csIsBusy` clear and an empty chunk may skip, for whatever
  was issued has a flush behind it; and when the thread stops at its next turn, whatever is
  queued, nothing is.
- `CallsReturn` (liveness): no call of the application is left asleep. The deadlock check
  says the same of the dxvk-cs thread.

**Bounds.** `MaxCmds` and `MaxExecs` count what is begun; a command that starts a second chunk, a
list of two chunks and a chunk that is both in a list and in the queue all occur. `MaxDeferred`
leaves the application at least one chunk, as memory would. One finished list exists at a time.

**Fairness.** Weak fairness of the application inside a call and of the dxvk-cs thread.

**What is proved** (`CommandStream_proofs`), for any number and size of chunks and any number of
commands and lists, from `StreamAssumption`: `TypeCorrect`, `ChunksAreOwned` (`ChunksOwned`) and
`SynchronizeWaits` (`SynchronizeDrains`). The inductive invariant `IInv` has four parts:
`FlagInv` (types), `TodoInv` (what a call still has to do: the allocation of a chunk only ever as
its next step, at most one command, and a list that is being executed exists), `ChunkInv` and
`PendingInv` (the pending count is the queue plus the chunk that is executing). `ChunkInv` says of
each chunk that its count is the sum of its occurrences with every holder (`Counted`), that it may
be allocated exactly when that is zero (`Pooled`), and that the chunk a context records into
occurs nowhere else (`Private`). The three need each other: `Private` is what lets the dxvk-cs thread
empty a single-use chunk, and it survives an allocation because, by `Counted` and `Pooled`, an
allocated chunk has no holder. `OccConcat`, `OccPush` and `OccPop` count occurrences in a
concatenation, after a push and after a pop; `ReplaceKeepsChunks` treats the three steps in which
a deferred context replaces its chunk, `TakeKeepsChunks` the two in which the dxvk-cs thread takes
one. `SynchronizeWaits` adds `DrainInv`: in what is left of a call, a wait follows a dispatch
immediately (`SyncOrder`), so the context's chunk is empty when it comes to it.

`CommandsOrdered` (`CommandsInOrder`) shows that each step maps to a step of `CommandPipe` or a stutter
(`PipeRefines`): for each kind of step, what it does to `Asked` (`AskedEmits`, `AskedExecutes`, `AskedElsewhere`),
and that `Waiting` grows by exactly that (`IssueOf`). It uses three more invariants on top of `IInv`:

- `OrderInv`: what may still follow a step in a call (`After`), as a relation between the steps that are left;
  and that `EmitToCsThread` dispatches only a list that is marked as executed;
- `SingleInv`: a chunk that is emptied after it has run has one run left, counted over the thread, the
  queue, the list that is being recorded and what is left of the finished one (`Runs`); and outside
  single-use mode no such chunk is in a list. Without it a second run of a list would find its chunks empty;
- `ListInv`: when a list is executed, the commands before it have been dispatched.

The rest are facts about `FlattenSeq` (`FlatExists` to `FlatPop`), by induction on the length of the prefix:
what a queue of chunks contains when a chunk is appended, is taken, or when a chunk outside it changes.

`NothingIsStranded` (`NothingStranded`) adds `BusyInv` (if `m_csIsBusy` is clear, everything issued has been
flushed or has a flush behind it, or the chunk has a command to be found by the next flush, or the
flag will be set in this call), `CleanInv` (it has been flushed wherever a call is about to clear the
flag or to stop the thread) and `StopInv` (between the last wait and the end nothing happens). They
need each other: a flush that is skipped in front of the stop relies on `BusyInv`, and the flag is
cleared where `CleanInv` says so.

`WakeupsAreKept` is the safety half of `CallsReturn`, from the same invariants and `WakeInv`: while a call sleeps
in `synchronize()`, something is pending and the dxvk-cs thread is awake and not stopped; that thread
sleeps only on an empty queue and before it is told to stop.

## 6. Memory allocator

**Correspondence.** `alloc` and `free` hold the allocator's mutex throughout, so `Alloc` and
`Free` are whole calls. `Attempts` is the sequence of fallbacks in `alloc`: as asked, without
a preferred dedicated allocation, without the optional flags. For each attempt the memory types
are tried in order; within a type a dedicated allocation, the first chunk that does not refuse,
or a new chunk whose size is halved while the driver refuses. A chunk tries one slice, of the
exact size or a longest one, aligns both ends, and keeps the remainders.

Free lists are vectors in the code and sets here. Where the order decides (ties between longest
slices) the model allows any choice. `FreePass` is `DxvkMemoryChunk::free` as written, a fold over
the list; `Free` uses `Coalesce`, its intended meaning, and `PassCoalesces` checks that both
agree for every order of every free list that occurs and every piece that may be freed next.

The driver is external: `Grants` lists how much of each heap it may be ready to hand out at a
moment, and any call may meet any of them. `AlignmentAssumption` says that alignments divide
every size a chunk may have; Vulkan's are powers of two, far below the chunk sizes.

**What is checked** (`memory`: three owners, video and system memory, chunks of 8, requests of four
sizes with alignments, priorities and dedicated allocations): `Partition` (no overlap, no leak),
`Coalesced` (no two adjacent free slices), `PassCoalesces`, `RequestServed` (size, alignment,
type, mandatory flags, dedicated if required), `HeapAccounting` (the statistics are what exists).
Three owners give a piece with neighbours on both sides, the case in which merging can go wrong,
and chunks never grow beyond what they need. The chunk sizes are tied to the heap sizes by
`ChunkSizeAssumption`, the rule of `pickChunkSize`.

**What is proved** (`MemoryAllocator_proofs`), for any device, requests, alignments and
driver, from the module's three assumptions: `TypeCorrect`, `ChunksPartitioned`,
`FreeListsCoalesced`. `Partition /\ Coalesced` is restated per chunk (`ChunkOK`), because a step
changes one chunk: `CutFromChunk` and `ReturnToChunk` treat the chunk that changes,
`SameChunk` the others. The invariant is inductive with `TypeOK`; `Coalesced` needs
`FreeDisjoint`, else "the" neighbour of a slice would not be unique. `CarveFree` and
`CoalesceFree` are the facts about free lists alone. Three more theorems complete the component:

- `RequestsServed` (`RequestServed`): what `alloc` returns has the size, alignment, memory type and flags
  asked for, whichever fallback found it. A piece cut from a chunk starts at a multiple of the alignment
  (`AlignUp`) and ends before the slice does; a new chunk is large enough because halving stops at
  the request.
- `HeapsAccounted` (`HeapAccounting`): the statistics are the sums of what exists, and so never
  negative. `Total`, a sum over a finite set by the folds of the community modules, is taken apart one
  element at a time in `DataLemmas`; induction there is on the smallest counterexample, as a set
  of numbers, which needs no operator parameter.
- `OnePassCoalesces` (`PassCoalesces`): the single pass of `DxvkMemoryChunk::free` over its list merges what
  `Coalesce` merges, in whatever order the list is: the proof follows the fold along the list, and
  uses that at most one entry ends where the freed piece starts and one starts where it ends.

## 7. Mapped buffers

**Correspondence.** A slice of memory travels: taken from the buffer (`AllocSlice`, one critical
section of `m_freeMutex`) by Map on the API thread, by a deferred context, or by the dxvk-cs
thread; named by a rename command in the stream; current (`physSlice`) once the dxvk-cs thread
executes it; then held by the command list's `m_bufferTracker`, which returns it to `nextSlices`
when the list is reset. `MapDiscard` is the discard path of D3D11 `MapBuffer`, D3D9 `LockBuffer` and
`UpdateSubresource`; `MapWait` and `MapReturns` are everything that goes through `WaitForResource`.
`DeferDiscard` takes a slice at once if the list is executed only once and the buffer is dynamic
(`Rename`); otherwise it keeps the data, and the slice is taken each time the list is executed
(`Renew`). `singleUse` stands for both conditions: a buffer that is not dynamic in single-use mode does
what it does without, in a list that is released once it was executed. `csIsBusy` stands for
`m_csIsBusy || !m_csChunk->empty()`, which the two flush functions test. `tracked` is the buffer's use
count; `reset` drops it before it returns the slices (`ReleaseResources`, then `RecycleList`).

A command is executed by one step, a call that waits appears when the wait is over, and
`WRITE_NOOVERWRITE` maps, which promise to touch nothing in use and change no state, are not actions.
When Vulkan refuses a submission or a fence wait fails the list is not recycled but destroyed, and its
destructor resets it (`ListFails`).

**What is checked** (`mapped`):

- `SlicesExclusive`: a slice is in one pool, one command, one list, or current.
- `SafeReuse`: what the pools hold or what has been handed out is accessed by no command list. The list
  that returns a slice retires no earlier than those that use it, only because lists keep their
  order; a refused submission breaks this (its list returns slices that lists before it still
  need, `dxvk_queue.cpp:132`, `dxvk_cmdlist.cpp:70`), and so does a failed fence wait, after which
  the list may be running; hence `failures = 0`.
- `MappedIsNewest`: the pointer Map remembers is where the next command reads, without asking the
  dxvk-cs thread. Executing a deferred list that renames the buffer ends this (`foreign`): renames in
  another order are caught, renames by another context are excluded.
- `MapIsPrivate`: after a discard or a wait the application has the memory for itself.
- `WaitsForSubmitted`: what a waiting map waits for has been submitted, or nobody would.

**Bounds.** Three slices, two commands in the stream, two lists in flight, one recorded command of
a deferred list, one list that fails; both single-use modes. That is a current slice, one in
flight and one handed out, with a list on each side of them. Deadlock is not checked, because memory
runs out at the bound. With three slices the backing buffers grow one slice at a time; the doubling
of `AllocBuffer` up to `MaxCount` is covered by the proofs only.

**What is proved** (`MappedBuffer_proofs`), for any slices and bounds: all six invariants.
`SlicesExclusive` is inductive with `MultiUse` (a list that may run twice holds no slice of its
own). `SafeReuse` needs `InOrder`, `UsesTracked` and `Covered`: a slice in use is current, or will be
returned by this list, a later one or the one being recorded. `MapIsPrivate` and
`WaitsForSubmitted` follow from `Discarded`, `Written`, `Waiting` and `Flushed`, which say what the end
of the stream looks like in each state of the application.

## 8. D3D9 buffer locks

**Correspondence.** Buffers that are not dynamic are written through a staging buffer, and
the last unlock emits a copy. `LockBuffer` is the whole call: the lock range grows and the read lock
is cleared before it is decided whether to wait, so that a `DONOTWAIT` call that fails
(`StillDrawing`) has already changed both. `held` is what the application may do: the locks it was
given since the count was 0. `UnlockInner` and `UnlockLast` are `UnlockBuffer`; `Upload` is its end.
`gpu` is the stream of commands that touch the two buffers and `inUse` the staging
buffer's use count. Contents are versions: `staging` and `real` are what the buffers hold.
Two histories remember what the code does not: `written` is what each region was last given, by the
application or by `ProcessVertices`, in the order of the calls; `overtaken` are the regions that the
application wrote while a copy-back to them was pending. `ProcessVertices` writes the
real buffer and copies back, one command here. Draws and `ProcessVertices` happen while the buffer is
not locked. `ProcessVertices` takes no device lock and sets the read lock after it has emitted its
commands; here it is one step, so that another thread which locks the same buffer in between is not
covered. With `allowLockFlagReadonly` off the flag is as if not passed.

**What is checked** (`buffer_lock`; `buffer_lock_reads` is a finding):

- `WriteLockExclusive`: a lock that skips the wait, because its range is apart from the dirty range,
  never lets the application write what a pending copy has to read. The dirty range is cleared by
  locks that wait and grows at unlocks, and the lock range is shared by nested locks.
- `NothingForgotten`: what each region was last given stays in the staging buffer (`Keeps`), and the
  real buffer gets it from the commands already emitted (`Settles`) or it is in the lock range, so that some
  later unlock uploads it. A read-only lock nested in a writing one makes the last unlock skip the upload,
  which this allows: nothing in the repository says when an upload must have happened. The one
  exception is spelt out by `overtaken`. In the managed pools a lock looks at the dirty range
  only, which says nothing of `ProcessVertices`; it may skip the wait while a copy-back is pending, and
  what the application then writes to the processed vertices is overwritten in the staging buffer when
  the copy-back runs (`d3d9_device.cpp:4237-4242`, `:2349-2356`). That write is lost, and the next upload
  carries the GPU's result. Outside the managed pools the property says that this cannot happen.
- `DrawsSeeUpload`: outside the managed pools a draw reads what was there when it was called. In the
  managed pools it may see later writes: copies take the whole buffer, locks wait for a range only.

**Bounds.** Two regions are what range tests can tell apart (equal, apart, containing); two pending
commands and two versions put a copy against a later write, and a nested lock in between; three
pending commands were tried too. Deadlock is checked.

**What is proved** (`D3D9BufferLock_proofs`), for buffers of any size and any number of locks: all four
invariants. `LockInv` says that the dirty range covers every pending copy and the lock range every
lock; `DataInv` follows each region through the pending commands: `Holds(r, n, v)` is what the n-th
command finds, the last `ProcessVertices` before it, else the staging buffer if a copy comes first. Behind
the last command that is `Settles` (`EndHolds`), so that draws and `NothingForgotten` are proved together.
Outside the managed pools a write meets no pending command but draws (`WritesAlone`).

## 9. Render passes

**Correspondence.** `ctx` is the part of `DxvkContext` that decides when render passes begin and
end. The functions of the context are operators on it (`SpillRenderPass`, `UpdateFramebuffer`,
`StartRenderPass`, `ClearRenderPass`, ...), so that a call is the composition the code writes.
Vulkan commands (`Cmd...`) act on `content`, what the images will hold: the last fill
of each aspect, and whether it was drawn over since. A command on the wrong side of a render pass
ruins everything. `expected` is what the calls asked for, computed without any of the context's
state. A clear of a bound target between render passes waits in `ops` and `clearValues` for the next one
(`DeferClear`). The framebuffer follows the targets when it is needed (`dirtyFramebuffer`). As in the
code, `ops` is indexed by slot, `clearValues` by attachment number, and `FindAttachment` returns a number.

`Transfer` stands for copies, uploads, resolves and `discardImage`, whose effect on this state is a
spill and a write; `Spill` for those that only read or must be outside of a render pass. Queries:
`active` is begun and not ended, `types` and `running` are the manager's active types and the Vulkan
queries that count; `miscounted` collects those that missed a draw, counted one too many, or ran
across the end of a pass or list.

**What is checked** (`render_pass`; `render_pass_gap` is a finding):

- `ContentsKept`: if recording stopped now, all images would hold what the calls asked for. A clear
  that waits must survive other targets, the same ones again, draws without a pipeline,
  copies of the image, dispatches and flushes, and be done before what comes after it.
- `QueriesCountAll`: whatever passes, dispatches, pauses of transform feedback and lists begin and end
  in between, a query counts each draw and dispatch of its type.

**Bounds.** Two colour slots and a depth-stencil slot; four views of three images, two of the
same image in different formats, one smaller than the other targets (so that it is
attached and not full size); one clear value; two queries, of statistics and of transform feedback. Two
values with fewer images, and queries of all three types, were tried as well. There is no counter: the state space is finite.

**What is proved** (`RenderPass_proofs`), for any views, targets, values and queries: `TypeOK` and
`QueriesCountAll`, and, if no colour target is bound above an empty colour slot (`GapFree`), `ContentsKept`.
`Good` is the inductive part: the open pass is the framebuffer's; clears wait only between passes and
only for the current targets; the running queries are those of the counted types. `Waiting(ctx)` is the contents
after the clears that wait; each step keeps it, or changes it as asked (`Kept`), while no
operation discards an aspect that it does not clear (`OpsKept`). `GapFree` enters through one lemma,
`AttachmentIsSlot`, which is false without it: section 11.

**Not modelled**: barriers and layouts, the exception for presented images in `resetRenderPassOps`,
conditional rendering (no front end calls it), slices of 3D images, rebinding of vertex
buffers and descriptors. Each image has one set of aspects for all its views.

## 10. State cache

**Correspondence.** `StateCacheFile` is the file and the thread that writes it, `StateCache` adds the
threads around it. A session is one device: the constructor reads the file entry by entry
(`OpenFile`, `ReadCacheEntry`, `FinishReading`), writes it anew if it has an old version or invalid
entries (`RewriteEntry`, `FinishRewrite`), and starts the threads (`OpenCache`). Creators are
application threads in `GetShaderModule`: look the shader up, create it and register it
(`RegisterShader`), keep the new object unless another thread was faster (`InsertModule`). So there may
be two objects for one key; `m_shaderMap` and the module set may even keep different ones. A worker goes
through `loop`, `lock`, `wait`/`asleep` and `compile`, one pipeline per step, as the lock of a
pipeline object is taken for each. The dxvk-cs thread creates what it does not find (`GetPipelineHandle`) and records it
in a second step (`WritePipelineStateToCache`), after it has released that lock. The writer has the
states of a worker. At the end `~DxvkPipelineManager` destroys its pipelines
while the threads still run, then `~DxvkStateCache` stops and joins them.

The file is a sequence of cells, two for each entry, and is read two cells at a time: after half an
entry everything is out of step, and what is read there is invalid. The process can be killed
at any time (`KillProcess`), while the writer or the constructor writes an entry too; a write can fail and leave
half an entry or nothing. `MaxFaults` bounds both. What is left of a session is the file.

Two things in the model are worth knowing, because they look like slips and are in the code:

- `WriteEntry` writes nothing the first time in a session. The writer opens its stream when it finds
  that it failed (`dxvk_state_cache.cpp:536`), but a `std::ofstream` that was never opened has not failed:
  the write goes nowhere and sets the flag that makes the next turn open the file. The first pipeline
  that a session records is lost.
- `FinishReading` takes half an entry at the end for the end of the file (`:339`), although the comment at `:320` wants
  the file regenerated. It is, one session later, if anything was appended after the half.

**What is checked** (`state_cache`):

- `EntriesScheduled`: whatever order, threads and objects shaders are registered with, each cached pipeline whose shaders
  are all there is compiled, being compiled or queued, for the objects that the map holds.
- `StoredOnce`: draws, sessions, kills and failed writes never put a pipeline into the file
  twice where it can be read, and what a session has read, and therefore never records, stays in the file.
- `NobodyWaits` (liveness): again and again no cached pipeline waits for a worker and no destructor for a
  thread. The deadlock check says that no thread is left asleep otherwise.
- `TypeOK` includes `BusyCount`: while the cache runs, `isCompilingShaders` counts the workers that are not idle.

**Bounds.** Two pipelines of the same two shaders, which differ in their state, so that the
registration of the last shader queues two items and each of them is compiled for both; two threads that create the
same shader, one of them the other shader too; two workers; every version of the file with up to two entries at first; two
faults, so that a session that recovers from a kill can be killed. There is no bound on the number of sessions.

**Fairness.** The workers, the writer and a destructor that was called go on. Nobody is obliged to create
shaders, draw, open the cache or end a session; a session registers finitely many shaders.

**What is proved**, for any pipelines, shaders, threads and number of faults: `TypeOK` and
`EntriesScheduled`, and `StoredOnce` (`StateCache_proofs`). The first two are part
of the inductive `IInv`, with five facts that the code relies on without saying them: among them that
the map holds every object under its own key, so that an item leads back to the pipelines it was made
of (`KeysMatch`), and that only a worker that compiles has pipelines left (`IdleHasNoWork`), so that taking an
item drops none. `StoredOnce` follows from `OnceInv`: what the file holds or is on its way to it is known
to a session that runs, from the file or because a draw has created it (`AllKnown`), so that a draw
never creates it again; and while the file is read or written anew, the entries are those behind the
reader or in front of the writer, each once (`Reading`, `Rewriting`). The lemmas `HalfEntry` and `WholeEntry`
say why a kill does no harm: half an entry is never read as one, and what is written behind it is not either.
`WakeupsAreKept` is the safety half of `NobodyWaits`: workers and the writer sleep only while their queue is empty
and nobody has told them to end.

**Not modelled**: pipelines whose state is invalid (they leave no trace), shaders without a key, failed
writes of the constructor, several devices that share one file, the returned Vulkan handle, and
what a worker does to pipelines that are already destroyed: nothing, or the process ends.

## 11. Findings

| run | the code | the statement |
|---|---|---|
| `queue_sync` | without asynchronous present, `present()` uses the Vulkan queue under `m_mutex` alone | `dxvk_device.h:384`: external libraries lock the queue because it may only be used by one thread |
| `buffer_lock_reads` | a `DONOTWAIT` lock that fails has cleared the read lock; the read-only lock after it does not wait for `ProcessVertices` | `d3d9_device.cpp:4233`: read-only locks can skip waiting, for "we never write to these buffers from the GPU" |
| `render_pass_gap` | a clear of a target above an empty colour slot sets the operation of the wrong slot, or clears nothing inside a pass | `dxvk_context.cpp:702`: the attachment index for the subpass is the render pass attachment index |

Each is a run whose one property states what the comment says and which TLC violates.

## 12. What is only model-checked, and what is not modelled

Only model-checked: the liveness properties (`CallersWake`, `ShutdownCompletes`, `ListsRetired`,
`CallsReturn`, `NobodyWaits`), as liveness under fairness is out of the provers' reach (their safety halves,
that nobody sleeps who has something to do, are proved), and the three violations of
section 11. Every invariant, the action property and both refinements are proved as well as checked,
`SleeperHasWaker` for at most `MaxQueued` clients and `ContentsKept` under `GapFree`.

Where a proof needs induction (folds, flattened sequences, sums over finite sets), `DataLemmas` has it
for a set of numbers or a set of sets (`NatInd`, `SmallestSet`) instead of a predicate, which the
installed provers could not instantiate. So the modules use no recursive operators of
their own in what is proved about.

Left out of the modelled components: the transfer queue's command buffer (submitted in the same
call), signals, statistics and the GPU idle timer of the submission queue; the content of
commands; memory mapping pointers and the destruction of the allocator.

Components without a module are listed with the reason in `PROJECT.json`: translation and
generation code (shader compilers, API objects, meta operations), code that only talks to the
system (window handling, loader, files), and those in the plan below.

## 13. Plan

1. `SubmissionQueue`, abstract `InOrderQueue`, proofs. Done.
2. `CommandStream`, abstract `CommandPipe`, proofs. Done.
3. `MemoryAllocator`, proofs. Done.
4. `MappedBuffer`, proofs. Done. Next to it: staging allocations, a sequence of buffers.
5. `D3D9BufferLock`, proofs. Done. The same for texture subresources (`LockImage`), whose lock state
   changes before a call that may fail.
6. `RenderPass`, proofs. Done.
7. `StateCache`: shader registration, compiler threads, the file, shutdown, proofs. Done.
8. Query results and GPU events with the D3D9 and D3D11 query state machines.
9. Frame latency: frame events on top of submission; failure between wait and notification.
10. Barriers as a pure algorithm; reference counts.

## 14. Running the checks

Each run is `tlc -config <cfg> <module>` with the names in `PROJECT.json`; proofs are checked by
`tlapm <module>`. The slowest runs take a minute or two on two cores, the slowest proofs a few minutes.
