--------------------------- MODULE D3D9BufferLock ----------------------------
(***************************************************************************)
(* A D3D9 vertex or index buffer that is not dynamic (d3d9_common_buffer,   *)
(* LockBuffer, UnlockBuffer and ProcessVertices of d3d9_device).  The       *)
(* application writes a staging buffer; the last unlock emits a copy of all *)
(* of it to the real buffer.  A lock waits for the copies still to be made, *)
(* except where the range it asks for says that it need not.                *)
(***************************************************************************)
EXTENDS Naturals, Sequences

CONSTANTS
    Size,        \* desc.Size, in regions that the application tells apart
    Pools,       \* values of IsPoolManaged(desc.Pool)
    MaxPending,  \* bound on commands emitted and not executed
    MaxVersion,  \* bound on writes, by the application and by the GPU
    MaxLocks     \* bound on m_lockCount

ASSUME BufferAssumption ==
    /\ Size \in Nat \ {0} /\ Pools \subseteq BOOLEAN
    /\ MaxPending \in Nat /\ MaxVersion \in Nat /\ MaxLocks \in Nat

VARIABLES
    managed,     \* the buffer's pool is managed
    lockRange,   \* m_lockRange
    dirtyRange,  \* m_dirtyRange
    readLocked,  \* m_readLocked
    readOnly,    \* D3DLOCK_READONLY in m_mapFlags
    lockCount,   \* m_lockCount
    held,        \* the locks that the application was given since lockCount was 0
    staging,     \* contents of m_stagingBuffer
    real,        \* contents of m_buffer
    written,     \* history: what each region was last given, in the order of the calls
    overtaken,   \* history: regions the application wrote before a pending copy-back
    clock,       \* the last version that anyone wrote
    gpu,         \* commands emitted and not executed
    inUse        \* the staging buffer is tracked by a command list

vars == <<managed, lockRange, dirtyRange, readLocked, readOnly, lockCount, held,
          staging, real, written, overtaken, clock, gpu, inUse>>

lockVars == <<lockRange, dirtyRange, readLocked, readOnly, lockCount, held>>
historyVars == <<written, overtaken>>
dataVars == <<staging, real, historyVars, clock>>

Region   == 0 .. Size - 1
Contents == [Region -> 0 .. MaxVersion]

(* D3D9Range: min up to, not including, max.                                *)
Range    == [min : 0 .. Size, max : 0 .. Size]
Whole    == [min |-> 0, max |-> Size]
Empty    == [min |-> 0, max |-> 0]

IsDegenerate(range)  == range.min = range.max
Least(a, b)          == IF a < b THEN a ELSE b
Greatest(a, b)       == IF a < b THEN b ELSE a
Within(r, range)     == range.min <= r /\ r < range.max

Conjoin(range, other) ==
    IF IsDegenerate(range) THEN other
    ELSE [min |-> Least(other.min, range.min), max |-> Greatest(other.max, range.max)]

Overlaps(range, other) ==
    ~IsDegenerate(range) /\ other.max > range.min /\ other.min < range.max

(* A copy of the staging buffer, a draw that must find a version of a region *)
(* and ProcessVertices, which writes a region and copies it back.            *)
Copy(range)   == [op |-> "copy", range |-> range]
Draw(r, v)    == [op |-> "draw", region |-> r, version |-> v]
Process(r, v) == [op |-> "process", region |-> r, version |-> v]

Command == [op : {"copy"}, range : Range]
      \cup [op : {"draw", "process"}, region : Region, version : 0 .. MaxVersion]

Processes(i, r) == gpu[i].op = "process" /\ gpu[i].region = r
Processing(r)   == \E i \in DOMAIN gpu : Processes(i, r)

(* Once gpu has been executed, a region of the staging buffer and of the     *)
(* real one holds v: the last result copied back, or else what is staged.    *)
Result(r, v) == \E i \in DOMAIN gpu :
    /\ Processes(i, r) /\ gpu[i].version = v
    /\ \A j \in DOMAIN gpu : Processes(j, r) => j <= i
Copying == \E i \in DOMAIN gpu : gpu[i].op = "copy"

Keeps(r, v)   == Result(r, v) \/ (~Processing(r) /\ staging[r] = v)
Settles(r, v) ==
    Result(r, v) \/ (~Processing(r) /\ IF Copying THEN staging[r] = v ELSE real[r] = v)
-----------------------------------------------------------------------------
Init ==
    /\ managed \in Pools
    /\ lockRange = Empty /\ dirtyRange = Empty
    /\ readLocked = FALSE /\ readOnly = FALSE /\ lockCount = 0 /\ held = {}
    /\ staging = [r \in Region |-> 0] /\ real = [r \in Region |-> 0]
    /\ written = [r \in Region |-> 0] /\ overtaken = {} /\ clock = 0
    /\ gpu = <<>> /\ inUse = FALSE

(* Bounds are respected in the managed pools only; a size of 0 means the     *)
(* whole buffer.  The mutants forget the pool and the end of the buffer.     *)
RespectBoundsAlways(size) == size # 0
RespectBounds(size) == managed /\ size # 0

RequestedUnclamped(offset, size) ==
    IF RespectBounds(size) THEN [min |-> offset, max |-> offset + size] ELSE Whole
Requested(offset, size) ==
    IF RespectBounds(size) THEN [min |-> offset, max |-> offset + Least(size, Size - offset)]
    ELSE Whole

(* LockBuffer.  The lock range, which grows first, decides whether the       *)
(* pending copies matter.  A waiting call appears once the wait is over; one *)
(* with D3DLOCK_DONOTWAIT fails and leaves the ranges and flags it changed.  *)
SkipsWait(size, readonly) ==
    \/ readonly /\ ~readLocked
    \/ RespectBounds(size) /\ ~readonly /\ ~Overlaps(dirtyRange, lockRange')

LockSucceeds(offset, size, readonly, doNotWait) ==
    /\ \/ SkipsWait(size, readonly) /\ UNCHANGED dirtyRange
       \/ /\ ~SkipsWait(size, readonly) /\ ~inUse
          /\ dirtyRange' = IF doNotWait THEN dirtyRange ELSE Empty
    /\ readOnly' = readonly
    /\ lockCount' = lockCount + 1
    /\ held' = held \cup {[range |-> Requested(offset, size), readonly |-> readonly]}

StillDrawing(size, readonly, doNotWait) ==
    /\ ~SkipsWait(size, readonly) /\ doNotWait /\ inUse
    /\ UNCHANGED <<dirtyRange, readOnly, lockCount, held>>

LockBuffer(offset, size, readonly, doNotWait) ==
    /\ lockCount < MaxLocks
    /\ lockRange' = Conjoin(lockRange, Requested(offset, size))
    /\ readLocked' = FALSE
    /\ \/ LockSucceeds(offset, size, readonly, doNotWait)
       \/ StillDrawing(size, readonly, doNotWait)
    /\ UNCHANGED <<managed, dataVars, gpu, inUse>>

(* The application writes where a lock that is not read-only lets it, also   *)
(* where a result of ProcessVertices is still to be copied back.             *)
Write(r) ==
    /\ clock < MaxVersion /\ clock' = clock + 1
    /\ \E lock \in held : ~lock.readonly /\ Within(r, lock.range)
    /\ staging' = [staging EXCEPT ![r] = clock']
    /\ written' = [written EXCEPT ![r] = clock']
    /\ overtaken' = IF Processing(r) THEN overtaken \cup {r} ELSE overtaken \ {r}
    /\ UNCHANGED <<managed, lockVars, real, gpu, inUse>>

(* The end of UnlockBuffer: a copy of the whole staging buffer, as it is     *)
(* when the copy is executed.                                               *)
UploadReplacingDirty ==
    /\ Len(gpu) < MaxPending
    /\ gpu' = Append(gpu, Copy(lockRange)) /\ inUse' = TRUE
    /\ dirtyRange' = lockRange
    /\ lockRange' = Empty
Upload ==
    /\ Len(gpu) < MaxPending
    /\ gpu' = Append(gpu, Copy(lockRange)) /\ inUse' = TRUE
    /\ dirtyRange' = Conjoin(dirtyRange, lockRange)
    /\ lockRange' = Empty

(* UnlockBuffer.  Too many calls of it leave the count at 0.                 *)
UnlockInner ==
    /\ lockCount > 1 /\ lockCount' = lockCount - 1
    /\ UNCHANGED <<managed, lockRange, dirtyRange, readLocked, readOnly, held,
                   dataVars, gpu, inUse>>

KeepRangeDropped == lockRange' = Empty /\ UNCHANGED <<dirtyRange, gpu, inUse>>
KeepRange        == UNCHANGED <<lockRange, dirtyRange, gpu, inUse>>

UnlockLast ==
    /\ lockCount <= 1 /\ lockCount' = 0 /\ held' = {}
    /\ readOnly' = FALSE
    /\ \/ (readOnly \/ IsDegenerate(lockRange)) /\ KeepRange
       \/ ~readOnly /\ ~IsDegenerate(lockRange) /\ Upload
    /\ UNCHANGED <<managed, readLocked, dataVars>>

(* Draws from the buffer, while it is not locked.  A draw must find what the *)
(* commands before it leave there.                                          *)
DrawPrimitive(r) ==
    /\ lockCount = 0 /\ Len(gpu) < MaxPending
    /\ \E v \in 0 .. MaxVersion : Settles(r, v) /\ gpu' = Append(gpu, Draw(r, v))
    /\ UNCHANGED <<managed, lockVars, dataVars, inUse>>

(* ProcessVertices emits a draw that writes the real buffer and a copy of    *)
(* the result to the staging buffer, then sets the read lock.  It takes no   *)
(* device lock: the calls for one buffer come from one thread here.          *)
ProcessVertices(r) ==
    /\ lockCount = 0 /\ Len(gpu) < MaxPending
    /\ clock < MaxVersion /\ clock' = clock + 1
    /\ gpu' = Append(gpu, Process(r, clock')) /\ inUse' = TRUE
    /\ written' = [written EXCEPT ![r] = clock'] /\ overtaken' = overtaken \ {r}
    /\ readLocked' = TRUE
    /\ UNCHANGED <<managed, lockRange, dirtyRange, readOnly, lockCount, held, staging, real>>
-----------------------------------------------------------------------------
(* The dxvk-cs thread and the GPU, then the finish thread.                   *)
Execute(command) ==
    \/ command.op = "copy" /\ real' = staging /\ UNCHANGED staging
    \/ command.op = "draw" /\ UNCHANGED <<real, staging>>
    \/ /\ command.op = "process"
       /\ real' = [real EXCEPT ![command.region] = command.version]
       /\ staging' = [staging EXCEPT ![command.region] = command.version]

GpuExecutes ==
    /\ gpu # <<>> /\ gpu' = Tail(gpu)
    /\ Execute(Head(gpu))
    /\ UNCHANGED <<managed, lockVars, historyVars, clock, inUse>>

Retire ==
    /\ inUse /\ \A i \in DOMAIN gpu : gpu[i].op = "draw"
    /\ inUse' = FALSE
    /\ UNCHANGED <<managed, lockVars, dataVars, gpu>>

Next ==
    \/ \E offset, size \in 0 .. Size, readonly, doNotWait \in BOOLEAN :
          LockBuffer(offset, size, readonly, doNotWait)
    \/ \E r \in Region : Write(r) \/ DrawPrimitive(r) \/ ProcessVertices(r)
    \/ UnlockInner \/ UnlockLast
    \/ GpuExecutes \/ Retire

Spec == Init /\ [][Next]_vars
-----------------------------------------------------------------------------
(* Types. No range leaves the buffer.                                       *)
TypeOK ==
    /\ managed \in BOOLEAN
    /\ lockRange \in Range /\ dirtyRange \in Range
    /\ readLocked \in BOOLEAN /\ readOnly \in BOOLEAN /\ lockCount \in 0 .. MaxLocks
    /\ held \subseteq [range : Range, readonly : BOOLEAN]
    /\ staging \in Contents /\ real \in Contents /\ written \in Contents
    /\ overtaken \subseteq Region
    /\ clock \in 0 .. MaxVersion
    /\ gpu \in Seq(Command) /\ inUse \in BOOLEAN

(* The application never writes a part of the staging buffer that an upload  *)
(* of it still has to read: skipping the wait of LockBuffer by comparing     *)
(* the two ranges is sound however locks nest, fail and follow each other.   *)
(* Outside the managed pools it does not even meet a copy-back.              *)
WriteLockExclusive ==
    \A lock \in held : ~lock.readonly =>
        \A i \in DOMAIN gpu :
            /\ gpu[i].op = "copy" =>
                  \A r \in Region : ~(Within(r, lock.range) /\ Within(r, gpu[i].range))
            /\ gpu[i].op = "process" => managed

(* Whatever locks nest, fail or are read-only, and wherever ProcessVertices  *)
(* falls among them: what a region was last given stays in the staging       *)
(* buffer, and it reaches the real buffer unless it is in the lock range,    *)
(* from where the next unlock that uploads anything takes it.  Excepted are  *)
(* writes to a region whose copy-back is pending, which destroys them; only  *)
(* a lock of a managed buffer, which the dirty range lets in, meets one.     *)
NothingForgotten ==
    /\ ~managed => overtaken = {}
    /\ \A r \in Region \ overtaken :
          /\ Keeps(r, written[r])
          /\ Settles(r, written[r]) \/ Within(r, lockRange)

(* Outside the managed pools a draw reads what the buffer held when the draw *)
(* was called, and not what a later lock wrote: copies take the whole        *)
(* staging buffer, so the locks of these pools must wait for all of them.    *)
DrawsSeeUpload ==
    (~managed /\ gpu # <<>> /\ Head(gpu).op = "draw")
        => real[Head(gpu).region] = Head(gpu).version

(* d3d9_device.cpp:4233: "READONLY promises they will only read -- and we    *)
(* never write to these buffers from the GPU".  The read lock is there for   *)
(* ProcessVertices, which does: what it is about to copy back is not read.   *)
ReadsAreCurrent ==
    \A lock \in held, i \in DOMAIN gpu :
        lock.readonly /\ gpu[i].op = "process" => ~Within(gpu[i].region, lock.range)
=============================================================================
