---------------------------- MODULE MappedBuffer -----------------------------
(***************************************************************************)
(* A buffer that the application maps (dxvk_buffer, dxvk_lifetime, the      *)
(* tracker of a command list, Map in the D3D11 contexts, the dynamic path   *)
(* of LockBuffer in D3D9).  A discard takes another slice of memory on the  *)
(* API thread; the dxvk-cs thread renames the buffer when it reaches that   *)
(* point of the stream; the slice it had goes to the free list when the     *)
(* finish thread resets the command list.  The stream and the submission    *)
(* threads appear as what CommandStream and SubmissionQueue show of them:   *)
(* commands are executed, lists are issued and retired in order.            *)
(***************************************************************************)
EXTENDS Naturals, Sequences, FiniteSets

CONSTANTS
    Slices,       \* all the slices that memory allows for
    Origin,       \* the slice that the buffer is created with
    MaxCount,     \* m_physSliceMaxCount
    MaxPending,   \* bound on commands in the stream
    MaxDeferred,  \* bound on commands in a deferred list
    MaxLists,     \* bound on command lists between submission and reset
    MaxFailures,  \* bound on submissions and fence waits that fail
    SingleUseModes \* values of singleUse

ASSUME SlicesAssumption ==
    /\ Origin \in Slices /\ MaxCount \in Nat \ {0}
    /\ MaxPending \in Nat /\ MaxDeferred \in Nat /\ MaxLists \in Nat /\ MaxFailures \in Nat
    /\ SingleUseModes \subseteq BOOLEAN

VARIABLES
    fresh,       \* memory that no backing buffer has been created from
    freeSlices,  \* m_freeSlices
    nextSlices,  \* m_nextSlices
    sliceCount,  \* m_physSliceCount
    physSlice,   \* m_physSlice, owned by the dxvk-cs thread
    mapped,      \* m_mapped (D3D11Buffer), m_sliceHandle (D3D9CommonBuffer)
    access,      \* what the application may do through the pointer it has
    foreign,     \* the buffer was renamed by another context since its last discard
    cs,          \* commands emitted and not executed
    csIsBusy,    \* m_csIsBusy, or the chunk has commands
    recording,   \* the command list of the dxvk-cs thread
    lists,       \* submitted lists that have not been recycled, oldest first
    failures,
    singleUse,   \* a deferred list is executed once, and the buffer is dynamic
    deferred,    \* commands recorded by a deferred context
    finished     \* the list it finished

vars == <<fresh, freeSlices, nextSlices, sliceCount, physSlice, mapped, access,
          foreign, cs, csIsBusy, recording, lists, failures, singleUse, deferred, finished>>

poolVars == <<fresh, freeSlices, nextSlices, sliceCount>>
apiVars  == <<mapped, access, foreign>>
csVars   == <<cs, csIsBusy>>
defVars  == <<deferred, finished>>

(* A command reads or writes the buffer, renames it to a slice taken when   *)
(* it was recorded, renames it to one taken when it is executed, or submits *)
(* the list.                                                                *)
Use       == [op |-> "use"]
Rename(s) == [op |-> "rename", slice |-> s]
Renew     == [op |-> "renew"]
Flush     == [op |-> "flush"]
Command   == {Use, Renew, Flush} \cup {Rename(s) : s \in Slices}

Renames(commands)  == {i \in DOMAIN commands : commands[i].op = "rename"}
Replaces(commands) == {i \in DOMAIN commands : commands[i].op \in {"rename", "renew"}}
Pending(commands)  == {commands[i].slice : i \in Renames(commands)}

(* uses: slices its commands will access; frees: m_bufferTracker; tracked: the *)
(* buffer is in m_resources; phase: how far submission has come.            *)
CmdList   == [uses : SUBSET Slices, frees : SUBSET Slices, tracked : BOOLEAN,
              phase : {"recorded", "issued", "executed"}]
EmptyList == [uses |-> {}, frees |-> {}, tracked |-> FALSE, phase |-> "recorded"]

(* Mistakes, each before the definition it would replace, are not part of    *)
(* the model: here, a list that is still being recorded is forgotten.       *)
InUseByLists == \E i \in DOMAIN lists : lists[i].tracked
InUse == recording.tracked \/ \E i \in DOMAIN lists : lists[i].tracked
-----------------------------------------------------------------------------
Init ==
    /\ fresh = Slices \ {Origin} /\ freeSlices = {} /\ nextSlices = {}
    /\ sliceCount = 1
    /\ physSlice = Origin /\ mapped = Origin /\ access = "none" /\ foreign = FALSE
    /\ cs = <<>> /\ csIsBusy = FALSE /\ recording = EmptyList /\ lists = <<>> /\ failures = 0
    /\ singleUse \in SingleUseModes
    /\ deferred = <<>> /\ finished = <<>>

(* The free list serves first, then the list of slices returned by the GPU, *)
(* then a new backing buffer.  Which entry is taken is left open.           *)
TakeFree(s) ==
    /\ s \in freeSlices
    /\ freeSlices' = freeSlices \ {s}
    /\ UNCHANGED <<fresh, nextSlices, sliceCount>>

SwapLists(s) ==
    /\ freeSlices = {} /\ s \in nextSlices
    /\ freeSlices' = nextSlices \ {s} /\ nextSlices' = {}
    /\ UNCHANGED <<fresh, sliceCount>>

AllocBufferUncapped(s) ==
    /\ freeSlices = {} /\ nextSlices = {}
    /\ \E batch \in SUBSET fresh :
          /\ Cardinality(batch) = sliceCount /\ s \in batch
          /\ freeSlices' = batch \ {s} /\ fresh' = fresh \ batch
    /\ sliceCount' = 2 * sliceCount
    /\ UNCHANGED nextSlices

AllocBuffer(s) ==
    /\ freeSlices = {} /\ nextSlices = {}
    /\ \E batch \in SUBSET fresh :
          /\ Cardinality(batch) = sliceCount /\ s \in batch
          /\ freeSlices' = batch \ {s} /\ fresh' = fresh \ batch
    /\ sliceCount' = IF 2 * sliceCount < MaxCount THEN 2 * sliceCount ELSE MaxCount
    /\ UNCHANGED nextSlices

AllocSlice(s) == TakeFree(s) \/ SwapLists(s) \/ AllocBuffer(s)

EmitCs(commands) ==
    /\ Len(cs) + Len(commands) <= MaxPending
    /\ cs' = cs \o commands /\ csIsBusy' = TRUE

(* Flush does nothing when no command was emitted since the last one.        *)
FlushChunk ==
    \/ /\ cs # <<>> /\ Len(cs) < MaxPending
       /\ cs' = Append(cs, Flush) /\ csIsBusy' = FALSE
    \/ cs = <<>> /\ UNCHANGED csVars

FlushCs ==
    \/ /\ csIsBusy /\ Len(cs) < MaxPending
       /\ cs' = Append(cs, Flush) /\ csIsBusy' = FALSE
    \/ ~csIsBusy /\ UNCHANGED csVars
-----------------------------------------------------------------------------
(* The application, on the immediate context.                              *)

(* MAP_WRITE_DISCARD, D3DLOCK_DISCARD, UpdateSubresource of a mappable       *)
(* buffer.                                                                  *)
MapDiscardForgotten ==
    /\ access = "none"
    /\ \E s \in Slices : AllocSlice(s) /\ EmitCs(<<Rename(s)>>)
    /\ access' = "discard" /\ foreign' = FALSE
    /\ UNCHANGED <<mapped, physSlice, recording, lists, failures, singleUse, defVars>>

MapDiscard ==
    /\ access = "none"
    /\ \E s \in Slices : AllocSlice(s) /\ mapped' = s /\ EmitCs(<<Rename(s)>>)
    /\ access' = "discard" /\ foreign' = FALSE
    /\ UNCHANGED <<physSlice, recording, lists, failures, singleUse, defVars>>

(* A map that neither discards nor passes MAP_WRITE_NO_OVERWRITE waits for   *)
(* the resource: the stream is drained (the call appears once that is done), *)
(* and a buffer still in use is flushed and waited for, or the map fails.    *)
(* A map with NO_OVERWRITE waits for nothing and is left out.                *)
MapWait ==
    /\ access = "none" /\ cs = <<>>
    /\ \/ ~InUse /\ access' = "write" /\ UNCHANGED csVars
       \/ InUse /\ access' = "waiting" /\ FlushCs
       \/ InUse /\ FlushCs /\ UNCHANGED access
    /\ UNCHANGED <<poolVars, physSlice, mapped, foreign, recording, lists,
                   failures, singleUse, defVars>>

MapReturns ==
    /\ access = "waiting" /\ cs = <<>> /\ ~InUse
    /\ access' = "write"
    /\ UNCHANGED <<poolVars, physSlice, mapped, foreign, csVars, recording, lists,
                   failures, singleUse, defVars>>

Unmap ==
    /\ access \in {"discard", "write"}
    /\ access' = "none"
    /\ UNCHANGED <<poolVars, physSlice, mapped, foreign, csVars, recording, lists,
                   failures, singleUse, defVars>>

DrawOrFlush ==
    /\ access = "none"
    /\ EmitCs(<<Use>>) \/ FlushCs
    /\ UNCHANGED <<poolVars, physSlice, apiVars, recording, lists, failures,
                   singleUse, defVars>>

(* ExecuteCommandList.  With single use a list is executed once at most.    *)
ExecuteCommandList ==
    /\ access = "none" /\ finished # <<>>
    /\ EmitCs(finished)
    /\ foreign' = (foreign \/ Replaces(finished) # {})
    /\ finished' = IF singleUse THEN <<>> ELSE finished
    /\ UNCHANGED <<poolVars, physSlice, mapped, access, recording, lists,
                   failures, singleUse, deferred>>

ReleaseCommandList ==
    /\ finished # <<>>
    /\ finished' = <<>>
    /\ UNCHANGED <<poolVars, physSlice, apiVars, csVars, recording, lists, failures,
                   singleUse, deferred>>
-----------------------------------------------------------------------------
(* A deferred context on another thread.  Its Map takes a slice at once in  *)
(* single-use mode, of a dynamic buffer; otherwise the data is kept and the *)
(* slice is taken each time the list is executed.  In single-use mode, a    *)
(* buffer that is not dynamic does what it does without, in a list that is  *)
(* released once executed: singleUse is FALSE for it.                       *)
DeferDiscard ==
    /\ Len(deferred) < MaxDeferred
    /\ \/ /\ singleUse
          /\ \E s \in Slices : AllocSlice(s) /\ deferred' = Append(deferred, Rename(s))
       \/ /\ ~singleUse
          /\ deferred' = Append(deferred, Renew)
          /\ UNCHANGED poolVars
    /\ UNCHANGED <<physSlice, apiVars, csVars, recording, lists, failures, singleUse, finished>>

DeferUse ==
    /\ Len(deferred) < MaxDeferred
    /\ deferred' = Append(deferred, Use)
    /\ UNCHANGED <<poolVars, physSlice, apiVars, csVars, recording, lists, failures,
                   singleUse, finished>>

FinishCommandList ==
    /\ deferred # <<>> /\ finished = <<>>
    /\ finished' = deferred /\ deferred' = <<>>
    /\ UNCHANGED <<poolVars, physSlice, apiVars, csVars, recording, lists, failures, singleUse>>
-----------------------------------------------------------------------------
(* The dxvk-cs thread.                                                      *)
CsUse ==
    /\ cs # <<>> /\ Head(cs) = Use
    /\ cs' = Tail(cs)
    /\ recording' = [recording EXCEPT !.uses = @ \cup {physSlice}, !.tracked = TRUE]
    /\ UNCHANGED <<csIsBusy, poolVars, physSlice, apiVars, lists, failures, singleUse, defVars>>

InvalidateBufferEarly(s) ==
    /\ physSlice' = s
    /\ recording' = [recording EXCEPT !.frees = @ \cup {s}]
InvalidateBuffer(s) ==
    /\ physSlice' = s
    /\ recording' = [recording EXCEPT !.frees = @ \cup {physSlice}]

CsRename ==
    /\ cs # <<>> /\ Head(cs).op = "rename"
    /\ cs' = Tail(cs)
    /\ InvalidateBuffer(Head(cs).slice)
    /\ UNCHANGED <<csIsBusy, poolVars, apiVars, lists, failures, singleUse, defVars>>

CsRenew ==
    /\ cs # <<>> /\ Head(cs) = Renew
    /\ cs' = Tail(cs)
    /\ \E s \in Slices : AllocSlice(s) /\ InvalidateBuffer(s)
    /\ UNCHANGED <<csIsBusy, apiVars, lists, failures, singleUse, defVars>>

(* DxvkCommandList::reset, bufferTracker: freeSlice for every entry.         *)
FreeSlices(list) == nextSlices' = nextSlices \cup list.frees

CsFlushEarly ==
    /\ cs # <<>> /\ Head(cs) = Flush /\ Len(lists) < MaxLists
    /\ cs' = Tail(cs) /\ FreeSlices(recording)
    /\ lists' = Append(lists, [recording EXCEPT !.frees = {}]) /\ recording' = EmptyList
    /\ UNCHANGED <<csIsBusy, fresh, freeSlices, sliceCount, physSlice, apiVars, failures,
                   singleUse, defVars>>

CsFlush ==
    /\ cs # <<>> /\ Head(cs) = Flush /\ Len(lists) < MaxLists
    /\ cs' = Tail(cs)
    /\ lists' = Append(lists, recording) /\ recording' = EmptyList
    /\ UNCHANGED <<csIsBusy, poolVars, physSlice, apiVars, failures, singleUse, defVars>>
-----------------------------------------------------------------------------
(* Submission, GPU and finish thread.                                       *)
FirstIn(phase, i) ==
    /\ lists[i].phase = phase
    /\ \A j \in 1 .. i - 1 : lists[j].phase # phase

Issue ==
    /\ \E i \in DOMAIN lists :
          FirstIn("recorded", i) /\ lists' = [lists EXCEPT ![i].phase = "issued"]
    /\ UNCHANGED <<poolVars, physSlice, apiVars, csVars, recording, failures, singleUse, defVars>>

Without(i) == [j \in 1 .. Len(lists) - 1 |-> IF j < i THEN lists[j] ELSE lists[j + 1]]

(* A list that vkQueueSubmit refuses, or whose fence cannot be waited for,   *)
(* is not recycled but destroyed; its destructor resets it all the same.    *)
ListFails ==
    /\ failures < MaxFailures /\ failures' = failures + 1
    /\ \E i \in DOMAIN lists :
          /\ FirstIn("recorded", i) \/ (i = 1 /\ lists[i].phase = "issued")
          /\ lists' = Without(i) /\ FreeSlices(lists[i])
    /\ UNCHANGED <<fresh, freeSlices, sliceCount, physSlice, apiVars, csVars, recording,
                   singleUse, defVars>>

GpuExecutes ==
    /\ \E i \in DOMAIN lists :
          /\ FirstIn("issued", i)
          /\ lists' = [lists EXCEPT ![i].phase = "executed", ![i].uses = {}]
    /\ UNCHANGED <<poolVars, physSlice, apiVars, csVars, recording, failures, singleUse, defVars>>

(* reset drops the uses of the resources first, then returns the slices.    *)
ReleaseResources ==
    /\ lists # <<>> /\ lists[1].phase = "executed" /\ lists[1].tracked
    /\ lists' = [lists EXCEPT ![1].tracked = FALSE]
    /\ UNCHANGED <<poolVars, physSlice, apiVars, csVars, recording, failures, singleUse, defVars>>

RecycleList ==
    /\ lists # <<>> /\ lists[1].phase = "executed" /\ ~lists[1].tracked
    /\ FreeSlices(lists[1]) /\ lists' = Tail(lists)
    /\ UNCHANGED <<fresh, freeSlices, sliceCount, physSlice, apiVars, csVars, recording,
                   failures, singleUse, defVars>>
-----------------------------------------------------------------------------
Next ==
    \/ MapDiscard \/ MapWait \/ MapReturns \/ Unmap \/ DrawOrFlush
    \/ ExecuteCommandList \/ ReleaseCommandList
    \/ DeferDiscard \/ DeferUse \/ FinishCommandList
    \/ CsUse \/ CsRename \/ CsRenew \/ CsFlush
    \/ Issue \/ ListFails \/ GpuExecutes \/ ReleaseResources \/ RecycleList

Spec == Init /\ [][Next]_vars
-----------------------------------------------------------------------------
(* Types. The buffer's pools, commands and lists hold slices only.           *)
TypeOK ==
    /\ fresh \subseteq Slices /\ freeSlices \subseteq Slices /\ nextSlices \subseteq Slices
    /\ sliceCount \in 1 .. MaxCount
    /\ physSlice \in Slices /\ mapped \in Slices
    /\ access \in {"none", "discard", "write", "waiting"}
    /\ foreign \in BOOLEAN /\ singleUse \in BOOLEAN /\ failures \in 0 .. MaxFailures
    /\ csIsBusy \in BOOLEAN
    /\ cs \in Seq(Command) /\ deferred \in Seq(Command) /\ finished \in Seq(Command)
    /\ recording \in CmdList /\ lists \in Seq(CmdList)

(* The places a slice can be in, from the pools through the stream to the    *)
(* lists that will return it.                                               *)
Freed == UNION {lists[i].frees : i \in DOMAIN lists}

Holder == <<fresh, freeSlices, nextSlices, Pending(deferred), Pending(finished),
            Pending(cs), {physSlice}, recording.frees, Freed>>

Disjoint(sets) == \A i, j \in DOMAIN sets : i # j => sets[i] \cap sets[j] = {}

RenamesOnce(commands) ==
    \A i, j \in Renames(commands) : commands[i].slice = commands[j].slice => i = j

(* Every slice is in one place: it is never in two pools, handed out twice,  *)
(* renamed to twice, or returned by two command lists.  allocSlice is called *)
(* by three threads, rename by the dxvk-cs thread, freeSlice by the finish   *)
(* thread and, when a submission fails, by the submit thread.               *)
SlicesExclusive ==
    /\ Disjoint(Holder)
    /\ RenamesOnce(deferred) /\ RenamesOnce(finished) /\ RenamesOnce(cs)
    /\ Disjoint([i \in DOMAIN lists |-> lists[i].frees])

(* dxvk_buffer.h:272: freeSlice is "called automatically when the slice is   *)
(* no longer needed by the GPU": what the pools hold, or another context     *)
(* has been given, is accessed by no command that is recorded or runs.      *)
Busy == recording.uses \cup UNION {lists[i].uses : i \in DOMAIN lists}

Handed == freeSlices \cup nextSlices \cup Pending(deferred)
              \cup Pending(finished) \cup Pending(cs)

FreeSlicesIdle == Handed \cap Busy = {}

(* As long as no submission or fence wait fails, nobody is given a slice     *)
(* that the GPU still needs.                                                *)
SafeReuse == failures = 0 => FreeSlicesIdle

(* The slice that commands emitted next will access.                         *)
Newest ==
    IF Replaces(cs) = {} THEN physSlice
    ELSE LET last == CHOOSE i \in Replaces(cs) : \A j \in Replaces(cs) : j <= i
         IN  IF cs[last].op = "rename" THEN cs[last].slice ELSE physSlice

(* The pointer that MapBuffer and LockBuffer remember without asking the     *)
(* dxvk-cs thread is the memory that the next draw reads, unless a deferred  *)
(* context's list has renamed the buffer since the last discard.            *)
MappedIsNewest == ~foreign => mapped = Newest

(* An application that was given the buffer by a discard or after a wait has *)
(* it for itself: no command still to be executed, recorded or run by the    *)
(* GPU accesses that memory.                                                *)
MapIsPrivate ==
    (access \in {"discard", "write"} /\ failures = 0) => mapped \notin Busy

(* A map that waits, waits for work that has been submitted: what keeps the  *)
(* buffer in use never is the list being recorded, which nobody would send.  *)
WaitsForSubmitted == (access = "waiting" /\ cs = <<>>) => ~recording.tracked
=============================================================================
