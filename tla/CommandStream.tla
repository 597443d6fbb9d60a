---------------------------- MODULE CommandStream ----------------------------
(***************************************************************************)
(* The command stream between a D3D context and the dxvk-cs thread          *)
(* (dxvk_cs.cpp) with the parts of the D3D9 device and the D3D11 contexts   *)
(* that feed it.  The application's thread records commands into a chunk,   *)
(* dispatches full chunks, flushes, synchronizes and executes command lists *)
(* that a deferred context records on a thread of its own.  Chunks are      *)
(* reference counted and return to a pool when the last reference goes.     *)
(*                                                                          *)
(* A call of the application is a program of steps, kept in "todo": each    *)
(* step is one critical section of DxvkCsThread::m_mutex, one of the pool's *)
(* spinlock, or an access to state only that thread touches.                *)
(***************************************************************************)
EXTENDS Integers, Sequences, FiniteSets, SequencesExt

CONSTANTS
    Chunks,         \* chunk objects that may be alive at once
    NoChunk,        \* an empty DxvkCsChunkRef
    ChunkSize,      \* commands that fit into a chunk (MaxBlockSize)
    MaxCmds,        \* bound: no command is begun once this many were recorded
    MaxExecs,       \* bound: command lists executed
    MaxDeferred,    \* bound: chunks held by the deferred context and its lists
    SingleUseModes  \* values d3d11.dcSingleUseMode may have

ASSUME StreamAssumption ==
    /\ NoChunk \notin Chunks
    /\ ChunkSize \in Nat \ {0} /\ MaxCmds \in Nat /\ MaxExecs \in Nat
    /\ MaxDeferred \in 1 .. Cardinality(Chunks) - 1
    /\ SingleUseModes \subseteq BOOLEAN

VARIABLES
    singleUse,      \* dcSingleUseMode
    alive,          \* chunks that have been created
    pool,           \* DxvkCsChunkPool::m_chunks
    cmds,           \* commands in each chunk
    single,         \* chunks flagged SingleUse
    refs,           \* reference count of each chunk
    csChunk,        \* m_csChunk of the immediate context
    csIsBusy,       \* m_csIsBusy
    todo,           \* what is left of the application's current call
    deferChunk,     \* m_csChunk of the deferred context
    deferList,      \* chunks of the list the deferred context records
    cmdList,        \* chunks of the finished D3D11CommandList, if there is one
    hasList,        \* whether there is one
    spent,          \* whether it has been executed
    nextChunk,      \* where EmitToCsThread is in it
    chunksQueued,   \* m_chunksQueued
    chunksPending,  \* m_chunksPending
    executing,      \* the chunk the dxvk-cs thread holds
    csPc,           \* where that thread is
    asleep,         \* {"add", "sync"}: condition variables with a sleeper
    recorded,       \* the context's command list has commands not submitted
    stopped,        \* m_stopped
    numCmds,        \* commands recorded so far
    numExecs        \* command lists executed so far

chunkVars == <<alive, pool, cmds, single, refs>>
deferVars == <<deferChunk, deferList>>
listVars  == <<cmdList, hasList, spent, nextChunk>>
csVars    == <<executing, csPc, recorded>>
boundVars == <<numCmds, numExecs>>
vars == <<singleUse, chunkVars, csChunk, csIsBusy, todo, deferVars, listVars,
          chunksQueued, chunksPending, csVars, asleep, stopped, boundVars>>

Flush == 0      \* the command that flushes the context; others are numbered
Fresh == -1     \* a command that a call has begun and will number as it is recorded

----------------------------------------------------------------------------
(* Programs: the calls of the application, and the mistakes they avoid *)

FlushProgram   == <<"emitFlush", "dispatch", "notBusy">>
SyncProgram    == <<"dispatch", "sync">>
ExecuteProgramUnordered == <<"maybeFlush", "list", "emit", "busy">>
ExecuteProgram == <<"dispatch", "maybeFlush", "list", "emit", "busy">>
DestroyProgram == <<"flush", "dispatch", "sync", "stop">>

----------------------------------------------------------------------------
(* Chunks *)

Content(c) == IF c = NoChunk THEN <<>> ELSE cmds[c]
NeverFull(c) == FALSE
Full(c) == Len(cmds[c]) >= ChunkSize

UnreferencedEarly(n) == n <= 1
Unreferenced(n) == n = 0

Occurrences(c, s) == Cardinality({i \in DOMAIN s : s[i] = c})

(* The counts once the references in s have been copied. *)
Retained(s) == [c \in Chunks |-> refs[c] + Occurrences(c, s)]

(* allocChunk and the first reference to the chunk, on top of the counts in
   "held": a chunk of the pool if there is one. *)
Alloc(c, isSingle, held) ==
    /\ IF pool # {} THEN c \in pool ELSE c \in Chunks \ alive
    /\ pool' = pool \ {c}
    /\ alive' = alive \cup {c}
    /\ refs' = [held EXCEPT ![c] = 1]
    /\ single' = IF isSingle THEN single \cup {c} ELSE single \ {c}

(* Drop the references in s: chunks nobody refers to are reset and pooled. *)
Release(s) ==
    LET left == [c \in Chunks |-> refs[c] - Occurrences(c, s)]
        free == {c \in Chunks : c \in Range(s) /\ Unreferenced(left[c])} IN
    /\ refs' = left
    /\ pool' = pool \cup free
    /\ cmds' = [c \in Chunks |-> IF c \in free THEN <<>> ELSE cmds[c]]

----------------------------------------------------------------------------
Init ==
    /\ singleUse \in SingleUseModes
    /\ \E c, d \in Chunks :
          /\ c # d
          /\ csChunk = c /\ deferChunk = d /\ alive = {c, d}
          /\ single = IF singleUse THEN {c, d} ELSE {c}
          /\ refs = [k \in Chunks |-> IF k \in {c, d} THEN 1 ELSE 0]
    /\ pool = {} /\ cmds = [c \in Chunks |-> <<>>]
    /\ csIsBusy = FALSE /\ todo = <<>> /\ deferList = <<>>
    /\ cmdList = <<>> /\ hasList = FALSE /\ spent = FALSE /\ nextChunk = 1
    /\ chunksQueued = <<>> /\ chunksPending = 0
    /\ executing = NoChunk /\ csPc = "lock" /\ asleep = {} /\ recorded = FALSE
    /\ stopped = FALSE /\ numCmds = 0 /\ numExecs = 0

----------------------------------------------------------------------------
(* The application's thread, which holds the device lock during a call *)

(* In single-use mode a list is executed at most once, as the option says. *)
Executable == hasList /\ ~(singleUse /\ spent) /\ numExecs < MaxExecs

Call ==
    /\ todo = <<>> /\ ~stopped
    /\ \/ /\ todo' = <<"emit">> /\ numCmds < MaxCmds
          /\ UNCHANGED <<spent, numExecs>>
       \/ /\ todo' \in {<<"flush">>, SyncProgram, DestroyProgram}
          /\ UNCHANGED <<spent, numExecs>>
       \/ /\ todo' = ExecuteProgram /\ Executable /\ numCmds < MaxCmds
          /\ spent' = TRUE /\ numExecs' = numExecs + 1
    /\ UNCHANGED <<singleUse, chunkVars, csChunk, csIsBusy, deferVars, cmdList, hasList,
                   nextChunk, chunksQueued, chunksPending, csVars, asleep, stopped,
                   numCmds>>

BusyNotMarked == UNCHANGED csIsBusy
MarkBusy == csIsBusy' = TRUE

(* EmitCsChunk moves m_csChunk to the thread's queue and wakes the thread. *)
DispatchCsChunk(rest) ==
    /\ chunksQueued' = Append(chunksQueued, csChunk)
    /\ chunksPending' = chunksPending + 1
    /\ asleep' = asleep \ {"add"}
    /\ MarkBusy
    /\ csChunk' = NoChunk
    /\ todo' = <<"alloc">> \o rest
    /\ UNCHANGED <<singleUse, chunkVars, deferVars, listVars, csVars, stopped, boundVars>>

AllocCsChunk ==
    /\ todo # <<>> /\ Head(todo) = "alloc"
    /\ \E c \in Chunks : Alloc(c, TRUE, refs) /\ csChunk' = c
    /\ todo' = Tail(todo)
    /\ UNCHANGED <<singleUse, cmds, csIsBusy, deferVars, listVars, chunksQueued,
                   chunksPending, csVars, asleep, stopped, boundVars>>

(* EmitCs: a command that does not fit goes into a new chunk. *)
EmitCs ==
    /\ todo # <<>> /\ Head(todo) \in {"emit", "emitFlush"}
    /\ IF Full(csChunk) THEN DispatchCsChunk(todo)
       ELSE /\ numCmds' = IF Head(todo) = "emit" THEN numCmds + 1 ELSE numCmds
            /\ cmds' = [cmds EXCEPT ![csChunk] = Append(@,
                           IF Head(todo) = "emit" THEN numCmds' ELSE Flush)]
            /\ todo' = Tail(todo)
            /\ UNCHANGED <<singleUse, alive, pool, single, refs, csChunk, csIsBusy,
                           deferVars, listVars, chunksQueued, chunksPending, csVars,
                           asleep, stopped, numExecs>>

FlushCsChunk ==
    /\ todo # <<>> /\ Head(todo) = "dispatch"
    /\ IF cmds[csChunk] # <<>> THEN DispatchCsChunk(Tail(todo))
       ELSE /\ todo' = Tail(todo)
            /\ UNCHANGED <<singleUse, chunkVars, csChunk, csIsBusy, deferVars,
                           listVars, chunksQueued, chunksPending, csVars, asleep,
                           stopped, boundVars>>

(* Flush, and FlushImplicit, which depends on time and may do nothing. *)
DeviceFlush ==
    /\ todo # <<>> /\ Head(todo) \in {"flush", "maybeFlush"}
    /\ \/ /\ csIsBusy \/ cmds[csChunk] # <<>>
          /\ todo' = FlushProgram \o Tail(todo)
       \/ /\ Head(todo) = "maybeFlush" \/ ~(csIsBusy \/ cmds[csChunk] # <<>>)
          /\ todo' = Tail(todo)
    /\ UNCHANGED <<singleUse, chunkVars, csChunk, csIsBusy, deferVars, listVars,
                   chunksQueued, chunksPending, csVars, asleep, stopped, boundVars>>

SetBusy ==
    /\ todo # <<>> /\ Head(todo) \in {"busy", "notBusy"}
    /\ csIsBusy' = (Head(todo) = "busy")
    /\ todo' = Tail(todo)
    /\ UNCHANGED <<singleUse, chunkVars, csChunk, deferVars, listVars, chunksQueued,
                   chunksPending, csVars, asleep, stopped, boundVars>>

NothingQueued == chunksQueued = <<>>
NothingPending == chunksPending = 0

(* SynchronizeCsThread: isBusy is read without the mutex; then synchronize
   blocks until its predicate holds. *)
Synchronize ==
    /\ todo # <<>> /\ Head(todo) \in {"sync", "wait"} /\ "sync" \notin asleep
    /\ \/ NothingPending /\ todo' = Tail(todo) /\ UNCHANGED asleep
       \/ ~NothingPending /\ Head(todo) = "sync"
             /\ todo' = <<"wait">> \o Tail(todo) /\ UNCHANGED asleep
       \/ ~NothingPending /\ Head(todo) = "wait"
             /\ asleep' = asleep \cup {"sync"} /\ UNCHANGED todo
    /\ UNCHANGED <<singleUse, chunkVars, csChunk, csIsBusy, deferVars, listVars,
                   chunksQueued, chunksPending, csVars, stopped, boundVars>>

(* EmitToCsThread dispatches the list's chunks one by one; the list keeps its
   own references. *)
ExecuteCommandList ==
    /\ todo # <<>> /\ Head(todo) = "list"
    /\ IF nextChunk <= Len(cmdList)
       THEN /\ refs' = Retained(<<cmdList[nextChunk]>>)
            /\ chunksQueued' = Append(chunksQueued, cmdList[nextChunk])
            /\ chunksPending' = chunksPending + 1
            /\ asleep' = asleep \ {"add"}
            /\ nextChunk' = nextChunk + 1
            /\ UNCHANGED todo
       ELSE /\ todo' = Tail(todo) /\ nextChunk' = 1
            /\ UNCHANGED <<refs, chunksQueued, chunksPending, asleep>>
    /\ UNCHANGED <<singleUse, alive, pool, cmds, single, csChunk, csIsBusy, deferVars,
                   cmdList, hasList, spent, csVars, stopped, boundVars>>

(* The application releases its command list. *)
ReleaseCommandList ==
    /\ todo = <<>> /\ hasList /\ ~stopped
    /\ Release(cmdList)
    /\ cmdList' = <<>> /\ hasList' = FALSE /\ spent' = FALSE
    /\ UNCHANGED <<nextChunk, singleUse, alive, single, csChunk, csIsBusy, todo, deferVars,
                   chunksQueued, chunksPending, csVars, asleep, stopped, boundVars>>

(* ~DxvkCsThread, then the join. *)
Stop ==
    /\ todo # <<>> /\ Head(todo) = "stop"
    /\ stopped' = TRUE
    /\ asleep' = asleep \ {"add"}
    /\ todo' = Tail(todo)
    /\ UNCHANGED <<singleUse, chunkVars, csChunk, csIsBusy, deferVars, listVars,
                   chunksQueued, chunksPending, csVars, boundVars>>

----------------------------------------------------------------------------
(* The deferred context, on a thread of its own *)

(* FlushCsChunk: a chunk with commands moves to the list and is replaced. *)
Flushed == IF cmds[deferChunk] = <<>> THEN deferList ELSE Append(deferList, deferChunk)

ReplaceDeferChunk(held) ==
    IF cmds[deferChunk] = <<>>
    THEN refs' = held /\ UNCHANGED <<alive, pool, single, deferChunk>>
    ELSE /\ Cardinality(Range(Flushed \o cmdList)) < MaxDeferred
         /\ \E c \in Chunks : Alloc(c, singleUse, held) /\ deferChunk' = c

DeferEmit ==
    /\ numCmds < MaxCmds /\ ~stopped
    /\ numCmds' = numCmds + 1
    /\ IF Full(deferChunk)
       THEN ReplaceDeferChunk(refs) /\ deferList' = Flushed
       ELSE UNCHANGED <<alive, pool, refs, single, deferVars>>
    /\ cmds' = [cmds EXCEPT ![deferChunk'] = Append(@, numCmds')]
    /\ UNCHANGED <<singleUse, csChunk, csIsBusy, todo, listVars, chunksQueued,
                   chunksPending, csVars, asleep, stopped, numExecs>>

(* FinishCommandList; the bound is one finished list at a time. *)
FinishCommandList ==
    /\ ~hasList /\ ~stopped
    /\ ReplaceDeferChunk(refs)
    /\ cmdList' = Flushed /\ deferList' = <<>>
    /\ hasList' = TRUE /\ spent' = FALSE
    /\ UNCHANGED <<nextChunk, singleUse, cmds, csChunk, csIsBusy, todo, chunksQueued,
                   chunksPending, csVars, asleep, stopped, boundVars>>

(* ExecuteCommandList on the deferred context: EmitToCommandList copies the
   references of the finished list behind what has been recorded. *)
EmitToCommandList ==
    /\ Executable /\ ~stopped
    /\ ReplaceDeferChunk(Retained(cmdList))
    /\ deferList' = Flushed \o cmdList
    /\ spent' = TRUE /\ numExecs' = numExecs + 1
    /\ UNCHANGED <<singleUse, cmds, csChunk, csIsBusy, todo, cmdList, hasList, nextChunk,
                   chunksQueued, chunksPending, csVars, asleep, stopped, numCmds>>

----------------------------------------------------------------------------
(* The dxvk-cs thread *)

(* The loop of threadFunc reads m_stopped after every turn; once set it stays. *)
NextTurn == csPc' = IF stopped THEN "stopped" ELSE "lock"

(* The rest of the critical section: take a chunk, or wait for one. *)
TakeChunk ==
    \/ /\ chunksQueued # <<>>
       /\ executing' = Head(chunksQueued) /\ chunksQueued' = Tail(chunksQueued)
       /\ csPc' = "exec"
    \/ /\ chunksQueued = <<>>
       /\ executing' = NoChunk
       /\ csPc' = IF stopped THEN "stopped" ELSE "wait"
       /\ UNCHANGED chunksQueued

NotifyNobody(left) == {}
NotifySync(left) == IF left = 0 THEN {"sync"} ELSE {}

(* A chunk is pending until its commands have run; then it is let go. *)
CsLock ==
    /\ csPc = "lock"
    /\ IF executing # NoChunk
       THEN /\ chunksPending' = chunksPending - 1
            /\ Release(<<executing>>)
       ELSE UNCHANGED <<chunksPending, refs, pool, cmds>>
    /\ TakeChunk
    /\ asleep' = (asleep \ (IF executing # NoChunk THEN NotifySync(chunksPending') ELSE {}))
                 \cup (IF csPc' = "wait" THEN {"add"} ELSE {})
    /\ UNCHANGED <<singleUse, alive, single, csChunk, csIsBusy, todo, deferVars,
                   listVars, recorded, stopped, boundVars>>

CsWake ==
    /\ csPc = "wait" /\ "add" \notin asleep
    /\ TakeChunk
    /\ asleep' = IF csPc' = "wait" THEN asleep \cup {"add"} ELSE asleep
    /\ UNCHANGED <<singleUse, chunkVars, csChunk, csIsBusy, todo, deferVars, listVars,
                   chunksPending, recorded, stopped, boundVars>>

(* executeAll: single-use chunks are emptied. flushCommandList submits what
   the context has recorded. *)
ExecuteAll ==
    /\ csPc = "exec"
    /\ recorded' = IF cmds[executing] = <<>> THEN recorded ELSE Last(cmds[executing]) # Flush
    /\ cmds' = IF executing \in single THEN [cmds EXCEPT ![executing] = <<>>] ELSE cmds
    /\ NextTurn
    /\ UNCHANGED <<singleUse, alive, pool, single, refs, csChunk, csIsBusy, todo,
                   deferVars, listVars, chunksQueued, chunksPending, executing, asleep,
                   stopped, boundVars>>

Terminated == csPc = "stopped" /\ UNCHANGED vars

AppStep == AllocCsChunk \/ EmitCs \/ FlushCsChunk \/ DeviceFlush \/ SetBusy
           \/ Synchronize \/ ExecuteCommandList \/ Stop
DeferStep == DeferEmit \/ FinishCommandList \/ EmitToCommandList
CsStep == CsLock \/ CsWake \/ ExecuteAll

Next == Call \/ AppStep \/ ReleaseCommandList \/ DeferStep \/ CsStep \/ Terminated

Spec == Init /\ [][Next]_vars

(* Both threads keep running once they have something to do. *)
FairSpec == Spec /\ WF_vars(AppStep) /\ WF_vars(CsStep)

----------------------------------------------------------------------------
(* Correctness *)

TypeOK ==
    /\ singleUse \in BOOLEAN /\ csIsBusy \in BOOLEAN /\ recorded \in BOOLEAN
    /\ hasList \in BOOLEAN /\ spent \in BOOLEAN /\ stopped \in BOOLEAN
    /\ alive \subseteq Chunks /\ pool \subseteq alive /\ single \subseteq alive
    /\ cmds \in [Chunks -> Seq(0 .. MaxCmds + 1)]
    /\ \A c \in Chunks : Len(cmds[c]) <= ChunkSize
    /\ refs \in [Chunks -> Nat]
    /\ csChunk \in Chunks \cup {NoChunk} /\ deferChunk \in Chunks
    /\ executing \in Chunks \cup {NoChunk}
    /\ \A s \in {deferList, cmdList, chunksQueued} : s \in Seq(Chunks)
    /\ chunksPending \in Nat /\ nextChunk \in 1 .. Len(cmdList) + 1 /\ asleep \subseteq {"add", "sync"}
    /\ csPc \in {"lock", "wait", "exec", "stopped"}
    /\ (csChunk = NoChunk) = (todo # <<>> /\ Head(todo) = "alloc")

(* A chunk goes back to the pool exactly when the contexts, the command lists,
   the queue and the dxvk-cs thread have all let go of it. *)
ReferenceCounts ==
    \A c \in Chunks :
        /\ refs[c] = Occurrences(c, <<csChunk, deferChunk, executing>> \o deferList
                                    \o cmdList \o chunksQueued)
        /\ refs[c] = 0 <=> c \notin alive \ pool
        /\ c \in pool => cmds[c] = <<>>

(* Nobody records into a chunk the dxvk-cs thread may be executing. *)
RecordingPrivate ==
    LET shared == Range(chunksQueued \o deferList \o cmdList) \cup {executing} IN
    csChunk # deferChunk /\ {csChunk, deferChunk} \cap (shared \ {NoChunk}) = {}

(* No chunk is reused while anybody has it, and none is lost to the pool. *)
ChunksOwned == ReferenceCounts /\ RecordingPrivate

Commands(s) == FlattenSeq([i \in DOMAIN s |-> cmds[s[i]]])

(* What the call has yet to record or dispatch: these come in one order. *)
Asked ==
    (IF "emitFlush" \in Range(todo) THEN <<Flush>> ELSE <<>>)
    \o (IF "list" \in Range(todo)
        THEN Commands(SubSeq(cmdList, nextChunk, Len(cmdList))) ELSE <<>>)
    \o (IF "emit" \in Range(todo) THEN <<Fresh>> ELSE <<>>)

(* Commands the application has issued and the thread has not executed: those
   of the chunk it is executing, and those that wait. *)
Running == IF csPc = "exec" THEN Content(executing) ELSE <<>>
Waiting == Commands(chunksQueued) \o Content(csChunk)
Pipe    == Running \o Waiting

(* Each command that a call asks for is issued once and executed once, in the
   order of the calls, deferred ones where their list was executed. *)
InOrder == INSTANCE CommandPipe WITH asked <- Asked, waiting <- Waiting, running <- Running
CommandsInOrder == InOrder!Spec

(* SynchronizeCsThread returns only once every issued command has run. *)
SynchronizeDrains ==
    [][todo # <<>> /\ Head(todo) \in {"sync", "wait"} /\ todo' = Tail(todo)
          => Pipe = <<>>]_vars

(* A Flush that finds m_csIsBusy clear and an empty chunk has nothing to do:
   whatever was issued has a flush behind it. *)
FlushSkipsNothing ==
    todo = <<>> /\ ~csIsBusy /\ Content(csChunk) = <<>> =>
        IF Pipe = <<>> THEN ~recorded ELSE Last(Pipe) = Flush

(* The context is destroyed only when all its commands ran and were flushed. *)
StopDrained == stopped => chunksQueued = <<>> /\ executing = NoChunk /\ ~recorded

(* No command that was issued is left unsubmitted, by a flush or by the end. *)
NothingStranded == FlushSkipsNothing /\ StopDrained

(* Every call of the application returns. *)
CallsReturn == todo # <<>> ~> todo = <<>>
=============================================================================
