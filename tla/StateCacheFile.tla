---------------------------- MODULE StateCacheFile ----------------------------
(* The file of the state cache (src/dxvk/dxvk_state_cache.cpp): what a session *)
(* reads from it, when it is written anew, and the dxvk-writer thread that   *)
(* appends to it. The process can be killed at any time, in the middle of an *)
(* entry too, and a write can fail. StateCache adds the threads that fill the *)
(* writer's queue, and the next-state relation.                              *)
EXTENDS Naturals, Sequences, FiniteSets, Functions

CONSTANTS
    Pipelines,     \* pipelines with their state, as an entry describes them
    NoPipeline,
    MaxFaults      \* bound: kills and failed writes

ASSUME FileAssumption ==
    /\ NoPipeline \notin Pipelines
    /\ MaxFaults \in Nat

VARIABLES
    version,       \* what the header of the file says
    file,          \* the entries behind it, two cells each
    session,       \* how far the process has come
    faults,
    entries,       \* m_entries: what this session has read
    numInvalid,    \* numInvalidEntries
    writerQueue,   \* m_writerQueue
    writing,       \* the entry that the writer has taken
    writerPc,
    opened,        \* whether the writer has opened its stream
    stopThreads    \* m_stopThreads

fileVars == <<version, file>>
sessionVars == <<session, faults>>
readVars == <<entries, numInvalid>>
writerVars == <<writerQueue, writing, writerPc, opened>>

(* A header that is missing or damaged, that is of a version or entry size   *)
(* that cannot be read, of versions 2 to 4, or of the current version.       *)
Versions == {"none", "unsupported", "old", "current"}
Sessions == {"off", "reading", "rewriting", "running", "destroying", "stopping"}
WriterStates == {"loop", "lock", "asleep", "write", "ended"}

(* An entry spans two cells, so that half of one can be written. Its hash is *)
(* right only if it is read whole.                                           *)
Cells == [entry : Pipelines, part : {1, 2}]
Parts(p) == <<[entry |-> p, part |-> 1], [entry |-> p, part |-> 2]>>

(* The file is read one entry size at a time. Half an entry at the end fails *)
(* the read like the end of the file does.                                   *)
EntryIds(f) == 1 .. Len(f) \div 2
Whole(f, i, p) == f[2 * i - 1] = Parts(p)[1] /\ f[2 * i] = Parts(p)[2]
Valid(f, i) == \E p \in Pipelines : Whole(f, i, p)
IdsOf(f, p) == {i \in EntryIds(f) : Whole(f, i, p)}

(* A file as sessions of any version of DXVK leave it; none records a        *)
(* pipeline twice.                                                           *)
InitFile ==
    /\ version \in Versions
    /\ file \in {<<>>} \cup {Parts(p) : p \in Pipelines}
                \cup {Parts(p) \o Parts(q) : p, q \in Pipelines}
    /\ version = "none" => file = <<>>
    /\ Len(file) = 4 => file[1] # file[3]
    /\ session = "off" /\ faults = 0
    /\ entries = <<>> /\ numInvalid = 0 /\ writerQueue = <<>> /\ writing = NoPipeline
    /\ writerPc = "ended" /\ opened = FALSE /\ stopThreads = FALSE

-------------------------------------------------------------------------------
(* The constructor                                                           *)

(* readCacheFile: without a header that it understands nothing is read.      *)
Truncate == session' = "rewriting" /\ version' = "none" /\ file' = <<>>

OpenFile ==
    /\ session = "off"
    /\ IF version \in {"old", "current"}
       THEN session' = "reading" /\ UNCHANGED fileVars
       ELSE Truncate
    /\ UNCHANGED <<faults, readVars, writerVars, stopThreads>>

ReadPosition == Len(entries) + numInvalid + 1

ReadCacheEntry ==
    /\ session = "reading" /\ ReadPosition \in EntryIds(file)
    /\ IF Valid(file, ReadPosition)
       THEN entries' = Append(entries, file[2 * ReadPosition].entry) /\ UNCHANGED numInvalid
       ELSE numInvalid' = numInvalid + 1 /\ UNCHANGED entries
    /\ UNCHANGED <<fileVars, sessionVars, writerVars, stopThreads>>

(* The read that fails at the end of the file, after half an entry too, is   *)
(* not counted. A file that cannot be appended to is truncated, and has no   *)
(* header until the stream is flushed.                                       *)
FinishReading ==
    /\ session = "reading" /\ ReadPosition \notin EntryIds(file)
    /\ IF version = "current" /\ numInvalid = 0
       THEN session' = "running" /\ UNCHANGED fileVars
       ELSE Truncate
    /\ numInvalid' = 0
    /\ UNCHANGED <<faults, entries, writerQueue, writing, opened, stopThreads>>

(* The entry that the constructor writes next.                               *)
NextEntry == entries[Len(file) \div 2 + 1]

RewriteEntry ==
    /\ session = "rewriting" /\ Len(file) < 2 * Len(entries)
    /\ file' = file \o Parts(NextEntry) /\ version' = "current"
    /\ UNCHANGED <<sessionVars, readVars, writerVars, stopThreads>>

FinishRewrite ==
    /\ session = "rewriting" /\ Len(file) = 2 * Len(entries)
    /\ version' = "current"
    /\ session' = "running"
    /\ UNCHANGED <<file, faults, readVars, writerQueue, writing, opened, stopThreads>>

-------------------------------------------------------------------------------
(* Recording pipelines                                                       *)

NotifyNobody == UNCHANGED writerPc
NotifyWriter == writerPc' = IF writerPc = "asleep" THEN "lock" ELSE writerPc

QueueForWriter(p) ==
    /\ writerQueue' = Append(writerQueue, p) /\ NotifyWriter
    /\ UNCHANGED <<writing, opened>>

(* addGraphicsPipeline and addComputePipeline.                               *)
AddPipeline(p) ==
    IF p \in Range(entries)
    THEN UNCHANGED writerVars
    ELSE QueueForWriter(p)

(* writerFunc tests the flag without the lock ...                            *)
WriterLoop ==
    /\ writerPc = "loop"
    /\ writerPc' = IF stopThreads THEN "ended" ELSE "lock"
    /\ UNCHANGED <<fileVars, sessionVars, readVars, writerQueue, writing, opened,
                   stopThreads>>

(* ... and takes an entry or waits with it. It ends when it is stopped with  *)
(* nothing to write, or at its next turn.                                    *)
WriterTake ==
    /\ writerPc = "lock"
    /\ IF writerQueue # <<>>
       THEN /\ writing' = Head(writerQueue) /\ writerQueue' = Tail(writerQueue)
            /\ writerPc' = "write"
       ELSE /\ writerPc' = IF stopThreads THEN "ended" ELSE "asleep"
            /\ UNCHANGED <<writerQueue, writing>>
    /\ UNCHANGED <<fileVars, sessionVars, readVars, opened, stopThreads>>

(* writeCacheEntry, which flushes. The writer opens its stream when it finds *)
(* it failed; one that was never opened fails with the first write only. A   *)
(* stream that is opened again writes behind what the failed one has left.   *)
WriteEntry ==
    /\ writerPc = "write"
    /\ opened' = TRUE
    /\ \/ ~opened /\ UNCHANGED <<file, faults>>
       \/ opened /\ file' = file \o Parts(writing) /\ UNCHANGED faults
       \/ /\ opened /\ faults < MaxFaults /\ faults' = faults + 1
          /\ file' \in {file, Append(file, Parts(writing)[1])}
    /\ writing' = NoPipeline
    /\ writerPc' = "loop"
    /\ UNCHANGED <<version, session, readVars, writerQueue, stopThreads>>

-------------------------------------------------------------------------------
(* The end of a session                                                      *)

(* ~DxvkStateCache wakes all threads and joins them.                         *)
StopWriterSilently == stopThreads' = TRUE /\ NotifyNobody
StopWriter == stopThreads' = TRUE /\ NotifyWriter

(* The process is killed; half of an entry that is being written may be in   *)
(* the file.                                                                 *)
Kill ==
    /\ session # "off" /\ faults < MaxFaults
    /\ faults' = faults + 1
    /\ \/ UNCHANGED fileVars
       \/ /\ writerPc = "write" /\ opened
          /\ file' = Append(file, Parts(writing)[1]) /\ UNCHANGED version
       \/ /\ session = "rewriting" /\ Len(file) < 2 * Len(entries)
          /\ file' = Append(file, Parts(NextEntry)[1]) /\ version' = "current"

(* What is left of a session is the file.                                    *)
EndSession ==
    /\ session' = "off" /\ entries' = <<>> /\ numInvalid' = 0
    /\ writerQueue' = <<>> /\ writing' = NoPipeline /\ writerPc' = "ended"
    /\ opened' = FALSE /\ stopThreads' = FALSE

-------------------------------------------------------------------------------
FileTypes ==
    /\ version \in Versions /\ file \in Seq(Cells)
    /\ session \in Sessions /\ faults \in Nat
    /\ entries \in Seq(Pipelines) /\ numInvalid \in Nat
    /\ writerQueue \in Seq(Pipelines)
    /\ writing \in Pipelines \cup {NoPipeline}
    /\ writerPc \in WriterStates /\ opened \in BOOLEAN /\ stopThreads \in BOOLEAN
===============================================================================
