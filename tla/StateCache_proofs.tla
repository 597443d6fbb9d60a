--------------------------- MODULE StateCache_proofs ---------------------------
(* Proofs about StateCache for every set of pipelines, shaders and threads:  *)
(* types with the counter of busy workers; that no cached pipeline is        *)
(* forgotten once its shaders are registered; for any number of kills and    *)
(* failed writes, that no pipeline is recorded twice and what a session has  *)
(* read is in the file; and that no thread sleeps through a wake-up.         *)
EXTENDS StateCache, DataLemmas, FiniteSetTheorems

(* What the code never says in one place: the writer that writes has an      *)
(* entry; only the destructor of the state cache stops the threads; until    *)
(* the file has been read there are neither shaders nor work; the map holds  *)
(* every object under its own key; and only a worker that compiles has       *)
(* pipelines left to compile.                                                *)
WriterHasEntry == writerPc = "write" => writing \in Pipelines
StoppedLast == session # "stopping" => ~stopThreads
Fresh ==
    session \in {"off", "reading", "rewriting"} =>
        /\ shaderMap = NoObjects /\ creator = NobodyCreates
        /\ workerPc = NoThreads /\ todo = NoWork
KeysMatch == \A k \in Shaders : shaderMap[k] # NoShader => shaderMap[k][1] = k
IdleHasNoWork == \A w \in Workers : workerPc[w] # "compile" => todo[w] = {}

IInv ==
    /\ TypeOK /\ WriterHasEntry /\ StoppedLast /\ Fresh /\ KeysMatch /\ IdleHasNoWork
    /\ EntriesScheduled

-------------------------------------------------------------------------------
(* Entries and cells                                                         *)

(* An entry is two cells.                                                    *)
LEMMA PartsCells ==
  ASSUME NEW p \in Pipelines
  PROVE  /\ Parts(p) \in Seq(Cells) /\ Parts(p)[1] \in Cells
         /\ Len(Parts(p)) = 2
BY DEF Parts, Cells

(* A file that is appended to stays a file.                                  *)
LEMMA AppendedFile ==
  ASSUME NEW f \in Seq(Cells), NEW p \in Pipelines
  PROVE  f \o Parts(p) \in Seq(Cells) /\ Append(f, Parts(p)[1]) \in Seq(Cells)
<1>1. f \o Parts(p) \in Seq(Cells)
  BY PartsCells, ConcatProperties
<1> QED BY <1>1, PartsCells

(* What the constructor writes next is an entry that it has read.            *)
LEMMA NextEntryRead ==
  ASSUME file \in Seq(Cells), entries \in Seq(Pipelines), Len(file) < 2 * Len(entries)
  PROVE  NextEntry \in Pipelines
<1>1. Len(file) \div 2 + 1 \in 1 .. Len(entries)
  <2>1. Len(file) \in Nat /\ Len(entries) \in Nat
    OBVIOUS
  <2> QED BY <2>1
<1> QED BY <1>1 DEF NextEntry

(* What is read whole is an entry.                                           *)
LEMMA ValidEntry ==
  ASSUME NEW f \in Seq(Cells), NEW i \in EntryIds(f), Valid(f, i)
  PROVE  f[2 * i].entry \in Pipelines
BY DEF Valid, Whole, Parts

LEMMA InitialFile == InitFile => FileTypes
<1> SUFFICES ASSUME InitFile PROVE FileTypes
  OBVIOUS
<1>1. file \in Seq(Cells)
  <2>1. ASSUME NEW p \in Pipelines, NEW q \in Pipelines, file = Parts(p) \o Parts(q)
        PROVE  file \in Seq(Cells)
    BY <2>1, PartsCells, AppendedFile
  <2>2. ASSUME NEW p \in Pipelines, file = Parts(p) PROVE file \in Seq(Cells)
    BY <2>2, PartsCells
  <2>3. file = <<>> => file \in Seq(Cells)
    OBVIOUS
  <2> QED BY <2>1, <2>2, <2>3 DEF InitFile
<1>2. /\ version \in Versions /\ session = "off" /\ faults = 0
      /\ entries = <<>> /\ numInvalid = 0 /\ writerQueue = <<>> /\ writing = NoPipeline
      /\ writerPc = "ended" /\ opened = FALSE /\ stopThreads = FALSE
  BY DEF InitFile
<1>3. <<>> \in Seq(Pipelines)
  OBVIOUS
<1> QED BY <1>1, <1>2, <1>3 DEF FileTypes, Sessions, WriterStates

-------------------------------------------------------------------------------
(* The steps of the file keep its types.                                     *)

LEMMA TruncateTypes ==
  ASSUME Truncate
  PROVE  /\ version' \in Versions /\ file' \in Seq(Cells)
         /\ session' \in Sessions /\ session' = "rewriting"
<1>1. <<>> \in Seq(Cells)
  OBVIOUS
<1> QED BY <1>1 DEF Truncate, Versions, Sessions

LEMMA OpenFileTypes == FileTypes /\ OpenFile => FileTypes'
<1> SUFFICES ASSUME FileTypes, OpenFile PROVE FileTypes'
  OBVIOUS
<1>1. version' \in Versions /\ file' \in Seq(Cells) /\ session' \in Sessions
  <2>1. CASE Truncate
    BY <2>1, TruncateTypes
  <2>2. CASE session' = "reading" /\ UNCHANGED fileVars
    BY <2>2 DEF FileTypes, Sessions, fileVars
  <2> QED BY <2>1, <2>2 DEF OpenFile
<1> QED BY <1>1 DEF OpenFile, FileTypes, readVars, writerVars

LEMMA ReadEntryTypes == FileTypes /\ ReadCacheEntry => FileTypes'
<1> SUFFICES ASSUME FileTypes, ReadCacheEntry PROVE FileTypes'
  OBVIOUS
<1>1. entries' \in Seq(Pipelines) /\ numInvalid' \in Nat
  <2>1. CASE Valid(file, ReadPosition)
    <3>1. file[2 * ReadPosition].entry \in Pipelines
      BY <2>1, ValidEntry DEF FileTypes, ReadCacheEntry
    <3> QED BY <2>1, <3>1 DEF ReadCacheEntry, FileTypes
  <2>2. CASE ~Valid(file, ReadPosition)
    BY <2>2 DEF ReadCacheEntry, FileTypes
  <2> QED BY <2>1, <2>2
<1>2. UNCHANGED <<version, file, session, faults, writerQueue, writing, writerPc, opened,
                  stopThreads>>
  BY DEF ReadCacheEntry, fileVars, sessionVars, writerVars
<1> QED BY <1>1, <1>2 DEF FileTypes

LEMMA RewriteEntryTypes == FileTypes /\ RewriteEntry => FileTypes'
<1> SUFFICES ASSUME FileTypes, RewriteEntry PROVE FileTypes'
  OBVIOUS
<1>1. file' \in Seq(Cells) /\ version' \in Versions
  BY NextEntryRead, AppendedFile DEF FileTypes, RewriteEntry, Versions
<1>2. UNCHANGED <<session, faults, entries, numInvalid, writerQueue, writing, writerPc,
                  opened, stopThreads>>
  BY DEF RewriteEntry, sessionVars, readVars, writerVars
<1> QED BY <1>1, <1>2 DEF FileTypes

(* The session opens, or the file is written anew.                           *)
LEMMA FinishTypes ==
  ASSUME FileTypes, FinishReading \/ FinishRewrite, writerPc' \in WriterStates
  PROVE  FileTypes'
<1>1. version' \in Versions /\ file' \in Seq(Cells) /\ session' \in Sessions
  <2>1. CASE Truncate
    BY <2>1, TruncateTypes
  <2>2. CASE session' = "running" /\ UNCHANGED fileVars
    BY <2>2 DEF FileTypes, Sessions, fileVars
  <2>3. CASE FinishRewrite
    BY <2>3 DEF FinishRewrite, FileTypes, Versions, Sessions
  <2> QED BY <2>1, <2>2, <2>3 DEF FinishReading
<1>2. numInvalid' \in Nat
  BY DEF FinishReading, FinishRewrite, FileTypes, readVars
<1>3. UNCHANGED <<faults, entries, writerQueue, writing, opened, stopThreads>>
  BY DEF FinishReading, FinishRewrite, readVars
<1> QED BY <1>1, <1>2, <1>3 DEF FileTypes

LEMMA WriterTypes ==
  ASSUME FileTypes, WriterHasEntry, WriterLoop \/ WriterTake \/ WriteEntry
  PROVE  FileTypes' /\ WriterHasEntry'
<1>1. CASE WriterLoop
  <2>1. writerPc' \in {"ended", "lock"}
    BY <1>1 DEF WriterLoop
  <2> QED BY <1>1, <2>1 DEF WriterLoop, FileTypes, WriterHasEntry, WriterStates, fileVars,
                            sessionVars, readVars
<1>2. CASE WriterTake
  <2>1. UNCHANGED <<version, file, session, faults, entries, numInvalid, opened, stopThreads>>
    BY <1>2 DEF WriterTake, fileVars, sessionVars, readVars
  <2>2. CASE writerQueue # <<>>
    <3>1. Head(writerQueue) \in Pipelines /\ Tail(writerQueue) \in Seq(Pipelines)
      BY <2>2, PopRange DEF FileTypes
    <3> QED BY <1>2, <2>1, <2>2, <3>1 DEF WriterTake, FileTypes, WriterHasEntry, WriterStates
  <2>3. CASE writerQueue = <<>>
    <3>1. writerPc' \in {"ended", "asleep"} /\ UNCHANGED <<writerQueue, writing>>
      BY <1>2, <2>3 DEF WriterTake
    <3> QED BY <2>1, <3>1 DEF FileTypes, WriterHasEntry, WriterStates
  <2> QED BY <2>2, <2>3
<1>3. CASE WriteEntry
  <2>1. file' \in Seq(Cells)
    BY <1>3, AppendedFile DEF WriteEntry, WriterHasEntry, FileTypes
  <2>2. faults' \in Nat
    BY <1>3 DEF WriteEntry, FileTypes
  <2>3. /\ opened' = TRUE /\ writing' = NoPipeline /\ writerPc' = "loop"
        /\ UNCHANGED <<version, session, entries, numInvalid, writerQueue, stopThreads>>
    BY <1>3 DEF WriteEntry, readVars
  <2> QED BY <2>1, <2>2, <2>3 DEF FileTypes, WriterHasEntry, WriterStates
<1> QED BY <1>1, <1>2, <1>3

(* A process that ends leaves the file.                                      *)
LEMMA EndTypes ==
  ASSUME FileTypes, EndSession, version' \in Versions, file' \in Seq(Cells), faults' \in Nat
  PROVE  FileTypes'
<1>1. <<>> \in Seq(Pipelines)
  OBVIOUS
<1> QED BY <1>1 DEF EndSession, FileTypes, Sessions, WriterStates

LEMMA KillTypes ==
  ASSUME FileTypes, WriterHasEntry, Kill, EndSession
  PROVE  FileTypes'
<1>1. version' \in Versions /\ file' \in Seq(Cells)
  <2>1. CASE UNCHANGED fileVars
    BY <2>1 DEF fileVars, FileTypes
  <2>2. CASE writerPc = "write" /\ file' = Append(file, Parts(writing)[1]) /\ UNCHANGED version
    BY <2>2, AppendedFile DEF WriterHasEntry, FileTypes
  <2>3. CASE /\ Len(file) < 2 * Len(entries)
             /\ file' = Append(file, Parts(NextEntry)[1]) /\ version' = "current"
    BY <2>3, NextEntryRead, AppendedFile DEF FileTypes, Versions
  <2> QED BY <2>1, <2>2, <2>3 DEF Kill
<1>2. faults' \in Nat
  BY DEF Kill, FileTypes
<1> QED BY <1>1, <1>2, EndTypes

-------------------------------------------------------------------------------
(* Workers and shaders                                                       *)

BusyWorkers(pcs) == {w \in Workers : pcs[w] \notin {"wait", "asleep"}}

(* A woken worker is as idle as one that sleeps.                             *)
LEMMA Notified ==
  ASSUME workerPc \in [Workers -> WorkerStates]
  PROVE  /\ NotifyWorkers \in [Workers -> WorkerStates]
         /\ BusyWorkers(NotifyWorkers) = BusyWorkers(workerPc)
         /\ \A w \in Workers : NotifyWorkers[w] = "compile" <=> workerPc[w] = "compile"
BY DEF NotifyWorkers, BusyWorkers, WorkerStates

(* The counter follows the workers: one that moves among the busy or among   *)
(* the idle ones leaves their number, ...                                    *)
LEMMA SameBusy ==
  ASSUME BusyCount, BusyWorkers(workerPc') = BusyWorkers(workerPc), workerBusy' = workerBusy,
         session' \in {"running", "destroying"} => session \in {"running", "destroying"}
  PROVE  BusyCount'
BY DEF BusyCount, BusyWorkers

(* ... one that goes to sleep is one less, and one that finds work one more. *)
LEMMA BusyMoves ==
  ASSUME workerPc \in [Workers -> WorkerStates], NEW w \in Workers, NEW pc \in WorkerStates
  PROVE  LET pcs == [workerPc EXCEPT ![w] = pc] IN
         /\ workerPc[w] \in {"wait", "asleep"} <=> pc \in {"wait", "asleep"} =>
               BusyWorkers(pcs) = BusyWorkers(workerPc)
         /\ workerPc[w] \notin {"wait", "asleep"} /\ pc \in {"wait", "asleep"} =>
               Cardinality(BusyWorkers(pcs)) = Cardinality(BusyWorkers(workerPc)) - 1
         /\ workerPc[w] \in {"wait", "asleep"} /\ pc \notin {"wait", "asleep"} =>
               Cardinality(BusyWorkers(pcs)) = Cardinality(BusyWorkers(workerPc)) + 1
<1> DEFINE pcs == [workerPc EXCEPT ![w] = pc]
<1>1. IsFiniteSet(BusyWorkers(workerPc))
  BY CacheAssumption, FS_Subset DEF BusyWorkers
<1>2. pcs[w] = pc /\ \A v \in Workers \ {w} : pcs[v] = workerPc[v]
  OBVIOUS
<1> HIDE DEF pcs
<1>3. (workerPc[w] \in {"wait", "asleep"} <=> pc \in {"wait", "asleep"}) =>
         BusyWorkers(pcs) = BusyWorkers(workerPc)
  BY <1>2 DEF BusyWorkers
<1>4. ASSUME workerPc[w] \notin {"wait", "asleep"}, pc \in {"wait", "asleep"}
      PROVE  Cardinality(BusyWorkers(pcs)) = Cardinality(BusyWorkers(workerPc)) - 1
  <2>1. BusyWorkers(pcs) = BusyWorkers(workerPc) \ {w} /\ w \in BusyWorkers(workerPc)
    BY <1>2, <1>4 DEF BusyWorkers
  <2> QED BY <2>1, <1>1, FS_RemoveElement
<1>5. ASSUME workerPc[w] \in {"wait", "asleep"}, pc \notin {"wait", "asleep"}
      PROVE  Cardinality(BusyWorkers(pcs)) = Cardinality(BusyWorkers(workerPc)) + 1
  <2>1. BusyWorkers(pcs) = BusyWorkers(workerPc) \cup {w} /\ w \notin BusyWorkers(workerPc)
    BY <1>2, <1>5 DEF BusyWorkers
  <2> QED BY <2>1, <1>1, FS_AddElement
<1> QED BY <1>3, <1>4, <1>5 DEF pcs

(* What registerShader does to the map.                                      *)
LEMMA InsertedObject ==
  ASSUME NEW map \in [Shaders -> Objects \cup {NoShader}], NEW k \in Shaders, NEW object \in Objects
  PROVE  /\ Inserted(map, k, object) \in [Shaders -> Objects \cup {NoShader}]
         /\ Inserted(map, k, object)[k] \in {map[k], object}
         /\ \A l \in Shaders \ {k} : Inserted(map, k, object)[l] = map[l]
         /\ map[k] # NoShader => Inserted(map, k, object) = map
BY DEF Inserted

(* Nothing is registered in an empty map.                                    *)
LEMMA NothingRegistered == Registered(NoObjects) = {}
<1>1. SUFFICES ASSUME NEW p \in Registered(NoObjects) PROVE FALSE
  OBVIOUS
<1>2. p \in Pipelines /\ ShadersOf[p] \in SUBSET Shaders /\ ShadersOf[p] # {}
  <2>1. ShadersOf \in [Pipelines -> (SUBSET Shaders) \ {{}}] /\ p \in Pipelines
    BY CacheAssumption DEF Registered
  <2>2. ShadersOf[p] \in (SUBSET Shaders) \ {{}}
    BY <2>1
  <2> QED BY <2>1, <2>2
<1>3. PICK k \in Shaders : k \in ShadersOf[p]
  BY <1>2
<1> QED BY <1>3 DEF Registered, NoObjects

LEMMA RegisteredItem ==
  ASSUME NEW map \in [Shaders -> Objects \cup {NoShader}], NEW p \in Registered(map)
  PROVE  p \in Pipelines /\ ShadersOf[p] \subseteq Shaders /\ ItemOf(map, p) \subseteq Objects
BY CacheAssumption DEF Registered, ItemOf

(* An item leads back to the pipelines it was made of.                       *)
LEMMA ItemKeys ==
  ASSUME shaderMap \in [Shaders -> Objects \cup {NoShader}], KeysMatch,
         NEW p \in Registered(shaderMap)
  PROVE  KeyOf(ItemOf(shaderMap, p)) = ShadersOf[p]
BY RegisteredItem DEF KeysMatch, Registered, KeyOf, ItemOf

(* A finite set of entries can be put in order.                              *)
LEMMA OrderedIds ==
  ASSUME NEW ids, IsFiniteSet(ids)
  PROVE  /\ Cardinality(ids) \in Nat
         /\ Ordered(ids) \in [1 .. Cardinality(ids) -> ids]
         /\ \A i \in ids : \E j \in 1 .. Cardinality(ids) : Ordered(ids)[j] = i
<1>1. Cardinality(ids) \in Nat /\ ExistsBijection(1 .. Cardinality(ids), ids)
  BY FS_CardinalityType
<1>2. PICK s \in [1 .. Cardinality(ids) -> ids] : Range(s) = ids
  <2>1. PICK s \in Bijection(1 .. Cardinality(ids), ids) : TRUE
    BY <1>1 DEF ExistsBijection
  <2> QED BY <2>1 DEF Bijection, Surjection, Range
<1>3. Ordered(ids) \in [1 .. Cardinality(ids) -> ids] /\ Range(Ordered(ids)) = ids
  BY <1>2 DEF Ordered
<1> QED BY <1>1, <1>3 DEF Range

(* The items that a registration schedules: every completed entry is there.  *)
LEMMA ScheduledItems ==
  ASSUME NEW map \in [Shaders -> Objects \cup {NoShader}], NEW k \in Shaders,
         entries \in Seq(Pipelines)
  PROVE  /\ Scheduled(map, k) \in Seq(SUBSET Objects)
         /\ \A p \in Range(entries) \cap Registered(map) :
               k \in ShadersOf[p] => ItemOf(map, p) \in Range(Scheduled(map, k))
<1> DEFINE ids == Completed(map, k)
           order == Ordered(ids)
<1>1. IsFiniteSet(ids)
  <2>1. ids \in SUBSET (1 .. Len(entries)) /\ Len(entries) \in Nat
    BY DEF Completed
  <2>2. IsFiniteSet(1 .. Len(entries))
    BY <2>1, FS_Interval
  <2> QED BY <2>1, <2>2, FS_Subset
<1>2. /\ Cardinality(ids) \in Nat /\ order \in [1 .. Cardinality(ids) -> ids]
      /\ \A i \in ids : \E j \in 1 .. Cardinality(ids) : order[j] = i
  BY <1>1, OrderedIds
<1>3. \A i \in ids : ItemOf(map, entries[i]) \in SUBSET Objects
  BY RegisteredItem DEF Completed
<1>4. Scheduled(map, k) = [j \in 1 .. Cardinality(ids) |-> ItemOf(map, entries[order[j]])]
  BY <1>2 DEF Scheduled, ItemsOf
<1> HIDE DEF ids, order
<1>5. Scheduled(map, k) \in Seq(SUBSET Objects)
  <2>1. Scheduled(map, k) \in [1 .. Cardinality(ids) -> SUBSET Objects]
    BY <1>2, <1>3, <1>4
  <2> QED BY <1>2, <2>1
<1>6. ASSUME NEW p \in Range(entries) \cap Registered(map), k \in ShadersOf[p]
      PROVE  ItemOf(map, p) \in Range(Scheduled(map, k))
  <2>1. PICK i \in DOMAIN entries : entries[i] = p
    BY <1>6 DEF Range
  <2>2. i \in ids
    BY <1>6, <2>1 DEF ids, Completed
  <2>3. PICK j \in 1 .. Cardinality(ids) : order[j] = i
    BY <1>2, <2>2
  <2>4. j \in DOMAIN Scheduled(map, k) /\ Scheduled(map, k)[j] = ItemOf(map, p)
    BY <1>4, <2>1, <2>3
  <2> QED BY <2>4 DEF Range
<1> QED BY <1>5, <1>6

-------------------------------------------------------------------------------
(* Each action keeps the invariant. First the sessions.                      *)

(* A step that leaves what has been scheduled, and only adds pipelines,      *)
(* forgets nothing.                                                          *)
LEMMA ScheduledKept ==
  ASSUME EntriesScheduled, session' = "running" => session = "running",
         UNCHANGED <<entries, shaderMap, workerQueue, item, todo>>,
         session' = "running" => instances \subseteq instances'
  PROVE  EntriesScheduled'
BY DEF EntriesScheduled

LEMMA ReadStep == IInv /\ ReadCache => IInv'
<1> SUFFICES ASSUME IInv, ReadCache PROVE IInv'
  OBVIOUS
<1>1. /\ session \in {"off", "reading", "rewriting"} /\ session' \in {"reading", "rewriting"}
      /\ UNCHANGED <<writerPc, writing, stopThreads>>
  BY DEF ReadCache, OpenFile, ReadCacheEntry, RewriteEntry, Truncate, sessionVars, writerVars
<1>2. UNCHANGED <<modules, shaderMap, creator, workerQueue, workerBusy, workerPc, item, todo,
                  instances, drawing>>
  BY DEF ReadCache, shaderVars, workerVars
<1>3. FileTypes'
  BY OpenFileTypes, ReadEntryTypes, RewriteEntryTypes DEF ReadCache, IInv, TypeOK
<1>4. TypeOK'
  BY <1>1, <1>2, <1>3 DEF IInv, TypeOK, BusyCount, ShaderTypes, WorkerTypes
<1>5. WriterHasEntry' /\ StoppedLast' /\ Fresh' /\ KeysMatch' /\ IdleHasNoWork'
  BY <1>1, <1>2 DEF IInv, WriterHasEntry, StoppedLast, Fresh, KeysMatch, IdleHasNoWork
<1>6. EntriesScheduled'
  BY <1>1 DEF EntriesScheduled
<1> QED BY <1>4, <1>5, <1>6 DEF IInv

LEMMA OpenStep == IInv /\ OpenCache => IInv'
<1> SUFFICES ASSUME IInv, OpenCache PROVE IInv'
  OBVIOUS
<1>1. /\ session \in {"reading", "rewriting"} /\ session' \in {"rewriting", "running"}
      /\ UNCHANGED <<writing, stopThreads, entries>>
  BY DEF OpenCache, FinishReading, FinishRewrite, Truncate, readVars
<1>2. UNCHANGED <<modules, shaderMap, creator, workerQueue, item, todo, instances, drawing>>
  BY DEF OpenCache, shaderVars
<1>3. CASE session' = "running"
  <2>1. /\ workerBusy' = Cardinality(Workers) /\ writerPc' = "loop"
        /\ workerPc' = [w \in Workers |-> "loop"]
    BY <1>3 DEF OpenCache, StartThreads
  <2>2. FileTypes'
    BY <2>1, FinishTypes DEF OpenCache, IInv, TypeOK, WriterStates
  <2>3. BusyCount' /\ workerBusy' \in Int
    <3>1. {w \in Workers : workerPc'[w] \notin {"wait", "asleep"}} = Workers
      BY <2>1
    <3>2. Cardinality(Workers) \in Nat
      BY CacheAssumption, FS_CardinalityType
    <3> QED BY <2>1, <3>1, <3>2 DEF BusyCount
  <2>4. ShaderTypes' /\ WorkerTypes'
    BY <1>2, <2>1 DEF IInv, TypeOK, ShaderTypes, WorkerTypes, WorkerStates
  <2>5. TypeOK'
    BY <1>2, <2>2, <2>3, <2>4 DEF IInv, TypeOK
  <2>6. WriterHasEntry' /\ StoppedLast' /\ Fresh' /\ KeysMatch' /\ IdleHasNoWork'
    BY <1>1, <1>2, <1>3, <2>1
       DEF IInv, WriterHasEntry, StoppedLast, Fresh, KeysMatch, IdleHasNoWork, NoWork
  <2>7. EntriesScheduled'
    <3>1. Registered(shaderMap') = {}
      BY <1>1, <1>2, NothingRegistered DEF IInv, Fresh
    <3> QED BY <3>1 DEF EntriesScheduled
  <2> QED BY <2>5, <2>6, <2>7 DEF IInv
<1>4. CASE session' = "rewriting"
  <2>1. UNCHANGED <<workerBusy, workerPc, writerPc>>
    BY <1>4 DEF OpenCache, StartThreads
  <2>2. FileTypes'
    BY <2>1, FinishTypes DEF OpenCache, IInv, TypeOK, FileTypes
  <2>3. TypeOK'
    BY <1>2, <1>4, <2>1, <2>2 DEF IInv, TypeOK, BusyCount, ShaderTypes, WorkerTypes
  <2>4. WriterHasEntry' /\ StoppedLast' /\ Fresh' /\ KeysMatch' /\ IdleHasNoWork'
    BY <1>1, <1>2, <1>4, <2>1
       DEF IInv, WriterHasEntry, StoppedLast, Fresh, KeysMatch, IdleHasNoWork
  <2> QED BY <1>4, <2>3, <2>4 DEF IInv, EntriesScheduled
<1> QED BY <1>1, <1>3, <1>4

(* A process that ends leaves nothing but the file.                          *)
LEMMA EndStep ==
  ASSUME IInv, EndProcess, FileTypes'
  PROVE  IInv'
<1>1. /\ session' = "off" /\ writerPc' = "ended" /\ stopThreads' = FALSE
      /\ modules' = NoObjects /\ shaderMap' = NoObjects /\ creator' = NobodyCreates
      /\ workerQueue' = <<>> /\ workerBusy' = 0 /\ workerPc' = NoThreads
      /\ item' = NoWork /\ todo' = NoWork /\ instances' = {} /\ drawing' = NoPipeline
  BY DEF EndProcess, EndSession
<1>2. ShaderTypes'
  BY <1>1 DEF ShaderTypes, NoObjects, NobodyCreates, CreatorStates
<1>3. WorkerTypes'
  <2>1. <<>> \in Seq(SUBSET Objects)
    OBVIOUS
  <2> QED BY <1>1, <2>1 DEF WorkerTypes, NoThreads, NoWork, WorkerStates
<1>4. TypeOK'
  BY <1>1, <1>2, <1>3 DEF TypeOK, BusyCount
<1>5. WriterHasEntry' /\ StoppedLast' /\ Fresh' /\ KeysMatch' /\ IdleHasNoWork'
  BY <1>1 DEF WriterHasEntry, StoppedLast, Fresh, KeysMatch, IdleHasNoWork, NoObjects, NoWork
<1> QED BY <1>1, <1>4, <1>5 DEF IInv, EntriesScheduled

LEMMA DestroyStep == IInv /\ DestroyPipelines => IInv'
<1> SUFFICES ASSUME IInv, DestroyPipelines PROVE IInv'
  OBVIOUS
<1>1. /\ session = "running" /\ session' = "destroying" /\ instances' = {}
      /\ UNCHANGED <<version, file, faults, entries, numInvalid, writerQueue, writing,
                     writerPc, opened, stopThreads>>
  BY DEF DestroyPipelines, fileVars, readVars, writerVars
<1>2. UNCHANGED <<modules, shaderMap, creator, workerQueue, workerBusy, workerPc, item, todo,
                  drawing>>
  BY DEF DestroyPipelines, shaderVars, workerVars
<1>3. FileTypes'
  BY <1>1 DEF IInv, TypeOK, FileTypes, Sessions
<1>4. TypeOK'
  BY <1>1, <1>2, <1>3 DEF IInv, TypeOK, BusyCount, ShaderTypes, WorkerTypes
<1>5. WriterHasEntry' /\ StoppedLast' /\ Fresh' /\ KeysMatch' /\ IdleHasNoWork'
  BY <1>1, <1>2 DEF IInv, WriterHasEntry, StoppedLast, Fresh, KeysMatch, IdleHasNoWork
<1> QED BY <1>1, <1>4, <1>5 DEF IInv, EntriesScheduled

LEMMA StopStep == IInv /\ StopThreads => IInv'
<1> SUFFICES ASSUME IInv, StopThreads PROVE IInv'
  OBVIOUS
<1>1. /\ session' = "stopping" /\ stopThreads' = TRUE /\ workerPc' = NotifyWorkers
      /\ UNCHANGED <<version, file, faults, entries, numInvalid, writerQueue, writing, opened>>
  BY DEF StopThreads, StopWriter, fileVars, readVars
<1>2. UNCHANGED <<modules, shaderMap, creator, workerQueue, workerBusy, item, todo,
                  instances, drawing>>
  BY DEF StopThreads, shaderVars
<1>3. writerPc' \in WriterStates /\ (writerPc' = "write" => writerPc = "write")
  BY DEF StopThreads, StopWriter, NotifyWriter, IInv, TypeOK, FileTypes, WriterStates
<1>4. FileTypes'
  BY <1>1, <1>3 DEF IInv, TypeOK, FileTypes, Sessions
<1>5. ShaderTypes' /\ WorkerTypes'
  BY <1>1, <1>2, Notified DEF IInv, TypeOK, ShaderTypes, WorkerTypes
<1>6. TypeOK'
  BY <1>1, <1>2, <1>4, <1>5 DEF IInv, TypeOK, BusyCount
<1>7. WriterHasEntry' /\ StoppedLast' /\ Fresh' /\ KeysMatch'
  BY <1>1, <1>2, <1>3 DEF IInv, WriterHasEntry, StoppedLast, Fresh, KeysMatch
<1>8. IdleHasNoWork'
  BY <1>1, <1>2, Notified DEF IInv, IdleHasNoWork, TypeOK, WorkerTypes
<1> QED BY <1>1, <1>6, <1>7, <1>8 DEF IInv, EntriesScheduled

LEMMA ShutdownStep == IInv /\ (Shutdown \/ KillProcess) => IInv'
<1>1. ASSUME IInv, JoinThreads PROVE IInv'
  <2>1. FileTypes'
    BY <1>1, EndTypes DEF JoinThreads, EndProcess, IInv, TypeOK, FileTypes, fileVars
  <2> QED BY <1>1, <2>1, EndStep DEF JoinThreads
<1>2. ASSUME IInv, KillProcess PROVE IInv'
  <2>1. FileTypes'
    BY <1>2, KillTypes DEF KillProcess, EndProcess, IInv, TypeOK
  <2> QED BY <1>2, <2>1, EndStep DEF KillProcess
<1> QED BY <1>1, <1>2, DestroyStep, StopStep DEF Shutdown

-------------------------------------------------------------------------------
(* The threads that create shaders                                           *)

(* A step of these threads, of the workers and of the draws leaves the file  *)
(* and the session alone.                                                    *)
LEMMA FileKept ==
  ASSUME IInv, UNCHANGED <<fileVars, sessionVars, readVars, writerVars, stopThreads>>
  PROVE  /\ FileTypes' /\ WriterHasEntry' /\ StoppedLast'
         /\ UNCHANGED <<session, entries, stopThreads>>
<1>1. UNCHANGED <<version, file, session, faults, entries, numInvalid, writerQueue, writing,
                  writerPc, opened, stopThreads>>
  BY DEF fileVars, sessionVars, readVars, writerVars
<1> QED BY <1>1 DEF IInv, TypeOK, FileTypes, WriterHasEntry, StoppedLast

LEMMA CreatorFields ==
  ASSUME ShaderTypes, NEW c \in Creators, creator[c][1] # "idle"
  PROVE  creator[c][2] \in Shaders
BY DEF ShaderTypes, CreatorStates

LEMMA GetShaderStep ==
  ASSUME IInv, NEW c \in Creators, NEW k \in Shaders, GetShaderModule(c, k)
  PROVE  IInv'
<1>1. FileTypes' /\ WriterHasEntry' /\ StoppedLast' /\ UNCHANGED <<session, entries, stopThreads>>
  BY FileKept DEF GetShaderModule
<1>2. UNCHANGED <<modules, shaderMap, workerQueue, workerBusy, workerPc, item, todo,
                  instances, drawing>>
  BY DEF GetShaderModule, workerVars
<1>3. ShaderTypes'
  <2>1. creator' = [creator EXCEPT ![c] = <<"register", k>>]
    BY DEF GetShaderModule
  <2> QED BY <1>2, <2>1 DEF IInv, TypeOK, ShaderTypes, CreatorStates
<1>4. TypeOK'
  BY <1>1, <1>2, <1>3 DEF IInv, TypeOK, BusyCount, WorkerTypes
<1>5. Fresh' /\ KeysMatch' /\ IdleHasNoWork'
  BY <1>1, <1>2 DEF IInv, Fresh, KeysMatch, IdleHasNoWork, GetShaderModule, NobodyCreates
<1> QED BY <1>1, <1>2, <1>4, <1>5, ScheduledKept DEF IInv

LEMMA InsertStep ==
  ASSUME IInv, NEW c \in Creators, InsertModule(c)
  PROVE  IInv'
<1>1. FileTypes' /\ WriterHasEntry' /\ StoppedLast' /\ UNCHANGED <<session, entries, stopThreads>>
  BY FileKept DEF InsertModule
<1>2. UNCHANGED <<shaderMap, workerQueue, workerBusy, workerPc, item, todo, instances, drawing>>
  BY DEF InsertModule, workerVars
<1>3. ShaderTypes'
  <2>1. /\ creator[c][2] \in Shaders
        /\ modules' = Inserted(modules, creator[c][2], <<creator[c][2], c>>)
        /\ creator' = [creator EXCEPT ![c] = <<"idle", NoShader>>]
    BY CreatorFields DEF InsertModule, IInv, TypeOK
  <2>2. modules' \in [Shaders -> Objects \cup {NoShader}]
    BY <2>1, InsertedObject DEF IInv, TypeOK, ShaderTypes, Objects
  <2> QED BY <1>2, <2>1, <2>2 DEF IInv, TypeOK, ShaderTypes, CreatorStates
<1>4. TypeOK'
  BY <1>1, <1>2, <1>3 DEF IInv, TypeOK, BusyCount, WorkerTypes
<1>5. Fresh' /\ KeysMatch' /\ IdleHasNoWork'
  BY <1>1, <1>2 DEF IInv, Fresh, KeysMatch, IdleHasNoWork, InsertModule, NobodyCreates
<1> QED BY <1>1, <1>2, <1>4, <1>5, ScheduledKept DEF IInv

(* The step that matters: whoever registers the last shader of a cached      *)
(* pipeline finds it among the entries of that shader, and queues it.        *)
LEMMA RegisterStep ==
  ASSUME IInv, NEW c \in Creators, RegisterShader(c)
  PROVE  IInv'
<1> DEFINE k == creator[c][2]
           items == Scheduled(shaderMap', k)
<1>1. FileTypes' /\ WriterHasEntry' /\ StoppedLast' /\ UNCHANGED <<session, entries, stopThreads>>
  BY FileKept DEF RegisterShader
<1>2. /\ k \in Shaders /\ shaderMap' = Inserted(shaderMap, k, <<k, c>>)
      /\ workerQueue' = workerQueue \o items /\ workerPc' \in {NotifyWorkers, workerPc}
      /\ creator' = [creator EXCEPT ![c] = <<"insert", k>>]
      /\ UNCHANGED <<modules, workerBusy, item, todo, instances, drawing>>
  BY CreatorFields DEF RegisterShader, IInv, TypeOK
<1>3. /\ shaderMap' \in [Shaders -> Objects \cup {NoShader}]
      /\ shaderMap'[k] \in {shaderMap[k], <<k, c>>}
      /\ \A l \in Shaders \ {k} : shaderMap'[l] = shaderMap[l]
      /\ shaderMap[k] # NoShader => shaderMap' = shaderMap
  <2>1. <<k, c>> \in Objects /\ shaderMap \in [Shaders -> Objects \cup {NoShader}]
    BY <1>2 DEF IInv, TypeOK, ShaderTypes, Objects
  <2>2. ASSUME NEW object, object = <<k, c>>, object \in Objects
        PROVE  LET map == Inserted(shaderMap, k, object) IN
               /\ map \in [Shaders -> Objects \cup {NoShader}] /\ map[k] \in {shaderMap[k], object}
               /\ \A l \in Shaders \ {k} : map[l] = shaderMap[l]
               /\ shaderMap[k] # NoShader => map = shaderMap
    BY <1>2, <2>1, <2>2, InsertedObject
  <2> QED BY <1>2, <2>1, <2>2
<1>4. /\ items \in Seq(SUBSET Objects)
      /\ \A p \in Range(entries) \cap Registered(shaderMap') :
            k \in ShadersOf[p] => ItemOf(shaderMap', p) \in Range(items)
  BY <1>2, <1>3, ScheduledItems DEF IInv, TypeOK, FileTypes
<1> HIDE DEF items
<1>5. /\ workerQueue' \in Seq(SUBSET Objects)
      /\ Range(workerQueue) \subseteq Range(workerQueue')
      /\ Range(items) \subseteq Range(workerQueue')
  <2>1. workerQueue \in Seq(SUBSET Objects)
    BY DEF IInv, TypeOK, WorkerTypes
  <2> QED BY <1>2, <1>4, <2>1, RangeConcatenation
<1>6. ShaderTypes'
  BY <1>2, <1>3 DEF IInv, TypeOK, ShaderTypes, CreatorStates
<1>7. /\ workerPc' \in [Workers -> WorkerStates]
      /\ BusyWorkers(workerPc') = BusyWorkers(workerPc)
      /\ \A w \in Workers : workerPc'[w] = "compile" <=> workerPc[w] = "compile"
  BY <1>2, Notified DEF IInv, TypeOK, WorkerTypes
<1>8. BusyCount'
  BY <1>1, <1>2, <1>7, SameBusy DEF IInv, TypeOK
<1>9. TypeOK'
  BY <1>1, <1>2, <1>5, <1>6, <1>7, <1>8 DEF IInv, TypeOK, WorkerTypes
<1>10. Fresh'
  BY <1>1 DEF IInv, Fresh, RegisterShader, NobodyCreates
<1>11. KeysMatch'
  BY <1>2, <1>3 DEF IInv, KeysMatch
<1>12. IdleHasNoWork'
  BY <1>2, <1>7 DEF IInv, IdleHasNoWork
<1>13. EntriesScheduled'
  <2> SUFFICES ASSUME session = "running", NEW p \in Range(entries) \cap Registered(shaderMap')
               PROVE  \/ <<ItemOf(shaderMap', p), p>> \in instances
                      \/ ItemOf(shaderMap', p) \in Range(workerQueue')
                      \/ \E w \in Workers : item[w] = ItemOf(shaderMap', p) /\ p \in todo[w]
    BY <1>1, <1>2 DEF EntriesScheduled
  <2>1. CASE k \in ShadersOf[p]
    BY <1>4, <1>5, <2>1
  <2>2. CASE k \notin ShadersOf[p]
    <3>1. \A l \in ShadersOf[p] : l \in Shaders /\ shaderMap'[l] = shaderMap[l]
      BY <1>3, <2>2, RegisteredItem
    <3>2. p \in Registered(shaderMap) /\ ItemOf(shaderMap', p) = ItemOf(shaderMap, p)
      BY <3>1 DEF Registered, ItemOf
    <3> QED BY <1>5, <3>2 DEF IInv, EntriesScheduled
  <2> QED BY <2>1, <2>2
<1> QED BY <1>1, <1>9, <1>10, <1>11, <1>12, <1>13 DEF IInv

-------------------------------------------------------------------------------
(* The workers                                                               *)

LEMMA WorkerLoopStep ==
  ASSUME IInv, NEW w \in Workers, WorkerLoop(w)
  PROVE  IInv'
<1>1. FileTypes' /\ WriterHasEntry' /\ StoppedLast' /\ UNCHANGED <<session, entries, stopThreads>>
  BY FileKept DEF WorkerLoop
<1>2. UNCHANGED <<modules, shaderMap, creator, workerQueue, workerBusy, item, todo, instances,
                  drawing>>
  BY DEF WorkerLoop, shaderVars
<1>3. PICK pc \in {"ended", "lock"} : workerPc' = [workerPc EXCEPT ![w] = pc]
  BY DEF WorkerLoop
<1>4. workerPc[w] = "loop" /\ workerPc \in [Workers -> WorkerStates] /\ pc \in WorkerStates
  BY DEF WorkerLoop, IInv, TypeOK, WorkerTypes, WorkerStates
<1>5. BusyCount'
  BY <1>1, <1>2, <1>3, <1>4, BusyMoves, SameBusy DEF IInv, TypeOK
<1>6. TypeOK'
  BY <1>1, <1>2, <1>3, <1>4, <1>5 DEF IInv, TypeOK, ShaderTypes, WorkerTypes
<1>7. Fresh' /\ KeysMatch' /\ IdleHasNoWork'
  <2>1. session \notin {"off", "reading", "rewriting"}
    BY <1>4 DEF IInv, Fresh, NoThreads
  <2> QED BY <1>1, <1>2, <1>3, <1>4, <2>1 DEF IInv, Fresh, KeysMatch, IdleHasNoWork
<1> QED BY <1>1, <1>2, <1>6, <1>7, ScheduledKept DEF IInv

(* A worker takes an item with all its pipelines: an item that leaves the    *)
(* queue leaves it to somebody.                                              *)
LEMMA WorkerTakeStep ==
  ASSUME IInv, NEW w \in Workers, WorkerTake(w)
  PROVE  IInv'
<1>1. FileTypes' /\ WriterHasEntry' /\ StoppedLast' /\ UNCHANGED <<session, entries, stopThreads>>
  BY FileKept DEF WorkerTake
<1>2. UNCHANGED <<modules, shaderMap, creator, instances, drawing>>
  BY DEF WorkerTake, shaderVars
<1>3. /\ workerPc[w] \in {"lock", "wait"} /\ workerPc \in [Workers -> WorkerStates]
      /\ workerQueue \in Seq(SUBSET Objects) /\ workerBusy \in Int
      /\ item \in [Workers -> SUBSET Objects] /\ todo \in [Workers -> SUBSET Pipelines]
      /\ workerBusy' = BusyAfter(w) /\ entries \in Seq(Pipelines)
  BY DEF WorkerTake, IInv, TypeOK, FileTypes, WorkerTypes
<1>4. CASE workerQueue # <<>>
  <2> DEFINE objects == Head(workerQueue)
  <2>1. /\ item' = [item EXCEPT ![w] = objects]
        /\ todo' = [todo EXCEPT ![w] = EntriesOf(objects)]
        /\ workerQueue' = Tail(workerQueue)
        /\ workerPc' = [workerPc EXCEPT ![w] = "compile"]
    BY <1>4 DEF WorkerTake
  <2>2. /\ Tail(workerQueue) \in Seq(SUBSET Objects) /\ objects \in SUBSET Objects
        /\ Range(workerQueue) = Range(Tail(workerQueue)) \cup {objects}
    BY <1>3, <1>4, PopRange
  <2>3. EntriesOf(objects) \in SUBSET Pipelines
    BY <1>3, SeqRange DEF EntriesOf
  <2> HIDE DEF objects
  <2>4. BusyCount' /\ workerBusy' \in Int
    <3>1. CASE workerPc[w] = "lock"
      <4>1. workerBusy' = workerBusy
        BY <1>3, <1>4, <3>1 DEF BusyAfter
      <4> QED BY <1>1, <1>3, <2>1, <3>1, <4>1, BusyMoves, SameBusy
              DEF IInv, TypeOK, WorkerStates
    <3>2. CASE workerPc[w] = "wait"
      <4>1. workerBusy' = workerBusy + 1
        BY <1>3, <1>4, <3>2 DEF BusyAfter
      <4>2. Cardinality(BusyWorkers(workerPc')) = Cardinality(BusyWorkers(workerPc)) + 1
        BY <1>3, <2>1, <3>2, BusyMoves DEF WorkerStates
      <4> QED BY <1>1, <1>3, <4>1, <4>2 DEF IInv, TypeOK, BusyCount, BusyWorkers
    <3> QED BY <1>3, <3>1, <3>2
  <2>5. WorkerTypes'
    BY <1>3, <2>1, <2>2, <2>3 DEF WorkerTypes, WorkerStates
  <2>6. TypeOK'
    BY <1>1, <1>2, <2>4, <2>5 DEF IInv, TypeOK, ShaderTypes
  <2>7. Fresh' /\ KeysMatch' /\ IdleHasNoWork'
    <3>1. session \notin {"off", "reading", "rewriting"}
      BY <1>3 DEF IInv, Fresh, NoThreads
    <3>2. KeysMatch' /\ IdleHasNoWork'
      BY <1>2, <1>3, <2>1 DEF IInv, KeysMatch, IdleHasNoWork
    <3> QED BY <1>1, <3>1, <3>2 DEF Fresh
  <2>8. EntriesScheduled'
    <3> SUFFICES ASSUME session = "running", NEW p \in Range(entries) \cap Registered(shaderMap)
                 PROVE  \/ <<ItemOf(shaderMap, p), p>> \in instances
                        \/ ItemOf(shaderMap, p) \in Range(workerQueue')
                        \/ \E v \in Workers : /\ item'[v] = ItemOf(shaderMap, p)
                                              /\ p \in todo'[v]
      BY <1>1, <1>2 DEF EntriesScheduled
    <3>1. CASE ItemOf(shaderMap, p) = objects
      <4>1. p \in EntriesOf(objects)
        BY <3>1, ItemKeys DEF EntriesOf, Registered, IInv, TypeOK, ShaderTypes
      <4>2. item'[w] = objects /\ todo'[w] = EntriesOf(objects)
        BY <1>3, <2>1
      <4> QED BY <3>1, <4>1, <4>2
    <3>2. CASE ItemOf(shaderMap, p) # objects
      <4>1. \/ <<ItemOf(shaderMap, p), p>> \in instances
            \/ ItemOf(shaderMap, p) \in Range(workerQueue')
            \/ \E v \in Workers : item[v] = ItemOf(shaderMap, p) /\ p \in todo[v]
        BY <2>1, <2>2, <3>2 DEF IInv, EntriesScheduled
      <4>2. \A v \in Workers \ {w} : item'[v] = item[v] /\ todo'[v] = todo[v]
        BY <1>3, <2>1
      <4>3. todo[w] = {}
        BY <1>3 DEF IInv, IdleHasNoWork
      <4> QED BY <4>1, <4>2, <4>3
    <3> QED BY <3>1, <3>2
  <2> QED BY <1>1, <2>6, <2>7, <2>8 DEF IInv
<1>5. CASE workerQueue = <<>>
  <2>1. UNCHANGED <<workerQueue, item, todo>>
    BY <1>5 DEF WorkerTake
  <2>2. /\ workerPc' = [workerPc EXCEPT ![w] = IF stopThreads THEN "ended" ELSE "asleep"]
    BY <1>5 DEF WorkerTake
  <2>3. BusyCount' /\ workerBusy' \in Int
    <3>1. workerBusy' \in Int
      BY <1>3, <1>5 DEF BusyAfter
    <3>2. CASE session \notin {"running", "destroying"}
      BY <1>1, <3>1, <3>2 DEF BusyCount
    <3>3. CASE session \in {"running", "destroying"}
      <4>1. workerPc' = [workerPc EXCEPT ![w] = "asleep"]
        BY <2>2, <3>3 DEF IInv, StoppedLast
      <4>2. CASE workerPc[w] = "lock"
        <5>1. workerBusy' = workerBusy - 1
          BY <1>3, <1>5, <4>2 DEF BusyAfter
        <5>2. Cardinality(BusyWorkers(workerPc')) = Cardinality(BusyWorkers(workerPc)) - 1
          BY <1>3, <4>1, <4>2, BusyMoves DEF WorkerStates
        <5> QED BY <1>1, <3>1, <5>1, <5>2 DEF IInv, TypeOK, BusyCount, BusyWorkers
      <4>3. CASE workerPc[w] = "wait"
        <5>1. workerBusy' = workerBusy
          BY <1>3, <1>5, <4>3 DEF BusyAfter
        <5> QED BY <1>1, <1>3, <3>1, <4>1, <4>3, <5>1, BusyMoves, SameBusy
                DEF IInv, TypeOK, WorkerStates
      <4> QED BY <1>3, <4>2, <4>3
    <3> QED BY <3>2, <3>3
  <2>4. WorkerTypes'
    BY <1>3, <2>1, <2>2 DEF WorkerTypes, WorkerStates
  <2>5. TypeOK'
    BY <1>1, <1>2, <2>3, <2>4 DEF IInv, TypeOK, ShaderTypes
  <2>6. Fresh' /\ KeysMatch' /\ IdleHasNoWork'
    <3>1. session \notin {"off", "reading", "rewriting"}
      BY <1>3 DEF IInv, Fresh, NoThreads
    <3> QED BY <1>1, <1>2, <1>3, <2>1, <2>2, <3>1 DEF IInv, Fresh, KeysMatch, IdleHasNoWork
  <2> QED BY <1>1, <1>2, <2>1, <2>5, <2>6, ScheduledKept DEF IInv
<1> QED BY <1>4, <1>5

(* A pipeline leaves the list of a worker when it has been compiled, and an  *)
(* item is dropped when its list is empty.                                   *)
LEMMA CompileStep ==
  ASSUME IInv, NEW w \in Workers, CompilePipeline(w)
  PROVE  IInv'
<1>1. FileTypes' /\ WriterHasEntry' /\ StoppedLast' /\ UNCHANGED <<session, entries, stopThreads>>
  BY FileKept DEF CompilePipeline
<1>2. UNCHANGED <<modules, shaderMap, creator, workerQueue, workerBusy, drawing>>
  BY DEF CompilePipeline, shaderVars
<1>3. /\ workerPc[w] = "compile" /\ workerPc \in [Workers -> WorkerStates]
      /\ item \in [Workers -> SUBSET Objects] /\ todo \in [Workers -> SUBSET Pipelines]
      /\ instances \subseteq (SUBSET Objects) \X Pipelines
  BY DEF CompilePipeline, IInv, TypeOK, WorkerTypes
<1>4. PICK p \in todo[w] :
         /\ instances' = IF session = "running" THEN instances \cup {<<item[w], p>>} ELSE instances
         /\ todo' = [todo EXCEPT ![w] = @ \ {p}]
  BY DEF CompilePipeline
<1>5. /\ todo' \in [Workers -> SUBSET Pipelines] /\ todo'[w] = todo[w] \ {p}
      /\ \A v \in Workers \ {w} : todo'[v] = todo[v]
  BY <1>3, <1>4
<1>6. \/ todo'[w] = {} /\ workerPc' = [workerPc EXCEPT ![w] = "loop"]
                       /\ item' = [item EXCEPT ![w] = {}]
      \/ todo'[w] # {} /\ UNCHANGED <<workerPc, item>>
  BY DEF CompilePipeline
<1>7. item' \in [Workers -> SUBSET Objects] /\ \A v \in Workers \ {w} : item'[v] = item[v]
  BY <1>3, <1>6
<1>8. /\ workerPc' \in [Workers -> WorkerStates]
      /\ BusyWorkers(workerPc') = BusyWorkers(workerPc)
  <2>1. "loop" \in WorkerStates
    BY DEF WorkerStates
  <2>2. CASE workerPc' = [workerPc EXCEPT ![w] = "loop"]
    BY <1>3, <2>1, <2>2, BusyMoves
  <2>3. CASE UNCHANGED workerPc
    BY <1>3, <2>3
  <2> QED BY <1>6, <2>2, <2>3
<1>9. BusyCount'
  BY <1>1, <1>2, <1>8, SameBusy DEF IInv, TypeOK
<1>10. instances' \subseteq (SUBSET Objects) \X Pipelines
  BY <1>3, <1>4
<1>11. TypeOK'
  BY <1>1, <1>2, <1>5, <1>7, <1>8, <1>9, <1>10 DEF IInv, TypeOK, ShaderTypes, WorkerTypes
<1>12. Fresh' /\ KeysMatch' /\ IdleHasNoWork'
  <2>1. session \notin {"off", "reading", "rewriting"}
    BY <1>3 DEF IInv, Fresh, NoThreads
  <2>2. IdleHasNoWork'
    BY <1>3, <1>5, <1>6 DEF IInv, IdleHasNoWork
  <2> QED BY <1>1, <1>2, <2>1, <2>2 DEF IInv, Fresh, KeysMatch
<1>13. EntriesScheduled'
  <2> SUFFICES ASSUME session = "running", NEW q \in Range(entries) \cap Registered(shaderMap)
               PROVE  \/ <<ItemOf(shaderMap, q), q>> \in instances'
                      \/ ItemOf(shaderMap, q) \in Range(workerQueue)
                      \/ \E v \in Workers : item'[v] = ItemOf(shaderMap, q) /\ q \in todo'[v]
    BY <1>1, <1>2 DEF EntriesScheduled
  <2>1. \/ <<ItemOf(shaderMap, q), q>> \in instances
        \/ ItemOf(shaderMap, q) \in Range(workerQueue)
        \/ \E v \in Workers : item[v] = ItemOf(shaderMap, q) /\ q \in todo[v]
    BY DEF IInv, EntriesScheduled
  <2>2. ASSUME NEW v \in Workers, item[v] = ItemOf(shaderMap, q), q \in todo[v]
        PROVE  \/ <<ItemOf(shaderMap, q), q>> \in instances'
               \/ item'[v] = ItemOf(shaderMap, q) /\ q \in todo'[v]
    <3>1. CASE v # w
      BY <1>5, <1>7, <2>2, <3>1
    <3>2. CASE v = w /\ q = p
      BY <1>4, <2>2, <3>2
    <3>3. CASE v = w /\ q # p
      BY <1>5, <1>6, <2>2, <3>3
    <3> QED BY <3>1, <3>2, <3>3
  <2>3. instances \subseteq instances'
    BY <1>4
  <2> QED BY <2>1, <2>2, <2>3
<1> QED BY <1>1, <1>11, <1>12, <1>13 DEF IInv

-------------------------------------------------------------------------------
(* The writer and the draws                                                  *)

LEMMA WriterStepKeeps == IInv /\ WriterStep => IInv'
<1> SUFFICES ASSUME IInv, WriterStep PROVE IInv'
  OBVIOUS
<1>1. FileTypes' /\ WriterHasEntry'
  BY WriterTypes DEF WriterStep, IInv, TypeOK
<1>2. UNCHANGED <<session, entries, stopThreads>>
  BY DEF WriterStep, WriterLoop, WriterTake, WriteEntry, sessionVars, readVars
<1>3. UNCHANGED <<modules, shaderMap, creator, workerQueue, workerBusy, workerPc, item, todo,
                  instances, drawing>>
  BY DEF WriterStep, shaderVars, workerVars
<1>4. TypeOK'
  BY <1>1, <1>2, <1>3 DEF IInv, TypeOK, BusyCount, ShaderTypes, WorkerTypes
<1>5. StoppedLast' /\ Fresh' /\ KeysMatch' /\ IdleHasNoWork'
  BY <1>2, <1>3 DEF IInv, StoppedLast, Fresh, KeysMatch, IdleHasNoWork
<1> QED BY <1>1, <1>2, <1>3, <1>4, <1>5, ScheduledKept DEF IInv

LEMMA GetPipelineStep ==
  ASSUME IInv, NEW p \in Pipelines, GetPipelineHandle(p)
  PROVE  IInv'
<1>1. FileTypes' /\ WriterHasEntry' /\ StoppedLast' /\ UNCHANGED <<session, entries, stopThreads>>
  BY FileKept DEF GetPipelineHandle
<1>2. UNCHANGED <<modules, shaderMap, creator, workerQueue, workerBusy, workerPc, item, todo>>
  BY DEF GetPipelineHandle, shaderVars, workerVars
<1>3. instances' = instances \cup {<<BoundShaders(p), p>>} /\ drawing' = p
  BY DEF GetPipelineHandle
<1>4. BoundShaders(p) \subseteq Objects
  <2>1. ShadersOf[p] \in (SUBSET Shaders) \ {{}}
    BY CacheAssumption
  <2>2. \A k \in ShadersOf[p] : modules[k] \in Objects
    BY <2>1 DEF GetPipelineHandle, Created, IInv, TypeOK, ShaderTypes
  <2> QED BY <2>2 DEF BoundShaders
<1>5. TypeOK'
  BY <1>1, <1>2, <1>3, <1>4 DEF IInv, TypeOK, BusyCount, ShaderTypes, WorkerTypes
<1>6. Fresh' /\ KeysMatch' /\ IdleHasNoWork'
  BY <1>1, <1>2 DEF IInv, Fresh, KeysMatch, IdleHasNoWork
<1> QED BY <1>1, <1>2, <1>3, <1>5, <1>6, ScheduledKept DEF IInv

LEMMA RecordStep == IInv /\ WritePipelineStateToCache => IInv'
<1> SUFFICES ASSUME IInv, WritePipelineStateToCache PROVE IInv'
  OBVIOUS
<1>1. /\ drawing \in Pipelines /\ drawing' = NoPipeline
      /\ UNCHANGED <<version, file, session, faults, entries, numInvalid, stopThreads>>
      /\ UNCHANGED <<modules, shaderMap, creator, workerQueue, workerBusy, workerPc, item, todo,
                     instances>>
  BY DEF WritePipelineStateToCache, IInv, TypeOK, fileVars, sessionVars, readVars, shaderVars,
         workerVars
<1>2. /\ writerQueue' \in Seq(Pipelines) /\ UNCHANGED <<writing, opened>>
      /\ writerPc' \in WriterStates /\ (writerPc' = "write" => writerPc = "write")
  <2>1. CASE QueueForWriter(drawing)
    <3>1. writerQueue' \in Seq(Pipelines)
      BY <1>1, <2>1 DEF QueueForWriter, IInv, TypeOK, FileTypes
    <3>2. writerPc' \in WriterStates /\ (writerPc' = "write" => writerPc = "write")
      BY <2>1 DEF QueueForWriter, NotifyWriter, IInv, TypeOK, FileTypes, WriterStates
    <3> QED BY <2>1, <3>1, <3>2 DEF QueueForWriter
  <2>2. CASE UNCHANGED writerVars
    BY <2>2 DEF writerVars, IInv, TypeOK, FileTypes
  <2> QED BY <2>1, <2>2 DEF WritePipelineStateToCache, AddPipeline
<1>3. FileTypes' /\ WriterHasEntry' /\ StoppedLast'
  BY <1>1, <1>2 DEF IInv, TypeOK, FileTypes, WriterHasEntry, StoppedLast
<1>4. TypeOK'
  BY <1>1, <1>3 DEF IInv, TypeOK, BusyCount, ShaderTypes, WorkerTypes
<1>5. Fresh' /\ KeysMatch' /\ IdleHasNoWork'
  BY <1>1 DEF IInv, Fresh, KeysMatch, IdleHasNoWork
<1> QED BY <1>1, <1>3, <1>4, <1>5, ScheduledKept DEF IInv

-------------------------------------------------------------------------------
LEMMA Initially == Init => IInv
<1> SUFFICES ASSUME Init PROVE IInv
  OBVIOUS
<1>1. FileTypes /\ session = "off" /\ writerPc = "ended" /\ stopThreads = FALSE
  BY InitialFile DEF Init, InitFile
<1>2. /\ modules = NoObjects /\ shaderMap = NoObjects /\ creator = NobodyCreates
      /\ workerQueue = <<>> /\ workerBusy = 0 /\ workerPc = NoThreads
      /\ item = NoWork /\ todo = NoWork /\ instances = {} /\ drawing = NoPipeline
  BY DEF Init
<1>3. ShaderTypes
  BY <1>2 DEF ShaderTypes, NoObjects, NobodyCreates, CreatorStates
<1>4. WorkerTypes
  <2>1. <<>> \in Seq(SUBSET Objects)
    OBVIOUS
  <2> QED BY <1>2, <2>1 DEF WorkerTypes, NoThreads, NoWork, WorkerStates
<1>5. TypeOK
  BY <1>1, <1>2, <1>3, <1>4 DEF TypeOK, BusyCount
<1>6. WriterHasEntry /\ StoppedLast /\ Fresh /\ KeysMatch /\ IdleHasNoWork
  BY <1>1, <1>2 DEF WriterHasEntry, StoppedLast, Fresh, KeysMatch, IdleHasNoWork, NoObjects, NoWork
<1> QED BY <1>1, <1>5, <1>6 DEF IInv, EntriesScheduled

LEMMA StutterStep == IInv /\ UNCHANGED vars => IInv'
<1> SUFFICES ASSUME IInv, UNCHANGED vars PROVE IInv'
  OBVIOUS
<1>1. /\ UNCHANGED <<fileVars, sessionVars, readVars, writerVars, stopThreads>>
      /\ UNCHANGED <<modules, shaderMap, creator, workerQueue, workerBusy, workerPc, item, todo,
                     instances, drawing>>
  BY DEF vars, shaderVars, workerVars
<1>2. FileTypes' /\ WriterHasEntry' /\ StoppedLast' /\ UNCHANGED <<session, entries, stopThreads>>
  BY <1>1, FileKept
<1>3. TypeOK'
  BY <1>1, <1>2 DEF IInv, TypeOK, BusyCount, ShaderTypes, WorkerTypes
<1>4. Fresh' /\ KeysMatch' /\ IdleHasNoWork'
  BY <1>1, <1>2 DEF IInv, Fresh, KeysMatch, IdleHasNoWork
<1> QED BY <1>1, <1>2, <1>3, <1>4, ScheduledKept DEF IInv

LEMMA EachStep == IInv /\ [Next]_vars => IInv'
<1> SUFFICES ASSUME IInv, [Next]_vars PROVE IInv'
  OBVIOUS
<1>1. ASSUME NEW c \in Creators, CreatorStep(c) PROVE IInv'
  <2>1. ASSUME NEW k \in ShadersFrom[c], GetShaderModule(c, k) PROVE IInv'
    <3>1. k \in Shaders
      BY CacheAssumption
    <3> QED BY <2>1, <3>1, GetShaderStep
  <2> QED BY <1>1, <2>1, RegisterStep, InsertStep DEF CreatorStep
<1>2. ASSUME NEW w \in Workers, WorkerStep(w) PROVE IInv'
  BY <1>2, WorkerLoopStep, WorkerTakeStep, CompileStep DEF WorkerStep
<1>3. CASE DrawStep
  BY <1>3, GetPipelineStep, RecordStep DEF DrawStep
<1> QED BY <1>1, <1>2, <1>3, ReadStep, OpenStep, ShutdownStep, WriterStepKeeps, StutterStep
        DEF Next

(* IInv is inductive.                                                        *)
THEOREM InvariantHolds == Spec => []IInv
<1> QED BY Initially, EachStep, PTL DEF Spec

(* At every moment of every session, killed or not, all state of the cache   *)
(* has its type, and the counter of busy workers that the HUD reads is their *)
(* number.                                                                   *)
THEOREM TypeCorrect == Spec => []TypeOK
<1>1. IInv => TypeOK
  BY DEF IInv
<1> QED BY InvariantHolds, <1>1, PTL

(* Whatever threads register the shaders of a cached pipeline, in whatever   *)
(* order, and however many workers there are: once the last of them is       *)
(* registered, the pipeline is queued, being compiled or compiled.           *)
THEOREM EntriesAreScheduled == Spec => []EntriesScheduled
<1>1. IInv => EntriesScheduled
  BY DEF IInv
<1> QED BY InvariantHolds, <1>1, PTL

-------------------------------------------------------------------------------
(* The file                                                                  *)

Stored(p) == IdsOf(file, p) # {}

(* A draw never records a pipeline that the file has given, or that an       *)
(* earlier draw, or a worker, has created with the shaders of the session.   *)
Known(p) == p \in Range(entries) \/ (p \in Created /\ <<BoundShaders(p), p>> \in instances)

(* The file holds a pipeline once. What is on its way to the file, in the    *)
(* queue, with the writer or with the draw, is new, and in one place.        *)
Unique == \A p \in Pipelines : \A i, j \in IdsOf(file, p) : i = j
QueuedNew ==
    /\ IsInjective(writerQueue)
    /\ \A p \in Range(writerQueue) : ~Stored(p) /\ p # writing /\ p \notin Range(entries)
WritingNew == writing # NoPipeline => ~Stored(writing) /\ writing \notin Range(entries)
DrawingNew ==
    drawing # NoPipeline /\ drawing \notin Range(entries) =>
        ~Stored(drawing) /\ drawing \notin Range(writerQueue) /\ drawing # writing

(* While it runs a session knows what is in the file or on its way, and the  *)
(* file has what it knows from the file.                                     *)
AllKnown ==
    session = "running" =>
        \A p \in Pipelines :
            Stored(p) \/ p \in Range(writerQueue) \/ p \in {writing, drawing} => Known(p)
EntriesStored == session = "running" => \A p \in Range(entries) : Stored(p)

(* Before that nothing is on its way. The entries are those that have been   *)
(* read, each once, and a file that is written anew begins with them.        *)
NotStarted ==
    /\ session \in {"off", "reading", "rewriting"} =>
          writerQueue = <<>> /\ writing = NoPipeline /\ writerPc = "ended"
    /\ session = "off" => entries = <<>> /\ numInvalid = 0
    /\ drawing # NoPipeline => session = "running"
Reading ==
    session = "reading" =>
        /\ IsInjective(entries)
        /\ \A p \in Pipelines :
              p \in Range(entries) <=> \E i \in IdsOf(file, p) : i < ReadPosition
Rewriting ==
    session = "rewriting" =>
        /\ IsInjective(entries)
        /\ Len(file) = 2 * (Len(file) \div 2) /\ Len(file) <= 2 * Len(entries)
        /\ \A i \in EntryIds(file) : Whole(file, i, entries[i])

OnceInv ==
    /\ Unique /\ QueuedNew /\ WritingNew /\ DrawingNew /\ AllKnown /\ EntriesStored
    /\ NotStarted /\ Reading /\ Rewriting

-------------------------------------------------------------------------------
(* Entries in the file                                                       *)

LEMMA WholeCells ==
  ASSUME NEW f, NEW i, NEW p
  PROVE  /\ Whole(f, i, p) <=> /\ f[2 * i - 1] = [entry |-> p, part |-> 1]
                               /\ f[2 * i] = [entry |-> p, part |-> 2]
         /\ Whole(f, i, p) => f[2 * i].part = 2
BY DEF Whole, Parts

(* The cells of an entry name one pipeline.                                  *)
LEMMA OneEntry ==
  ASSUME NEW f, NEW i, NEW p, NEW q, Whole(f, i, p), Whole(f, i, q)
  PROVE  p = q
<1>1. f[2 * i] = [entry |-> p, part |-> 2] /\ f[2 * i] = [entry |-> q, part |-> 2]
  BY WholeCells
<1>2. [entry |-> p, part |-> 2].entry = p /\ [entry |-> q, part |-> 2].entry = q
  OBVIOUS
<1> QED BY <1>1, <1>2

LEMMA Ids ==
  ASSUME NEW f \in Seq(Cells), NEW i
  PROVE  i \in EntryIds(f) <=> i \in Nat /\ 1 <= i /\ 2 * i <= Len(f)
<1>1. Len(f) \in Nat
  OBVIOUS
<1> QED BY <1>1 DEF EntryIds

(* Half an entry is no entry, wherever it is written.                        *)
LEMMA HalfEntry ==
  ASSUME NEW f \in Seq(Cells), NEW p \in Pipelines, NEW q \in Pipelines
  PROVE  IdsOf(Append(f, Parts(p)[1]), q) = IdsOf(f, q)
<1> DEFINE g == Append(f, Parts(p)[1])
<1>1. /\ g \in Seq(Cells) /\ Len(g) = Len(f) + 1 /\ Len(f) \in Nat
      /\ \A n \in 1 .. Len(f) : g[n] = f[n]
      /\ g[Len(f) + 1] = [entry |-> p, part |-> 1]
  <2>1. Parts(p)[1] \in Cells /\ Parts(p)[1] = [entry |-> p, part |-> 1]
    BY PartsCells DEF Parts
  <2> QED BY <2>1, AppendProperties
<1> HIDE DEF g
<1>2. ASSUME NEW i \in Nat, 1 <= i, 2 * i <= Len(f)
      PROVE  Whole(g, i, q) <=> Whole(f, i, q)
  <2>1. 2 * i \in 1 .. Len(f) /\ 2 * i - 1 \in 1 .. Len(f)
    BY <1>1, <1>2
  <2> QED BY <1>1, <2>1 DEF Whole
<1>3. ASSUME NEW i \in Nat, 2 * i = Len(f) + 1 PROVE ~Whole(g, i, q)
  <2>1. g[2 * i].part = 1
    BY <1>1, <1>3
  <2>2. Whole(g, i, q) => g[2 * i].part = 2
    BY WholeCells
  <2> QED BY <2>1, <2>2
<1>4. ASSUME NEW i PROVE i \in IdsOf(g, q) <=> i \in IdsOf(f, q)
  <2>1. CASE i \in Nat /\ 1 <= i /\ 2 * i <= Len(f)
    BY <1>1, <1>2, <2>1, Ids DEF IdsOf
  <2>2. CASE i \in Nat /\ 2 * i = Len(f) + 1
    BY <1>1, <1>3, <2>2, Ids DEF IdsOf
  <2>3. CASE ~(i \in Nat /\ 1 <= i /\ 2 * i <= Len(f) + 1)
    BY <1>1, <2>3, Ids DEF IdsOf
  <2> QED BY <1>1, <2>1, <2>2, <2>3
<1> QED BY <1>4 DEF g, IdsOf

(* A whole entry leaves the others as they were, and is one itself if it is  *)
(* written behind whole entries.                                             *)
LEMMA WholeEntry ==
  ASSUME NEW f \in Seq(Cells), NEW p \in Pipelines
  PROVE  LET g == f \o Parts(p) IN
         /\ g \in Seq(Cells) /\ Len(g) = Len(f) + 2
         /\ \A i \in EntryIds(f) : i \in EntryIds(g)
         /\ \A i \in EntryIds(f), q \in Pipelines : Whole(g, i, q) <=> Whole(f, i, q)
         /\ \A q \in Pipelines : \A i \in IdsOf(g, q) :
               i \in IdsOf(f, q) \/ (q = p /\ 2 * i = Len(f) + 2)
         /\ \A i \in Nat : 2 * i = Len(f) + 2 => i \in IdsOf(g, p)
<1> DEFINE g == f \o Parts(p)
<1>1. /\ g \in Seq(Cells) /\ Len(g) = Len(f) + 2 /\ Len(f) \in Nat
      /\ \A n \in 1 .. Len(f) : g[n] = f[n]
      /\ g[Len(f) + 1] = [entry |-> p, part |-> 1]
      /\ g[Len(f) + 2] = [entry |-> p, part |-> 2]
  <2>1. Parts(p) \in Seq(Cells) /\ Len(Parts(p)) = 2 /\ Len(f) \in Nat
    BY PartsCells
  <2>2. Parts(p)[1] = [entry |-> p, part |-> 1] /\ Parts(p)[2] = [entry |-> p, part |-> 2]
    BY DEF Parts
  <2>3. /\ g \in Seq(Cells) /\ Len(g) = Len(f) + 2
        /\ \A n \in 1 .. Len(f) + 2 : g[n] = IF n <= Len(f) THEN f[n] ELSE Parts(p)[n - Len(f)]
    <3> DEFINE parts == Parts(p)
    <3>1. parts \in Seq(Cells) /\ Len(parts) = 2
      BY PartsCells
    <3> HIDE DEF parts
    <3>2. /\ f \o parts \in Seq(Cells) /\ Len(f \o parts) = Len(f) + Len(parts)
          /\ \A n \in 1 .. Len(f) + Len(parts) :
                (f \o parts)[n] = IF n <= Len(f) THEN f[n] ELSE parts[n - Len(f)]
      BY <3>1, ConcatProperties
    <3> QED BY <3>1, <3>2 DEF parts
  <2> HIDE DEF g
  <2>4. g[Len(f) + 1] = Parts(p)[1] /\ g[Len(f) + 2] = Parts(p)[2]
    <3>1. Len(f) + 1 - Len(f) = 1 /\ Len(f) + 2 - Len(f) = 2
      BY <2>1
    <3>2. Len(f) + 1 \in 1 .. Len(f) + 2 /\ Len(f) + 2 \in 1 .. Len(f) + 2
      BY <2>1
    <3> QED BY <2>1, <2>3, <3>1, <3>2
  <2> QED BY <2>1, <2>2, <2>3, <2>4
<1> HIDE DEF g
<1>2. ASSUME NEW i \in EntryIds(f), NEW q
      PROVE  i \in EntryIds(g) /\ (Whole(g, i, q) <=> Whole(f, i, q))
  <2>1. i \in Nat /\ 2 * i \in 1 .. Len(f) /\ 2 * i - 1 \in 1 .. Len(f)
    BY <1>1, Ids
  <2>2. i \in EntryIds(g)
    BY <1>1, <2>1, Ids
  <2> QED BY <1>1, <2>1, <2>2 DEF Whole
<1>3. ASSUME NEW i \in Nat, 2 * i = Len(f) + 2 PROVE i \in EntryIds(g) /\ Whole(g, i, p)
  <2>1. 1 <= i /\ 2 * i <= Len(g) /\ 2 * i - 1 = Len(f) + 1
    BY <1>1, <1>3
  <2>2. i \in EntryIds(g)
    BY <1>1, <2>1, Ids
  <2> QED BY <1>1, <1>3, <2>1, <2>2, WholeCells
<1>4. ASSUME NEW q \in Pipelines, NEW i \in IdsOf(g, q)
      PROVE  i \in IdsOf(f, q) \/ (q = p /\ 2 * i = Len(f) + 2)
  <2>1. i \in Nat /\ 1 <= i /\ 2 * i <= Len(f) + 2 /\ Whole(g, i, q)
    BY <1>1, Ids DEF IdsOf
  <2>2. CASE 2 * i <= Len(f)
    BY <1>2, <2>1, <2>2, Ids DEF IdsOf
  <2>3. CASE 2 * i = Len(f) + 1
    <3>1. g[2 * i].part = 1
      BY <1>1, <2>3
    <3>2. g[2 * i].part = 2
      BY <2>1, WholeCells
    <3> QED BY <3>1, <3>2
  <2>4. CASE 2 * i = Len(f) + 2
    <3>1. Whole(g, i, p)
      BY <1>3, <2>1, <2>4
    <3> QED BY <2>1, <2>4, <3>1, OneEntry
  <2>5. 2 * i <= Len(f) \/ 2 * i = Len(f) + 1 \/ 2 * i = Len(f) + 2
    <3>1. \A m, n \in Nat : 2 * m <= n + 2 => 2 * m <= n \/ 2 * m = n + 1 \/ 2 * m = n + 2
      OBVIOUS
    <3> QED BY <1>1, <2>1, <3>1
  <2> QED BY <2>2, <2>3, <2>4, <2>5
<1>5. \A i \in Nat : 2 * i = Len(f) + 2 => i \in IdsOf(g, p)
  BY <1>3 DEF IdsOf
<1> QED BY <1>1, <1>2, <1>4, <1>5 DEF g

-------------------------------------------------------------------------------
(* Steps that leave the file and what is on its way to it.                   *)

onceVars == <<file, session, entries, numInvalid, writerQueue, writing, writerPc, drawing>>

LEMMA OnceKept ==
  ASSUME OnceInv, UNCHANGED onceVars,
         session = "running" => \A p \in Pipelines : Known(p) => Known(p)'
  PROVE  OnceInv'
<1> USE DEF onceVars
<1>1. Unique' /\ QueuedNew' /\ WritingNew' /\ DrawingNew' /\ EntriesStored'
  BY DEF OnceInv, Unique, QueuedNew, WritingNew, DrawingNew, EntriesStored, Stored
<1>2. AllKnown'
  BY DEF OnceInv, AllKnown, Stored
<1>3. NotStarted' /\ Reading' /\ Rewriting'
  BY DEF OnceInv, NotStarted, Reading, Rewriting, ReadPosition
<1> QED BY <1>1, <1>2, <1>3 DEF OnceInv

LEMMA ShadersOfPipeline ==
  ASSUME NEW p \in Pipelines
  PROVE  ShadersOf[p] \subseteq Shaders
<1>1. ShadersOf[p] \in (SUBSET Shaders) \ {{}}
  BY CacheAssumption
<1> QED BY <1>1

(* A pipeline stays known while modules and instances are added.             *)
LEMMA KnownKept ==
  ASSUME NEW p \in Pipelines, Known(p), UNCHANGED entries, instances \subseteq instances',
         \A k \in Shaders : modules[k] # NoShader => modules'[k] = modules[k]
  PROVE  Known(p)'
<1>1. CASE p \in Range(entries)
  BY <1>1 DEF Known
<1>2. CASE p \in Created /\ <<BoundShaders(p), p>> \in instances
  <2>1. \A k \in ShadersOf[p] : modules[k] # NoShader /\ modules'[k] = modules[k]
    BY <1>2, ShadersOfPipeline DEF Created
  <2>2. p \in Created' /\ BoundShaders(p)' = BoundShaders(p)
    BY <2>1 DEF Created, BoundShaders
  <2> QED BY <1>2, <2>2 DEF Known
<1> QED BY <1>1, <1>2 DEF Known

LEMMA QuietStep ==
  ASSUME OnceInv, UNCHANGED <<fileVars, sessionVars, readVars, writerVars, drawing>>,
         session = "running" => instances \subseteq instances',
         \A k \in Shaders : modules[k] # NoShader => modules'[k] = modules[k]
  PROVE  OnceInv'
<1>1. UNCHANGED onceVars
  BY DEF onceVars, fileVars, sessionVars, readVars, writerVars
<1>2. session = "running" => \A p \in Pipelines : Known(p) => Known(p)'
  BY <1>1, KnownKept DEF onceVars
<1> QED BY <1>1, <1>2, OnceKept

(* Workers and shader creation are such steps.                               *)
LEMMA WorkerOnce ==
  ASSUME IInv, OnceInv, NEW w \in Workers, WorkerStep(w)
  PROVE  OnceInv'
<1>1. CASE WorkerLoop(w)
  BY <1>1, QuietStep DEF WorkerLoop, shaderVars
<1>2. CASE WorkerTake(w)
  BY <1>2, QuietStep DEF WorkerTake, shaderVars
<1>3. CASE CompilePipeline(w)
  <2>1. session = "running" => instances \subseteq instances'
    BY <1>3 DEF CompilePipeline
  <2> QED BY <1>3, <2>1, QuietStep DEF CompilePipeline, shaderVars
<1> QED BY <1>1, <1>2, <1>3 DEF WorkerStep

LEMMA CreatorOnce ==
  ASSUME IInv, OnceInv, NEW c \in Creators, CreatorStep(c)
  PROVE  OnceInv'
<1>1. ASSUME NEW k, GetShaderModule(c, k) PROVE OnceInv'
  BY <1>1, QuietStep DEF GetShaderModule
<1>2. CASE RegisterShader(c)
  <2>1. UNCHANGED <<fileVars, sessionVars, readVars, writerVars, drawing, instances, modules>>
    BY <1>2 DEF RegisterShader
  <2> QED BY <2>1, QuietStep
<1>3. CASE InsertModule(c)
  <2>1. modules' = Inserted(modules, creator[c][2], <<creator[c][2], c>>)
    BY <1>3 DEF InsertModule
  <2>2. \A k \in Shaders : modules[k] # NoShader => modules'[k] = modules[k]
    BY <2>1 DEF Inserted, IInv, TypeOK, ShaderTypes
  <2> QED BY <1>3, <2>2, QuietStep DEF InsertModule
<1> QED BY <1>1, <1>2, <1>3 DEF CreatorStep

-------------------------------------------------------------------------------
(* Draws                                                                     *)

(* A draw that creates a pipeline draws one that the session does not know.  *)
LEMMA GetPipelineOnce ==
  ASSUME IInv, OnceInv, NEW p \in Pipelines, GetPipelineHandle(p)
  PROVE  OnceInv'
<1>1. /\ UNCHANGED <<file, session, entries, numInvalid, writerQueue, writing, writerPc, modules>>
      /\ session = "running" /\ drawing = NoPipeline /\ drawing' = p /\ p \in Created
      /\ <<BoundShaders(p), p>> \notin instances
      /\ instances' = instances \cup {<<BoundShaders(p), p>>}
  BY DEF GetPipelineHandle, fileVars, sessionVars, readVars, writerVars, shaderVars
<1>2. Unique' /\ QueuedNew' /\ WritingNew' /\ EntriesStored' /\ NotStarted' /\ Reading' /\ Rewriting'
  BY <1>1 DEF OnceInv, Unique, QueuedNew, WritingNew, EntriesStored, NotStarted, Reading,
              Rewriting, Stored, ReadPosition
<1>3. DrawingNew'
  <2> SUFFICES ASSUME p \notin Range(entries)
               PROVE  ~Stored(p) /\ p \notin Range(writerQueue) /\ p # writing
    BY <1>1 DEF DrawingNew, Stored
  <2> QED BY <1>1 DEF OnceInv, AllKnown, Known
<1>4. AllKnown'
  <2>1. \A q \in Pipelines : Known(q) => Known(q)'
    BY <1>1, KnownKept
  <2>2. Known(p)'
    BY <1>1 DEF Known, Created, BoundShaders
  <2> QED BY <1>1, <2>1, <2>2 DEF OnceInv, AllKnown, Stored
<1> QED BY <1>2, <1>3, <1>4 DEF OnceInv

(* It goes to the queue of the writer once, or not at all.                   *)
LEMMA RecordOnce ==
  ASSUME IInv, OnceInv, WritePipelineStateToCache
  PROVE  OnceInv'
<1>1. /\ UNCHANGED <<file, session, entries, numInvalid, modules, instances, writing>>
      /\ drawing \in Pipelines /\ drawing # NoPipeline /\ drawing' = NoPipeline
      /\ session = "running"
      /\ \/ drawing \in Range(entries) /\ UNCHANGED writerQueue
         \/ drawing \notin Range(entries) /\ writerQueue' = Append(writerQueue, drawing)
  BY DEF WritePipelineStateToCache, AddPipeline, QueueForWriter, fileVars, sessionVars, readVars,
         writerVars, shaderVars, IInv, TypeOK, OnceInv, NotStarted
<1>2. writerQueue \in Seq(Pipelines)
  BY DEF IInv, TypeOK, FileTypes
<1>3. QueuedNew' /\ Range(writerQueue') \subseteq Range(writerQueue) \cup {drawing}
  <2>1. CASE UNCHANGED writerQueue
    BY <1>1, <2>1 DEF OnceInv, QueuedNew, Stored
  <2>2. CASE drawing \notin Range(entries) /\ writerQueue' = Append(writerQueue, drawing)
    <3>1. ~Stored(drawing) /\ drawing \notin Range(writerQueue) /\ drawing # writing
      BY <1>1, <2>2 DEF OnceInv, DrawingNew
    <3>2. Range(writerQueue') = Range(writerQueue) \cup {drawing}
      BY <1>1, <1>2, <2>2, PushRange
    <3>3. IsInjective(writerQueue')
      BY <1>1, <1>2, <2>2, <3>1, PushInjective DEF OnceInv, QueuedNew
    <3> QED BY <1>1, <2>2, <3>1, <3>2, <3>3 DEF OnceInv, QueuedNew, Stored
  <2> QED BY <1>1, <2>1, <2>2
<1>4. Unique' /\ WritingNew' /\ EntriesStored' /\ DrawingNew' /\ NotStarted' /\ Reading' /\ Rewriting'
  BY <1>1 DEF OnceInv, Unique, WritingNew, EntriesStored, DrawingNew, NotStarted, Reading,
              Rewriting, Stored, ReadPosition
<1>5. AllKnown'
  <2>1. \A q \in Pipelines : Known(q) => Known(q)'
    BY <1>1, KnownKept
  <2>2. NoPipeline \notin Pipelines
    BY FileAssumption
  <2> QED BY <1>1, <1>3, <2>1, <2>2 DEF OnceInv, AllKnown, Stored
<1> QED BY <1>3, <1>4, <1>5 DEF OnceInv

-------------------------------------------------------------------------------
(* The writer                                                                *)

(* What a write adds to the file, whole or half, is one new entry at most.   *)
LEMMA Written ==
  ASSUME file \in Seq(Cells), NEW p \in Pipelines,
         file' \in {file, file \o Parts(p), Append(file, Parts(p)[1])}
  PROVE  \A q \in Pipelines :
            /\ \A i \in IdsOf(file, q) : i \in IdsOf(file', q)
            /\ \A i \in IdsOf(file', q) :
                  i \in IdsOf(file, q) \/ (q = p /\ 2 * i = Len(file) + 2)
<1>1. CASE file' = file
  BY <1>1
<1>2. CASE file' = file \o Parts(p)
  BY <1>2, WholeEntry DEF IdsOf
<1>3. CASE file' = Append(file, Parts(p)[1])
  BY <1>3, HalfEntry
<1> QED BY <1>1, <1>2, <1>3

LEMMA WriterOnce ==
  ASSUME IInv, OnceInv, WriterStep
  PROVE  OnceInv'
<1>1. /\ UNCHANGED <<session, entries, numInvalid, drawing, modules, instances>>
      /\ session \notin {"off", "reading", "rewriting"}
  <2>1. writerPc # "ended"
    BY DEF WriterStep, WriterLoop, WriterTake, WriteEntry
  <2>2. UNCHANGED <<session, entries, numInvalid, drawing, modules, instances>>
    BY DEF WriterStep, WriterLoop, WriterTake, WriteEntry, sessionVars, readVars, shaderVars
  <2> QED BY <2>1, <2>2 DEF OnceInv, NotStarted
<1>2. NotStarted' /\ Reading' /\ Rewriting'
  BY <1>1 DEF OnceInv, NotStarted, Reading, Rewriting
<1>3. \A q \in Pipelines : Known(q) <=> Known(q)'
  BY <1>1 DEF Known, Created, BoundShaders
<1>4. CASE WriterLoop
  <2>1. UNCHANGED <<file, writerQueue, writing>>
    BY <1>4 DEF WriterLoop, fileVars
  <2>2. Unique' /\ QueuedNew' /\ WritingNew' /\ DrawingNew' /\ EntriesStored' /\ AllKnown'
    BY <1>1, <1>3, <2>1 DEF OnceInv, Unique, QueuedNew, WritingNew, DrawingNew, EntriesStored,
                            AllKnown, Stored
  <2> QED BY <1>2, <2>2 DEF OnceInv
<1>5. CASE WriterTake
  <2>1. UNCHANGED file
    BY <1>5 DEF WriterTake, fileVars
  <2>2. Unique' /\ EntriesStored'
    BY <1>1, <2>1 DEF OnceInv, Unique, EntriesStored, Stored
  <2>3. CASE writerQueue = <<>>
    <3>1. UNCHANGED <<writerQueue, writing>>
      BY <1>5, <2>3 DEF WriterTake
    <3>2. QueuedNew' /\ WritingNew' /\ DrawingNew' /\ AllKnown'
      BY <1>1, <1>3, <2>1, <3>1 DEF OnceInv, QueuedNew, WritingNew, DrawingNew, AllKnown, Stored
    <3> QED BY <1>2, <2>2, <3>2 DEF OnceInv
  <2>4. CASE writerQueue # <<>>
    <3>1. /\ writing' = Head(writerQueue) /\ writerQueue' = Tail(writerQueue)
          /\ writerQueue \in Seq(Pipelines)
      BY <1>5, <2>4 DEF WriterTake, IInv, TypeOK, FileTypes
    <3>2. /\ Range(writerQueue) = Range(writerQueue') \cup {writing'}
          /\ writing' \in Pipelines
          /\ IsInjective(writerQueue') /\ writing' \notin Range(writerQueue')
      BY <2>4, <3>1, PopRange, PopInjective DEF OnceInv, QueuedNew
    <3>3. QueuedNew' /\ WritingNew' /\ DrawingNew' /\ AllKnown'
      BY <1>1, <1>3, <2>1, <3>2
         DEF OnceInv, QueuedNew, WritingNew, DrawingNew, AllKnown, Stored
    <3> QED BY <1>2, <2>2, <3>3 DEF OnceInv
  <2> QED BY <2>3, <2>4
<1>6. CASE WriteEntry
  <2>1. /\ writing \in Pipelines /\ writing' = NoPipeline /\ UNCHANGED writerQueue
        /\ file' \in {file, file \o Parts(writing), Append(file, Parts(writing)[1])}
    BY <1>6 DEF WriteEntry, IInv, WriterHasEntry
  <2>2. NoPipeline \notin Pipelines
    BY FileAssumption
  <2>3. \A q \in Pipelines :
           /\ \A i \in IdsOf(file, q) : i \in IdsOf(file', q)
           /\ \A i \in IdsOf(file', q) :
                 i \in IdsOf(file, q) \/ (q = writing /\ 2 * i = Len(file) + 2)
    BY <2>1, Written DEF IInv, TypeOK, FileTypes
  <2>4. IdsOf(file, writing) = {}
    BY <2>1, <2>2 DEF OnceInv, WritingNew, Stored
  <2>5. Unique'
    <3> SUFFICES ASSUME NEW q \in Pipelines, NEW i \in IdsOf(file', q), NEW j \in IdsOf(file', q)
                 PROVE  i = j
      BY DEF Unique
    <3>1. CASE q = writing
      <4>1. 2 * i = Len(file) + 2 /\ 2 * j = Len(file) + 2 /\ i \in Nat /\ j \in Nat
        BY <2>3, <2>4, <3>1 DEF IdsOf, EntryIds
      <4> QED BY <4>1
    <3>2. CASE q # writing
      BY <2>3, <3>2 DEF OnceInv, Unique
    <3> QED BY <3>1, <3>2
  <2>6. \A q \in Pipelines : (Stored(q) => Stored(q)') /\ (Stored(q)' => Stored(q) \/ q = writing)
    BY <2>3 DEF Stored
  <2>7. entries \in Seq(Pipelines) /\ writerQueue \in Seq(Pipelines) /\ drawing \in Pipelines \cup {NoPipeline}
    BY DEF IInv, TypeOK, FileTypes
  <2>8. Range(entries) \subseteq Pipelines /\ Range(writerQueue) \subseteq Pipelines
    BY <2>7, SeqRange
  <2>9. QueuedNew' /\ WritingNew' /\ EntriesStored'
    BY <1>1, <2>1, <2>2, <2>6, <2>8 DEF OnceInv, QueuedNew, WritingNew, EntriesStored
  <2>10. DrawingNew'
    BY <1>1, <2>1, <2>2, <2>6, <2>7 DEF OnceInv, DrawingNew
  <2>11. AllKnown'
    BY <1>1, <1>3, <2>1, <2>2, <2>6 DEF OnceInv, AllKnown
  <2> QED BY <1>2, <2>5, <2>9, <2>10, <2>11 DEF OnceInv
<1> QED BY <1>4, <1>5, <1>6 DEF WriterStep

-------------------------------------------------------------------------------
(* Sessions                                                                  *)

(* Where nothing is on its way the file is all that matters.                 *)
LEMMA OnlyFile ==
  ASSUME Unique', NotStarted', Reading', Rewriting',
         session' \in {"off", "reading", "rewriting"}
  PROVE  OnceInv'
<1>1. writerQueue' = <<>> /\ writing' = NoPipeline /\ drawing' = NoPipeline
  BY DEF NotStarted
<1>2. QueuedNew'
  BY <1>1 DEF QueuedNew, IsInjective, Range
<1>3. WritingNew' /\ DrawingNew' /\ AllKnown' /\ EntriesStored'
  BY <1>1 DEF WritingNew, DrawingNew, AllKnown, EntriesStored
<1> QED BY <1>2, <1>3 DEF OnceInv

LEMMA EmptyFile == EntryIds(<<>>) = {} /\ \A p \in Pipelines : IdsOf(<<>>, p) = {}
BY DEF IdsOf, EntryIds

LEMMA TruncateOnce ==
  ASSUME OnceInv, Truncate, IsInjective(entries), entries' = entries, entries \in Seq(Pipelines),
         session \in {"off", "reading"}, UNCHANGED <<writerQueue, writing, writerPc, drawing>>
  PROVE  OnceInv'
<1>1. file' = <<>> /\ session' = "rewriting"
  BY DEF Truncate
<1>2. Unique' /\ Reading'
  BY <1>1, EmptyFile DEF Unique, Reading
<1>3. NotStarted'
  BY <1>1 DEF OnceInv, NotStarted
<1>4. Rewriting'
  <2>1. Len(<<>>) = 0 /\ Len(<<>>) = 2 * (Len(<<>>) \div 2) /\ Len(entries) \in Nat
    OBVIOUS
  <2> QED BY <1>1, <2>1, EmptyFile DEF Rewriting
<1> QED BY <1>1, <1>2, <1>3, <1>4, OnlyFile

LEMMA OpenFileOnce ==
  ASSUME IInv, OnceInv, OpenFile, UNCHANGED drawing
  PROVE  OnceInv'
<1>1. /\ session = "off" /\ UNCHANGED <<entries, numInvalid, writerQueue, writing, writerPc>>
      /\ entries = <<>> /\ numInvalid = 0
  BY DEF OpenFile, readVars, writerVars, OnceInv, NotStarted
<1>2. IsInjective(entries) /\ Range(entries) = {}
  BY <1>1 DEF IsInjective, Range
<1>3. CASE Truncate
  BY <1>1, <1>2, <1>3, TruncateOnce DEF IInv, TypeOK, FileTypes
<1>4. CASE session' = "reading" /\ UNCHANGED fileVars
  <2>1. UNCHANGED file
    BY <1>4 DEF fileVars
  <2>2. Reading'
    <3>1. ReadPosition' = 1
      BY <1>1 DEF ReadPosition
    <3>2. \A p \in Pipelines, i \in Nat : i \in IdsOf(file, p) => ~(i < 1)
      BY DEF IdsOf, EntryIds
    <3>3. \A p \in Pipelines : \A i \in IdsOf(file, p) : i \in Nat
      BY DEF IdsOf, EntryIds
    <3> QED BY <1>1, <1>2, <2>1, <3>1, <3>2, <3>3 DEF Reading
  <2>3. Unique' /\ NotStarted' /\ Rewriting'
    BY <1>1, <1>4, <2>1 DEF OnceInv, Unique, NotStarted, Rewriting
  <2> QED BY <1>4, <2>2, <2>3, OnlyFile
<1> QED BY <1>3, <1>4 DEF OpenFile

(* An entry that is read has not been read before.                           *)
LEMMA ReadEntryOnce ==
  ASSUME IInv, OnceInv, ReadCacheEntry, UNCHANGED drawing
  PROVE  OnceInv'
<1> DEFINE pos == ReadPosition
<1>1. /\ session = "reading" /\ pos \in EntryIds(file) /\ pos \in Nat
      /\ UNCHANGED <<session, file, writerQueue, writing, writerPc>>
      /\ file \in Seq(Cells) /\ entries \in Seq(Pipelines) /\ numInvalid \in Nat
  BY DEF ReadCacheEntry, fileVars, sessionVars, writerVars, EntryIds, IInv, TypeOK, FileTypes
<1>2. Unique' /\ NotStarted' /\ Rewriting'
  BY <1>1 DEF OnceInv, Unique, NotStarted, Rewriting
<1>3. Reading'
  <2>1. CASE ~Valid(file, pos)
    <3>1. UNCHANGED entries /\ numInvalid' = numInvalid + 1
      BY <2>1 DEF ReadCacheEntry
    <3>2. ReadPosition' = pos + 1
      <4>1. Len(entries) \in Nat
        BY <1>1
      <4> QED BY <1>1, <3>1, <4>1 DEF ReadPosition
    <3>3. \A p \in Pipelines : \A i \in IdsOf(file, p) : i \in Nat /\ i # pos
      BY <2>1 DEF IdsOf, EntryIds, Valid
    <3>4. \A p \in Pipelines : \A i \in IdsOf(file, p) : i < pos + 1 <=> i < pos
      BY <1>1, <3>3
    <3> HIDE DEF pos
    <3> QED BY <1>1, <3>1, <3>2, <3>4 DEF OnceInv, Reading, pos
  <2>2. CASE Valid(file, pos)
    <3>1. PICK p \in Pipelines : Whole(file, pos, p)
      BY <2>2 DEF Valid
    <3>2. file[2 * pos].entry = p
      <4>1. file[2 * pos] = [entry |-> p, part |-> 2]
        BY <3>1, WholeCells
      <4> HIDE DEF pos
      <4> QED BY <4>1
    <3>3. entries' = Append(entries, p) /\ UNCHANGED numInvalid
      BY <2>2, <3>2 DEF ReadCacheEntry
    <3>4. ReadPosition' = pos + 1
      <4>1. Len(entries) \in Nat /\ Len(entries') = Len(entries) + 1
        BY <1>1, <3>3, AppendProperties
      <4> QED BY <1>1, <3>3, <4>1 DEF ReadPosition
    <3>5. p \notin Range(entries)
      <4>1. SUFFICES ASSUME p \in Range(entries) PROVE FALSE
        OBVIOUS
      <4>2. PICK i \in IdsOf(file, p) : i < pos
        BY <1>1, <4>1 DEF OnceInv, Reading
      <4>3. pos \in IdsOf(file, p)
        BY <1>1, <3>1 DEF IdsOf
      <4>4. i = pos /\ i \in Nat
        BY <4>2, <4>3 DEF OnceInv, Unique, IdsOf, EntryIds
      <4> QED BY <4>2, <4>4
    <3>6. Range(entries') = Range(entries) \cup {p} /\ IsInjective(entries')
      BY <1>1, <3>3, <3>5, PushRange, PushInjective DEF OnceInv, Reading
    <3>7. ASSUME NEW q \in Pipelines
          PROVE  q \in Range(entries') <=> \E i \in IdsOf(file, q) : i < pos + 1
      <4>1. q \in Range(entries) <=> \E i \in IdsOf(file, q) : i < pos
        BY <1>1 DEF OnceInv, Reading
      <4>2. \A i \in IdsOf(file, q) : i \in Nat /\ (i < pos + 1 <=> i < pos \/ i = pos)
        BY <1>1 DEF IdsOf, EntryIds
      <4>3. pos \in IdsOf(file, q) <=> q = p
        BY <1>1, <3>1, OneEntry DEF IdsOf
      <4> HIDE DEF pos
      <4> QED BY <3>6, <4>1, <4>2, <4>3
    <3> HIDE DEF pos
    <3> QED BY <1>1, <3>4, <3>6, <3>7 DEF Reading
  <2> QED BY <2>1, <2>2
<1> QED BY <1>1, <1>2, <1>3, OnlyFile

(* A file that is written anew gets every entry once.                        *)
LEMMA RewriteEntryOnce ==
  ASSUME IInv, OnceInv, RewriteEntry, UNCHANGED drawing
  PROVE  OnceInv'
<1> DEFINE n == Len(file) \div 2 + 1
           p == NextEntry
<1>1. /\ session = "rewriting" /\ Len(file) < 2 * Len(entries) /\ file' = file \o Parts(p)
      /\ UNCHANGED <<session, entries, numInvalid, writerQueue, writing, writerPc>>
      /\ file \in Seq(Cells) /\ entries \in Seq(Pipelines)
  BY DEF RewriteEntry, sessionVars, readVars, writerVars, IInv, TypeOK, FileTypes
<1>2. /\ IsInjective(entries) /\ Len(file) = 2 * (Len(file) \div 2)
      /\ \A i \in EntryIds(file) : Whole(file, i, entries[i])
  BY <1>1 DEF OnceInv, Rewriting
<1>3. p \in Pipelines /\ p = entries[n]
  BY <1>1, NextEntryRead DEF NextEntry
<1>4. /\ Len(file) \in Nat /\ Len(entries) \in Nat /\ n \in Nat /\ 2 * n = Len(file) + 2
      /\ n \in 1 .. Len(entries)
  <2>1. Len(file) \in Nat /\ Len(entries) \in Nat
    BY <1>1
  <2>2. \A l, m \in Nat : l = 2 * (l \div 2) /\ l < 2 * m =>
           /\ l \div 2 + 1 \in Nat /\ 2 * (l \div 2 + 1) = l + 2 /\ l \div 2 + 1 \in 1 .. m
    OBVIOUS
  <2> QED BY <1>1, <1>2, <2>1, <2>2
<1> HIDE DEF n, p
<1>5. /\ file' \in Seq(Cells) /\ Len(file') = Len(file) + 2
      /\ \A i \in EntryIds(file) : \A q \in Pipelines : Whole(file', i, q) <=> Whole(file, i, q)
      /\ n \in IdsOf(file', p)
  BY <1>1, <1>3, <1>4, WholeEntry
<1>6. \A i \in EntryIds(file') : i \in EntryIds(file) \/ i = n
  <2>1. \A i, l, m \in Nat : 2 * m = l + 2 /\ 2 * i <= l + 2 /\ l = 2 * (l \div 2) =>
           2 * i <= l \/ i = m
    OBVIOUS
  <2>2. TAKE i \in EntryIds(file')
  <2>3. i \in Nat /\ 1 <= i /\ 2 * i <= Len(file) + 2
    BY <1>5, Ids
  <2>4. 2 * i <= Len(file) \/ i = n
    BY <1>2, <1>4, <2>1, <2>3
  <2> QED BY <1>1, <2>3, <2>4, Ids
<1>7. ASSUME NEW i \in EntryIds(file')
      PROVE  /\ i \in 1 .. Len(entries) /\ entries[i] \in Pipelines
             /\ Whole(file', i, entries[i])
  <2>1. CASE i \in EntryIds(file)
    <3>1. i \in 1 .. Len(entries)
      <4>1. i \in Nat /\ 1 <= i /\ 2 * i <= Len(file)
        BY <1>1, <2>1, Ids
      <4> QED BY <1>1, <1>4, <4>1
    <3>2. entries[i] \in Pipelines
      BY <1>1, <3>1
    <3> QED BY <1>2, <1>5, <2>1, <3>1, <3>2
  <2>2. CASE i = n
    BY <1>3, <1>4, <1>5, <2>2 DEF IdsOf
  <2> QED BY <1>6, <2>1, <2>2
<1>8. Rewriting'
  <2>1. \A l, m \in Nat : l = 2 * (l \div 2) /\ l < 2 * m =>
           l + 2 = 2 * ((l + 2) \div 2) /\ l + 2 <= 2 * m
    OBVIOUS
  <2>2. Len(file') = 2 * (Len(file') \div 2) /\ Len(file') <= 2 * Len(entries)
    BY <1>1, <1>2, <1>4, <1>5, <2>1
  <2> QED BY <1>1, <1>2, <1>7, <2>2 DEF Rewriting
<1>9. Unique'
  <2> SUFFICES ASSUME NEW q \in Pipelines, NEW i \in IdsOf(file', q), NEW j \in IdsOf(file', q)
               PROVE  i = j
    BY DEF Unique
  <2>1. i \in 1 .. Len(entries) /\ j \in 1 .. Len(entries) /\ entries[i] = q /\ entries[j] = q
    BY <1>7, OneEntry DEF IdsOf
  <2>2. DOMAIN entries = 1 .. Len(entries)
    BY <1>1
  <2> QED BY <1>2, <2>1, <2>2 DEF IsInjective
<1>10. NotStarted' /\ Reading'
  BY <1>1 DEF OnceInv, NotStarted, Reading
<1> QED BY <1>1, <1>8, <1>9, <1>10, OnlyFile

LEMMA ReadOnce ==
  ASSUME IInv, OnceInv, ReadCache
  PROVE  OnceInv'
BY OpenFileOnce, ReadEntryOnce, RewriteEntryOnce DEF ReadCache

(* The session starts with all that the file has, and the file with all that *)
(* the session has read.                                                     *)
LEMMA OpenOnce ==
  ASSUME IInv, OnceInv, OpenCache
  PROVE  OnceInv'
<1>1. /\ UNCHANGED <<entries, writerQueue, writing, drawing>>
      /\ session \in {"reading", "rewriting"}
      /\ file \in Seq(Cells) /\ entries \in Seq(Pipelines) /\ numInvalid \in Nat
  BY DEF OpenCache, FinishReading, FinishRewrite, readVars, IInv, TypeOK, FileTypes
<1>2. IsInjective(entries)
  BY <1>1 DEF OnceInv, Reading, Rewriting
<1>3. CASE session = "reading" /\ Truncate
  <2>1. UNCHANGED writerPc
    BY <1>3 DEF Truncate, OpenCache, StartThreads
  <2> QED BY <1>1, <1>2, <1>3, <2>1, TruncateOnce
<1>4. CASE session' = "running" /\ UNCHANGED file
  <2>1. ASSUME NEW p \in Pipelines PROVE Stored(p) <=> p \in Range(entries)
    <3>1. CASE session = "reading"
      <4>1. ReadPosition \notin EntryIds(file)
        BY <3>1 DEF OpenCache, FinishReading, FinishRewrite
      <4>2. ReadPosition \in Nat /\ 1 <= ReadPosition
        <5>1. Len(entries) \in Nat
          BY <1>1
        <5> QED BY <1>1, <5>1 DEF ReadPosition
      <4>3. \A i \in EntryIds(file) : i < ReadPosition
        <5>1. Len(file) \in Nat
          BY <1>1
        <5> HIDE DEF ReadPosition
        <5> QED BY <4>1, <4>2, <5>1 DEF EntryIds
      <4> QED BY <3>1, <4>3 DEF OnceInv, Reading, Stored, IdsOf
    <3>2. CASE session = "rewriting"
      <4>1. Len(file) = 2 * Len(entries) /\ Len(entries) \in Nat
        BY <1>1, <3>2 DEF OpenCache, FinishReading, FinishRewrite
      <4>2. \A i : i \in EntryIds(file) <=> i \in DOMAIN entries
        <5>1. \A i : i \in EntryIds(file) <=> i \in 1 .. Len(entries)
          BY <1>1, <4>1, Ids
        <5> QED BY <1>1, <5>1
      <4>3. \A i \in EntryIds(file) : Whole(file, i, entries[i])
        BY <3>2 DEF OnceInv, Rewriting
      <4>4. ASSUME Stored(p) PROVE p \in Range(entries)
        <5>1. PICK i \in EntryIds(file) : Whole(file, i, p)
          BY <4>4 DEF Stored, IdsOf
        <5>2. entries[i] = p
          BY <4>3, <5>1, OneEntry
        <5> QED BY <4>2, <5>2 DEF Range
      <4>5. ASSUME p \in Range(entries) PROVE Stored(p)
        <5>1. PICK i \in DOMAIN entries : entries[i] = p
          BY <4>5 DEF Range
        <5> QED BY <4>2, <4>3, <5>1 DEF Stored, IdsOf
      <4> QED BY <4>4, <4>5
    <3> QED BY <1>1, <3>1, <3>2
  <2>2. writerQueue = <<>> /\ writing = NoPipeline /\ drawing = NoPipeline /\ NoPipeline \notin Pipelines
    BY <1>1, FileAssumption DEF OnceInv, NotStarted
  <2>3. Unique'
    BY <1>4 DEF OnceInv, Unique
  <2>4. QueuedNew'
    BY <1>1, <2>2 DEF QueuedNew, IsInjective, Range
  <2>5. WritingNew' /\ DrawingNew' /\ NotStarted' /\ Reading' /\ Rewriting'
    BY <1>1, <1>4, <2>2 DEF WritingNew, DrawingNew, NotStarted, Reading, Rewriting
  <2>6. Range(entries) \subseteq Pipelines
    BY <1>1, SeqRange
  <2>7. EntriesStored'
    BY <1>1, <1>4, <2>1, <2>6 DEF EntriesStored, Stored
  <2>8. AllKnown'
    <3>1. Range(writerQueue) = {}
      BY <2>2 DEF Range
    <3> QED BY <1>1, <1>4, <2>1, <2>2, <3>1 DEF AllKnown, Stored, Known
  <2> QED BY <2>3, <2>4, <2>5, <2>7, <2>8 DEF OnceInv
<1> QED BY <1>1, <1>3, <1>4 DEF OpenCache, FinishReading, FinishRewrite, fileVars

LEMMA ClosingOnce ==
  ASSUME OnceInv, UNCHANGED <<file, entries, writerQueue, writing, drawing>>,
         drawing = NoPipeline, session' \in {"destroying", "stopping"}
  PROVE  OnceInv'
<1>1. Unique' /\ QueuedNew' /\ WritingNew' /\ DrawingNew'
  BY DEF OnceInv, Unique, QueuedNew, WritingNew, DrawingNew, Stored
<1>2. AllKnown' /\ EntriesStored' /\ NotStarted' /\ Reading' /\ Rewriting'
  BY DEF AllKnown, EntriesStored, NotStarted, Reading, Rewriting
<1> QED BY <1>1, <1>2 DEF OnceInv

(* A kill leaves half an entry at most, and the next session starts anew.    *)
LEMMA EndOnce ==
  ASSUME OnceInv, EndProcess, \A p \in Pipelines : IdsOf(file', p) = IdsOf(file, p)
  PROVE  OnceInv'
<1>1. Unique'
  BY DEF OnceInv, Unique
<1>2. NotStarted' /\ Reading' /\ Rewriting' /\ session' = "off"
  BY DEF EndProcess, EndSession, NotStarted, Reading, Rewriting
<1> QED BY <1>1, <1>2, OnlyFile

LEMMA ShutdownOnce ==
  ASSUME IInv, OnceInv, Shutdown \/ KillProcess
  PROVE  OnceInv'
<1>1. CASE DestroyPipelines
  BY <1>1, ClosingOnce DEF DestroyPipelines, fileVars, readVars, writerVars
<1>2. CASE StopThreads
  <2>1. drawing = NoPipeline
    BY <1>2 DEF StopThreads, OnceInv, NotStarted
  <2> QED BY <1>2, <2>1, ClosingOnce DEF StopThreads, fileVars, readVars
<1>3. CASE JoinThreads
  BY <1>3, EndOnce DEF JoinThreads, fileVars
<1>4. CASE KillProcess
  <2>1. file' = file \/ \E p \in Pipelines : file' = Append(file, Parts(p)[1])
    <3>1. CASE writerPc = "write" /\ file' = Append(file, Parts(writing)[1])
      BY <3>1 DEF IInv, WriterHasEntry
    <3>2. CASE Len(file) < 2 * Len(entries) /\ file' = Append(file, Parts(NextEntry)[1])
      BY <3>2, NextEntryRead DEF IInv, TypeOK, FileTypes
    <3> QED BY <1>4, <3>1, <3>2 DEF KillProcess, Kill, fileVars
  <2>2. \A p \in Pipelines : IdsOf(file', p) = IdsOf(file, p)
    BY <2>1, HalfEntry DEF IInv, TypeOK, FileTypes
  <2> QED BY <1>4, <2>2, EndOnce DEF KillProcess
<1> QED BY <1>1, <1>2, <1>3, <1>4 DEF Shutdown

-------------------------------------------------------------------------------
(* An earlier session has recorded two pipelines at most, and not one twice. *)
LEMMA OnceInitially == Init => OnceInv
<1> SUFFICES ASSUME Init PROVE OnceInv
  OBVIOUS
<1>1. /\ session = "off" /\ writerPc = "ended" /\ entries = <<>> /\ numInvalid = 0
      /\ writerQueue = <<>> /\ writing = NoPipeline /\ drawing = NoPipeline
  BY DEF Init, InitFile
<1>2. Unique
  <2>1. file \in Seq(Cells)
    BY InitialFile DEF Init, FileTypes
  <2>2. Len(file) \in {0, 2, 4} /\ (Len(file) = 4 => file[1] # file[3])
    <3>1. ASSUME NEW p \in Pipelines, NEW q \in Pipelines, file = Parts(p) \o Parts(q)
          PROVE  Len(file) = 4
      BY <3>1, PartsCells, WholeEntry
    <3>2. ASSUME NEW p \in Pipelines, file = Parts(p) PROVE Len(file) = 2
      BY <3>2, PartsCells
    <3>3. file = <<>> => Len(file) = 0
      OBVIOUS
    <3> QED BY <3>1, <3>2, <3>3 DEF Init, InitFile
  <2> SUFFICES ASSUME NEW p \in Pipelines, NEW i \in IdsOf(file, p), NEW j \in IdsOf(file, p),
                      i # j
               PROVE  FALSE
    BY DEF Unique
  <2>3. /\ i \in Nat /\ 1 <= i /\ 2 * i <= Len(file) /\ Whole(file, i, p)
        /\ j \in Nat /\ 1 <= j /\ 2 * j <= Len(file) /\ Whole(file, j, p)
    BY <2>1, Ids DEF IdsOf
  <2>4. Len(file) = 4 /\ ((i = 1 /\ j = 2) \/ (i = 2 /\ j = 1))
    <3>1. \A m, n, l \in Nat : l \in {0, 2, 4} /\ 1 <= m /\ 2 * m <= l /\ 1 <= n /\ 2 * n <= l
                                /\ m # n =>
             l = 4 /\ ((m = 1 /\ n = 2) \/ (m = 2 /\ n = 1))
      OBVIOUS
    <3>2. Len(file) \in Nat
      BY <2>2
    <3> QED BY <2>2, <2>3, <3>1, <3>2
  <2>5. file[1] = [entry |-> p, part |-> 1] /\ file[3] = [entry |-> p, part |-> 1]
    <3>1. Whole(file, 1, p) /\ Whole(file, 2, p)
      BY <2>3, <2>4
    <3>2. file[2 * 1 - 1] = [entry |-> p, part |-> 1] /\ file[2 * 2 - 1] = [entry |-> p, part |-> 1]
      BY <3>1, WholeCells
    <3> QED BY <3>2
  <2> QED BY <2>2, <2>4, <2>5
<1>3. QueuedNew
  BY <1>1 DEF QueuedNew, IsInjective, Range
<1>4. /\ WritingNew /\ DrawingNew /\ AllKnown /\ EntriesStored
      /\ NotStarted /\ Reading /\ Rewriting
  BY <1>1 DEF WritingNew, DrawingNew, AllKnown, EntriesStored, NotStarted, Reading, Rewriting
<1> QED BY <1>2, <1>3, <1>4 DEF OnceInv

LEMMA OnceStep == IInv /\ OnceInv /\ [Next]_vars => OnceInv'
<1> SUFFICES ASSUME IInv, OnceInv, [Next]_vars PROVE OnceInv'
  OBVIOUS
<1>1. CASE DrawStep
  BY <1>1, GetPipelineOnce, RecordOnce DEF DrawStep
<1>2. CASE UNCHANGED vars
  BY <1>2, QuietStep DEF vars, shaderVars
<1> QED BY <1>1, <1>2, ReadOnce, OpenOnce, ShutdownOnce, CreatorOnce, WorkerOnce, WriterOnce
        DEF Next

(* Sets that hold one element at most count as none or one.                  *)
LEMMA AtMostOne ==
  ASSUME NEW S, \A x, y \in S : x = y
  PROVE  Cardinality(S) = IF S = {} THEN 0 ELSE 1
<1>1. CASE S = {}
  BY <1>1, FS_EmptySet
<1>2. CASE S # {}
  <2>1. PICK x \in S : S = {x}
    BY <1>2
  <2> QED BY <1>2, <2>1, FS_Singleton
<1> QED BY <1>1, <1>2

LEMMA OnceIsStoredOnce == IInv /\ OnceInv => StoredOnce
<1> SUFFICES ASSUME IInv, OnceInv, NEW p \in Pipelines
             PROVE  /\ Cardinality(IdsOf(file, p)) + OnItsWay(p) <= 1
                    /\ session = "running" /\ p \in Range(entries) => IdsOf(file, p) # {}
  BY DEF StoredOnce
<1> DEFINE queued == {i \in DOMAIN writerQueue : writerQueue[i] = p}
           written == {x \in {writing} : x = p}
           drawn == {x \in {drawing} \ Range(entries) : x = p}
<1>1. Cardinality(IdsOf(file, p)) = IF Stored(p) THEN 1 ELSE 0
  BY AtMostOne DEF OnceInv, Unique, Stored
<1>2. Cardinality(queued) = IF p \in Range(writerQueue) THEN 1 ELSE 0
  <2>1. \A i, j \in queued : i = j
    BY DEF OnceInv, QueuedNew, IsInjective
  <2>2. queued = {} <=> p \notin Range(writerQueue)
    BY DEF Range
  <2> HIDE DEF queued
  <2> QED BY <2>1, <2>2, AtMostOne
<1>3. Cardinality(written) = IF p = writing THEN 1 ELSE 0
  <2>1. (\A x, y \in written : x = y) /\ (written = {} <=> p # writing)
    OBVIOUS
  <2> HIDE DEF written
  <2> QED BY <2>1, AtMostOne
<1>4. Cardinality(drawn) = IF p = drawing /\ p \notin Range(entries) THEN 1 ELSE 0
  <2>1. (\A x, y \in drawn : x = y) /\ (drawn = {} <=> ~(p = drawing /\ p \notin Range(entries)))
    OBVIOUS
  <2> HIDE DEF drawn
  <2> QED BY <2>1, AtMostOne
<1>5. p # NoPipeline
  BY FileAssumption
<1>6. /\ p \in Range(writerQueue) => ~Stored(p) /\ p # writing
      /\ p = writing => ~Stored(p)
      /\ p = drawing /\ p \notin Range(entries) =>
            ~Stored(p) /\ p \notin Range(writerQueue) /\ p # writing
  BY <1>5 DEF OnceInv, QueuedNew, WritingNew, DrawingNew
<1>7. Cardinality(IdsOf(file, p)) + OnItsWay(p) <= 1
  <2>1. OnItsWay(p) = Cardinality(queued) + Cardinality(written) + Cardinality(drawn)
    BY DEF OnItsWay
  <2> HIDE DEF queued, written, drawn
  <2> QED BY <1>1, <1>2, <1>3, <1>4, <1>6, <2>1
<1>8. session = "running" /\ p \in Range(entries) => IdsOf(file, p) # {}
  BY DEF OnceInv, EntriesStored, Stored
<1> QED BY <1>7, <1>8

(* Through any number of sessions, kills and failed writes, with any number  *)
(* of threads: no pipeline is in the file, or on its way to it, twice; and   *)
(* what a session has read, and will never record, is in the file.           *)
THEOREM RecordedOnce == Spec => []StoredOnce
<1>1. Spec => []IInv
  BY InvariantHolds
<1>2. Spec /\ []IInv => []OnceInv
  BY OnceInitially, OnceStep, PTL DEF Spec
<1> QED BY <1>1, <1>2, OnceIsStoredOnce, PTL

-------------------------------------------------------------------------------
(* Sleeping                                                                  *)

(* No wake-up is lost: a thread sleeps only while its queue is empty and     *)
(* nobody has told it to end.                                                *)
NoLostWakeup ==
    /\ writerPc = "asleep" => writerQueue = <<>> /\ ~stopThreads
    /\ \A w \in Workers : workerPc[w] = "asleep" => workerQueue = <<>> /\ ~stopThreads

LEMMA WakeStep ==
  ASSUME TypeOK, NoLostWakeup, [Next]_vars
  PROVE  NoLostWakeup'
<1>1. /\ workerPc \in [Workers -> WorkerStates] /\ workerQueue \in Seq(SUBSET Objects)
      /\ writerQueue \in Seq(Pipelines)
  BY DEF TypeOK, FileTypes, WorkerTypes
<1>2. /\ writerPc = "asleep" => writerQueue = <<>> /\ ~stopThreads
      /\ \A w \in Workers : workerPc[w] = "asleep" => workerQueue = <<>> /\ ~stopThreads
  BY DEF NoLostWakeup
<1>3. CASE UNCHANGED <<writerPc, writerQueue, stopThreads, workerPc, workerQueue>>
  BY <1>2, <1>3 DEF NoLostWakeup
<1>4. CASE ReadCache \/ DestroyPipelines
  BY <1>3, <1>4 DEF ReadCache, OpenFile, ReadCacheEntry, RewriteEntry, DestroyPipelines,
         writerVars, workerVars
<1>5. CASE OpenCache
  <2>1. UNCHANGED <<writerQueue, stopThreads, workerQueue>>
    BY <1>5 DEF OpenCache, FinishReading, FinishRewrite
  <2>2. \/ UNCHANGED <<writerPc, workerPc>>
        \/ writerPc' = "loop" /\ workerPc' = [w \in Workers |-> "loop"]
    BY <1>5 DEF OpenCache, StartThreads
  <2> QED BY <1>2, <2>1, <2>2 DEF NoLostWakeup
<1>6. CASE StopThreads
  BY <1>6 DEF StopThreads, StopWriter, NotifyWriter, NotifyWorkers, NoLostWakeup
<1>7. CASE JoinThreads \/ KillProcess
  BY <1>7 DEF JoinThreads, KillProcess, EndProcess, EndSession, NoThreads, NoLostWakeup
<1>8. ASSUME NEW c \in Creators, CreatorStep(c) PROVE NoLostWakeup'
  <2>1. CASE RegisterShader(c)
    <3> DEFINE items == Scheduled(shaderMap', creator[c][2])
    <3>1. /\ workerQueue' = workerQueue \o items
          /\ workerPc' = IF items # <<>> THEN NotifyWorkers ELSE workerPc
          /\ UNCHANGED <<writerPc, writerQueue, stopThreads>>
      BY <2>1 DEF RegisterShader, writerVars
    <3> HIDE DEF items
    <3>2. CASE items = <<>>
      <4>1. workerQueue' = workerQueue
        BY <1>1, <3>1, <3>2
      <4> QED BY <1>2, <3>1, <3>2, <4>1 DEF NoLostWakeup
    <3>3. CASE items # <<>>
      BY <1>2, <3>1, <3>3 DEF NotifyWorkers, NoLostWakeup
    <3> QED BY <3>2, <3>3
  <2>2. CASE ~RegisterShader(c)
    BY <1>3, <1>8, <2>2 DEF CreatorStep, GetShaderModule, InsertModule, writerVars, workerVars
  <2> QED BY <2>1, <2>2
<1>9. ASSUME NEW w \in Workers, WorkerStep(w) PROVE NoLostWakeup'
  <2>1. UNCHANGED <<writerPc, writerQueue, stopThreads>>
    BY <1>9 DEF WorkerStep, WorkerLoop, WorkerTake, CompilePipeline, writerVars
  <2>2. CASE WorkerLoop(w) \/ CompilePipeline(w)
    <3>1. /\ UNCHANGED workerQueue
          /\ \/ \E pc : pc # "asleep" /\ workerPc' = [workerPc EXCEPT ![w] = pc]
             \/ UNCHANGED workerPc
      BY <2>2 DEF WorkerLoop, CompilePipeline
    <3> QED BY <1>1, <1>2, <2>1, <3>1 DEF NoLostWakeup
  <2>3. CASE WorkerTake(w)
    <3>1. CASE workerQueue # <<>>
      BY <1>1, <1>2, <2>1, <2>3, <3>1 DEF WorkerTake, NoLostWakeup
    <3>2. CASE workerQueue = <<>>
      BY <1>1, <1>2, <2>1, <2>3, <3>2 DEF WorkerTake, NoLostWakeup
    <3> QED BY <3>1, <3>2
  <2> QED BY <1>9, <2>2, <2>3 DEF WorkerStep
<1>10. CASE WriterStep
  <2>1. UNCHANGED <<stopThreads, workerPc, workerQueue>>
    BY <1>10 DEF WriterStep, WriterLoop, WriterTake, WriteEntry, workerVars
  <2>2. writerPc' = "asleep" => writerQueue' = <<>> /\ ~stopThreads
    BY <1>10 DEF WriterStep, WriterLoop, WriterTake, WriteEntry
  <2> QED BY <1>2, <2>1, <2>2 DEF NoLostWakeup
<1>11. CASE DrawStep
  <2>1. UNCHANGED <<stopThreads, workerPc, workerQueue>>
    BY <1>11 DEF DrawStep, GetPipelineHandle, WritePipelineStateToCache, workerVars
  <2>2. UNCHANGED <<writerPc, writerQueue>> \/ writerPc' # "asleep"
    BY <1>11 DEF DrawStep, GetPipelineHandle, WritePipelineStateToCache, writerVars,
           AddPipeline, QueueForWriter, NotifyWriter
  <2> QED BY <1>2, <2>1, <2>2 DEF NoLostWakeup
<1>12. CASE UNCHANGED vars
  BY <1>3, <1>12 DEF vars, writerVars, workerVars
<1> QED BY <1>4, <1>5, <1>6, <1>7, <1>8, <1>9, <1>10, <1>11, <1>12 DEF Next, Shutdown

(* Whoever queues a pipeline to compile or an entry to write, and the        *)
(* destructor, wakes the threads that sleep for it: every worker, and the    *)
(* one writer (dxvk_state_cache.cpp:114, 148, 172 and 209).                  *)
THEOREM WakeupsAreKept == Spec => []NoLostWakeup
<1>1. Init => NoLostWakeup
  BY DEF Init, InitFile, NoThreads, NoLostWakeup
<1>2. TypeOK /\ NoLostWakeup /\ [Next]_vars => NoLostWakeup'
  BY WakeStep
<1> QED BY <1>1, <1>2, TypeCorrect, PTL DEF Spec
===============================================================================
