------------------------------ MODULE StateCache ------------------------------
(* The state cache at work: application threads create shaders, the          *)
(* dxvk-shader threads compile what the file says of them, the dxvk-cs       *)
(* thread draws and records what the file did not know                       *)
(* (src/dxvk/dxvk_state_cache.cpp, dxvk_pipemanager.cpp, dxvk_graphics.cpp,  *)
(* dxvk_compute.cpp, src/d3d11/d3d11_shader.cpp, src/d3d9/d3d9_shader.cpp).  *)
(*                                                                           *)
(* Graphics and compute pipelines differ in their shaders only. The code     *)
(* under m_entryLock, m_workerLock and the lock of a pipeline is one step.   *)
EXTENDS StateCacheFile

CONSTANTS
    Shaders,       \* shader keys
    ShadersOf,     \* the shaders of each pipeline
    Creators,      \* threads that create shaders
    ShadersFrom,   \* the shaders that each of them creates
    Workers,       \* the dxvk-shader threads
    NoShader

ASSUME CacheAssumption ==
    /\ NoShader \notin Shaders
    /\ ShadersOf \in [Pipelines -> (SUBSET Shaders) \ {{}}]
    /\ ShadersFrom \in [Creators -> SUBSET Shaders]
    /\ IsFiniteSet(Workers)

VARIABLES
    modules,       \* m_modules of the shader module set
    shaderMap,     \* m_shaderMap
    creator,       \* what each thread in GetShaderModule does next, and for which key
    workerQueue,   \* m_workerQueue
    workerBusy,    \* m_workerBusy
    workerPc,
    item,          \* the shaders that each worker compiles pipelines of
    todo,          \* the pipelines of its item that a worker has yet to compile
    instances,     \* m_pipelines of all pipeline objects, named by their shaders
    drawing        \* the pipeline that the dxvk-cs thread is about to record

shaderVars == <<modules, shaderMap, creator>>
workerVars == <<workerQueue, workerBusy, workerPc, item, todo>>
vars == <<fileVars, sessionVars, readVars, writerVars, stopThreads, shaderVars,
          workerVars, instances, drawing>>

(* Two threads that create one shader make two objects of it.                *)
Objects == Shaders \X Creators
KeyOf(objects) == {o[1] : o \in objects}

Created == {p \in Pipelines : \A k \in ShadersOf[p] : modules[k] # NoShader}
BoundShaders(p) == {modules[k] : k \in ShadersOf[p]}

Registered(map) == {p \in Pipelines : \A k \in ShadersOf[p] : map[k] # NoShader}
ItemOf(map, p) == {map[k] : k \in ShadersOf[p]}

(* compilePipelines looks the pipelines of an item up in m_entryMap.         *)
EntriesOf(objects) == {p \in Range(entries) : ShadersOf[p] = KeyOf(objects)}

(* The state of a process that has not opened the cache.                     *)
NoObjects == [k \in Shaders |-> NoShader]
NobodyCreates == [c \in Creators |-> <<"idle", NoShader>>]
NoThreads == [w \in Workers |-> "ended"]
NoWork == [w \in Workers |-> {}]

Init ==
    /\ InitFile
    /\ modules = NoObjects /\ shaderMap = NoObjects /\ creator = NobodyCreates
    /\ workerQueue = <<>> /\ workerBusy = 0 /\ workerPc = NoThreads
    /\ item = NoWork /\ todo = NoWork
    /\ instances = {} /\ drawing = NoPipeline

(* Nothing but the file is left of a session.                                *)
EndProcess ==
    /\ EndSession
    /\ modules' = NoObjects /\ shaderMap' = NoObjects /\ creator' = NobodyCreates
    /\ workerQueue' = <<>> /\ workerBusy' = 0 /\ workerPc' = NoThreads
    /\ item' = NoWork /\ todo' = NoWork
    /\ instances' = {} /\ drawing' = NoPipeline

-------------------------------------------------------------------------------
(* Sessions                                                                  *)

(* Once the file has been read, or rewritten, the threads are started.       *)
StartThreads ==
    IF session' = "running"
    THEN /\ workerBusy' = Cardinality(Workers)
         /\ workerPc' = [w \in Workers |-> "loop"]
         /\ writerPc' = "loop"
    ELSE UNCHANGED <<workerBusy, workerPc, writerPc>>

OpenCache ==
    /\ FinishReading \/ FinishRewrite
    /\ StartThreads
    /\ UNCHANGED <<shaderVars, workerQueue, item, todo, instances, drawing>>

ReadCache ==
    /\ OpenFile \/ ReadCacheEntry \/ RewriteEntry
    /\ UNCHANGED <<shaderVars, workerVars, instances, drawing>>

(* The device is destroyed when no context is left. The pipeline manager     *)
(* destroys its pipelines before the state cache, whose threads still run.   *)
DestroyPipelines ==
    /\ session = "running" /\ drawing = NoPipeline
    /\ \A c \in Creators : creator[c][1] = "idle"
    /\ session' = "destroying"
    /\ instances' = {}
    /\ UNCHANGED <<fileVars, faults, readVars, writerVars, stopThreads,
                   shaderVars, workerVars, drawing>>

NotifyWorkers == [w \in Workers |-> IF workerPc[w] = "asleep" THEN "wait" ELSE workerPc[w]]

StopThreads ==
    /\ session = "destroying"
    /\ session' = "stopping"
    /\ StopWriter /\ workerPc' = NotifyWorkers
    /\ UNCHANGED <<fileVars, faults, readVars, writerQueue, writing, opened, shaderVars,
                   workerQueue, workerBusy, item, todo, instances, drawing>>

JoinThreads ==
    /\ session = "stopping" /\ writerPc = "ended"
    /\ \A w \in Workers : workerPc[w] = "ended"
    /\ EndProcess
    /\ UNCHANGED <<fileVars, faults>>

KillProcess == Kill /\ EndProcess

-------------------------------------------------------------------------------
(* Shaders                                                                   *)

(* GetShaderModule looks for the module, and makes one if there is none.     *)
GetShaderModule(c, k) ==
    /\ session = "running" /\ creator[c][1] = "idle" /\ modules[k] = NoShader
    /\ creator' = [creator EXCEPT ![c] = <<"register", k>>]
    /\ UNCHANGED <<fileVars, sessionVars, readVars, writerVars, stopThreads, modules,
                   shaderMap, workerVars, instances, drawing>>

(* The map with the shader, unless it holds an object of that key.           *)
Inserted(map, k, object) == IF map[k] = NoShader THEN [map EXCEPT ![k] = object] ELSE map

(* The indices in the order in which m_pipelineMap yields them: there is one *)
(* for each entry with the shader.                                           *)
Ordered(ids) == CHOOSE s \in [1 .. Cardinality(ids) -> ids] : Range(s) = ids

Completed(map, k) ==
    {i \in DOMAIN entries : k \in ShadersOf[entries[i]] /\ entries[i] \in Registered(map)}
ItemsOf(map, ids) == [j \in DOMAIN ids |-> ItemOf(map, entries[ids[j]])]

ScheduledBefore(map, k) == ItemsOf(shaderMap, Ordered(Completed(shaderMap, k)))
Scheduled(map, k) == ItemsOf(map, Ordered(Completed(map, k)))

(* registerShader.                                                           *)
RegisterShader(c) ==
    LET k == creator[c][2] IN
    /\ creator[c][1] = "register"
    /\ shaderMap' = Inserted(shaderMap, k, <<k, c>>)
    /\ LET items == Scheduled(shaderMap', k) IN
       /\ workerQueue' = workerQueue \o items
       /\ workerPc' = IF items # <<>> THEN NotifyWorkers ELSE workerPc
    /\ creator' = [creator EXCEPT ![c] = <<"insert", k>>]
    /\ UNCHANGED <<fileVars, sessionVars, readVars, writerVars, stopThreads, modules,
                   workerBusy, item, todo, instances, drawing>>

(* GetShaderModule keeps the module, unless another thread was faster.       *)
InsertModule(c) ==
    LET k == creator[c][2] IN
    /\ creator[c][1] = "insert"
    /\ modules' = Inserted(modules, k, <<k, c>>)
    /\ creator' = [creator EXCEPT ![c] = <<"idle", NoShader>>]
    /\ UNCHANGED <<fileVars, sessionVars, readVars, writerVars, stopThreads, shaderMap,
                   workerVars, instances, drawing>>

-------------------------------------------------------------------------------
(* The dxvk-shader threads                                                   *)

WorkerLoop(w) ==
    /\ workerPc[w] = "loop"
    /\ workerPc' = [workerPc EXCEPT ![w] = IF stopThreads THEN "ended" ELSE "lock"]
    /\ UNCHANGED <<fileVars, sessionVars, readVars, writerVars, stopThreads, shaderVars,
                   workerQueue, workerBusy, item, todo, instances, drawing>>

BusyAfterWake(w) ==
    CASE workerPc[w] = "lock" /\ workerQueue = <<>> -> workerBusy - 1
      [] workerPc[w] = "wait" -> workerBusy + 1
      [] OTHER -> workerBusy

(* A worker is idle from when it finds the queue empty until it finds an item *)
(* after it was woken.                                                       *)
BusyAfter(w) ==
    CASE workerPc[w] = "lock" /\ workerQueue = <<>> -> workerBusy - 1
      [] workerPc[w] = "wait" /\ workerQueue # <<>> -> workerBusy + 1
      [] OTHER -> workerBusy

WorkerTake(w) ==
    /\ workerPc[w] \in {"lock", "wait"}
    /\ workerBusy' = BusyAfter(w)
    /\ IF workerQueue # <<>>
       THEN /\ item' = [item EXCEPT ![w] = Head(workerQueue)]
            /\ todo' = [todo EXCEPT ![w] = EntriesOf(Head(workerQueue))]
            /\ workerQueue' = Tail(workerQueue)
            /\ workerPc' = [workerPc EXCEPT ![w] = "compile"]
       ELSE /\ workerPc' = [workerPc EXCEPT
                                ![w] = IF stopThreads THEN "ended" ELSE "asleep"]
            /\ UNCHANGED <<workerQueue, item, todo>>
    /\ UNCHANGED <<fileVars, sessionVars, readVars, writerVars, stopThreads, shaderVars,
                   instances, drawing>>

(* compilePipeline for one entry. Once the pipeline manager has destroyed its *)
(* pipelines this is undefined: nothing is left to see of it, or the process *)
(* ends, which is KillProcess.                                               *)
CompilePipeline(w) ==
    /\ workerPc[w] = "compile"
    /\ \E p \in todo[w] :
          /\ instances' = IF session = "running"
                          THEN instances \cup {<<item[w], p>>} ELSE instances
          /\ todo' = [todo EXCEPT ![w] = @ \ {p}]
    /\ IF todo'[w] = {}
       THEN workerPc' = [workerPc EXCEPT ![w] = "loop"] /\ item' = [item EXCEPT ![w] = {}]
       ELSE UNCHANGED <<workerPc, item>>
    /\ UNCHANGED <<fileVars, sessionVars, readVars, writerVars, stopThreads, shaderVars,
                   workerQueue, workerBusy, drawing>>

-------------------------------------------------------------------------------
(* The dxvk-cs thread                                                        *)

(* getPipelineHandle: a pipeline that is not there yet is created, unless its *)
(* state is invalid, which leaves no trace ...                               *)
GetPipelineHandle(p) ==
    /\ session = "running" /\ drawing = NoPipeline /\ p \in Created
    /\ <<BoundShaders(p), p>> \notin instances
    /\ instances' = instances \cup {<<BoundShaders(p), p>>}
    /\ drawing' = p
    /\ UNCHANGED <<fileVars, sessionVars, readVars, writerVars, stopThreads, shaderVars,
                   workerVars>>

(* ... and recorded when its lock has been released.                         *)
WritePipelineStateToCache ==
    /\ drawing # NoPipeline
    /\ AddPipeline(drawing)
    /\ drawing' = NoPipeline
    /\ UNCHANGED <<fileVars, sessionVars, readVars, stopThreads, shaderVars, workerVars,
                   instances>>

-------------------------------------------------------------------------------
CreatorStep(c) ==
    \/ \E k \in ShadersFrom[c] : GetShaderModule(c, k)
    \/ RegisterShader(c) \/ InsertModule(c)
WorkerStep(w) == WorkerLoop(w) \/ WorkerTake(w) \/ CompilePipeline(w)
WriterStep ==
    /\ WriterLoop \/ WriterTake \/ WriteEntry
    /\ UNCHANGED <<shaderVars, workerVars, instances, drawing>>
DrawStep == (\E p \in Pipelines : GetPipelineHandle(p)) \/ WritePipelineStateToCache
Shutdown == DestroyPipelines \/ StopThreads \/ JoinThreads

Next ==
    \/ ReadCache \/ OpenCache \/ Shutdown \/ KillProcess
    \/ \E c \in Creators : CreatorStep(c)
    \/ \E w \in Workers : WorkerStep(w)
    \/ WriterStep \/ DrawStep

Spec == Init /\ [][Next]_vars

(* The threads of the cache run, and a destructor that was called goes on.   *)
FairSpec ==
    /\ Spec
    /\ \A w \in Workers : WF_vars(WorkerStep(w))
    /\ WF_vars(WriterStep)
    /\ WF_vars(StopThreads \/ JoinThreads)

-------------------------------------------------------------------------------
WorkerStates == {"loop", "lock", "wait", "asleep", "compile", "ended"}
CreatorStates == ({"register", "insert"} \X Shaders) \cup {<<"idle", NoShader>>}

ShaderTypes ==
    /\ modules \in [Shaders -> Objects \cup {NoShader}]
    /\ shaderMap \in [Shaders -> Objects \cup {NoShader}]
    /\ creator \in [Creators -> CreatorStates]

WorkerTypes ==
    /\ workerQueue \in Seq(SUBSET Objects)
    /\ workerPc \in [Workers -> WorkerStates]
    /\ item \in [Workers -> SUBSET Objects]
    /\ todo \in [Workers -> SUBSET Pipelines]

(* isCompilingShaders counts the workers that are not idle.                  *)
BusyCount ==
    session \in {"running", "destroying"} =>
        workerBusy = Cardinality({w \in Workers : workerPc[w] \notin {"wait", "asleep"}})

(* The type invariant, with the counter that the HUD reads.                  *)
TypeOK ==
    /\ FileTypes /\ ShaderTypes /\ WorkerTypes /\ BusyCount
    /\ workerBusy \in Int
    /\ instances \subseteq (SUBSET Objects) \X Pipelines
    /\ drawing \in Pipelines \cup {NoPipeline}

(* Every cached pipeline whose shaders have all been registered, in whatever *)
(* order and by whichever threads, has been compiled, is being compiled by a *)
(* worker or is queued: registerShader misses none, and none is dropped.     *)
EntriesScheduled ==
    session = "running" =>
        \A p \in Range(entries) \cap Registered(shaderMap) :
            LET objects == ItemOf(shaderMap, p) IN
            \/ <<objects, p>> \in instances
            \/ objects \in Range(workerQueue)
            \/ \E w \in Workers : item[w] = objects /\ p \in todo[w]

(* No pipeline is twice in the file, or is about to be: neither draws nor    *)
(* sessions nor kills record one again that can be read. And what a session  *)
(* has read, which it will never record, is in the file while it runs.       *)
OnItsWay(p) ==
    Cardinality({i \in DOMAIN writerQueue : writerQueue[i] = p})
    + Cardinality({x \in {writing} : x = p})
    + Cardinality({x \in {drawing} \ Range(entries) : x = p})
StoredOnce ==
    \A p \in Pipelines :
        /\ Cardinality(IdsOf(file, p)) + OnItsWay(p) <= 1
        /\ session = "running" /\ p \in Range(entries) => IdsOf(file, p) # {}

(* Once its last shader is registered a cached pipeline is compiled, unless  *)
(* the session ends: no wake-up of a worker is lost. And ~DxvkStateCache     *)
(* returns: all threads end when they are told to. A session registers       *)
(* finitely many shaders, so again and again nothing is left waiting.        *)
Awaited ==
    {p \in Range(entries) \cap Registered(shaderMap) :
        session = "running" /\ <<ItemOf(shaderMap, p), p>> \notin instances}
NobodyWaits == []<>(Awaited = {} /\ session \notin {"destroying", "stopping"})
===============================================================================
