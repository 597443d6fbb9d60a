--------------------------- MODULE SubmissionQueue ---------------------------
(***************************************************************************)
(* DxvkSubmissionQueue (dxvk_queue.cpp) with the parts of DxvkDevice and    *)
(* DxvkCommandList it drives.  Client threads call into DxvkDevice: they    *)
(* render frames (record a command list, submit it, present), flush command *)
(* lists without presenting, lock the Vulkan queue for an external library  *)
(* and wait for idle.  Two worker threads own the rest: "dxvk-submit" hands *)
(* entries to Vulkan, "dxvk-queue" waits for fences and recycles the lists. *)
(*                                                                          *)
(* One action is one critical section of m_mutex, of m_mutexQueue or one    *)
(* unlocked access to shared state.  A wait on a condition variable is      *)
(* explicit: a thread whose predicate is false goes to sleep and runs again *)
(* only once that variable is notified.  The predicate is evaluated again   *)
(* after a wake-up, as std::condition_variable::wait(lock, pred) does.      *)
(***************************************************************************)
EXTENDS Integers, Sequences, FiniteSets, Functions

CONSTANTS
    CmdLists,       \* command list objects that may be alive at once
    Clients,        \* threads using the device; each owns one presenter
    Submitter,      \* the dxvk-submit thread
    Finisher,       \* the dxvk-queue thread
    Nobody,         \* owner of a free mutex, and "no command list"
    MaxQueued,      \* MaxNumQueuedCommandBuffers
    RecyclerSize,   \* capacity of m_recycledCommandLists
    MaxFailures,    \* bound: Vulkan failures of submissions and fence waits
    AsyncModes,     \* values m_asyncPresent may be configured to
    Calls           \* bound: the calls clients make, see BeginCall

ASSUME SizesAssumption ==
    /\ MaxQueued \in Nat /\ RecyclerSize \in Nat /\ MaxFailures \in Nat
    /\ AsyncModes \subseteq BOOLEAN
    /\ Calls \subseteq {"dirty", "await", "flush", "syncLock", "syncIdle"}

ASSUME IdentitiesAssumption ==
    /\ CmdLists \cap Clients = {}
    /\ Submitter # Finisher
    /\ {Submitter, Finisher} \cap Clients = {}
    /\ Nobody \notin CmdLists \cup Clients \cup {Submitter, Finisher}

VARIABLES
    asyncPresent,   \* m_asyncPresent
    submitQueue,    \* m_submitQueue: a command list, or a client's present
    finishQueue,    \* m_finishQueue
    pending,        \* m_pending
    stopped,        \* m_stopped
    mutex,          \* holder of m_mutex across a Vulkan call, or Nobody
    mutexQueue,     \* holder of m_mutexQueue, or Nobody
    asleep,         \* threads blocked in wait(), per condition variable
    pc,             \* where each thread is
    submitOk,       \* result of the submit thread's last Vulkan call
    status,         \* DxvkSubmitStatus of each client's presenter
    recording,      \* command list each client is recording, or Nobody
    recycler,       \* DxvkDevice::m_recycledCommandLists
    gpuQueue,       \* lists the GPU has been given and has not completed
    fenced,         \* lists whose fence is signaled
    failures        \* Vulkan failures so far

queueVars  == <<submitQueue, finishQueue, pending>>
lockVars   == <<mutex, mutexQueue>>
deviceVars == <<recording, recycler, fenced>>
allButPc == <<asyncPresent, queueVars, stopped, lockVars, asleep, submitOk,
              status, deviceVars, gpuQueue, failures>>
vars == <<allButPc, pc>>

Workers == {Submitter, Finisher}
Threads == Clients \cup Workers
Conds   == {"append", "submit", "finish"}

ClientStates == {"idle", "dirty", "recreateFirst", "await", "recreate", "record",
                 "acquire", "submitFrame", "present", "presenting", "check",
                 "recreateLast", "flush", "submitFlush", "syncLock", "lock",
                 "locked", "syncIdle", "idling", "done"}
WorkerStates == {"wait", "taken", "inVulkan", "store", "fence", "reset",
                 "retire", "stopped"}

----------------------------------------------------------------------------
(* Helpers *)

Lists(q) == Range(q) \cap CmdLists

(* The worker's entry stays in the front slot of the queue while it works on
   it, moved from; from these points on it no longer stands for work to do. *)
Unissued   == IF pc[Submitter] \in {"store", "retire"}
              THEN Tail(submitQueue) ELSE submitQueue
Unfinished == IF pc[Finisher] = "retire" THEN Tail(finishQueue) ELSE finishQueue

Recorded == {recording[c] : c \in Clients} \ {Nobody}

(* Objects operator new may return: nothing refers to these. *)
Fresh == CmdLists \ (Recorded \cup Range(recycler) \cup Range(submitQueue)
                     \cup Range(Unfinished) \cup Range(gpuQueue))

(* The steps of the critical sections that are easy to get wrong. In front of
   each one, used by nothing else, stands the mistake it is checked against. *)
AdmissionLimitOffByOne == MaxQueued + 1
AdmissionLimit == MaxQueued

Synchronized == submitQueue = <<>>

FenceNotReset(l) == UNCHANGED fenced
ResetFence(l) == fenced' = fenced \ {l}

FenceTimeoutIgnored(l) == TRUE
FenceSignaled(l) == l \in fenced

NotCounted == UNCHANGED pending
CountSubmission == pending' = pending + 1

StatusNotMarked(c) == UNCHANGED status
MarkNotReady(c) == status' = [status EXCEPT ![c] = "notReady"]

DeviceQueueIgnored == TRUE
DeviceQueueFree == mutexQueue = Nobody

AnythingIsFinishable(e) == submitOk
Finishable(e) == submitOk /\ e \in CmdLists

NoNotify == UNCHANGED asleep
Notify(conds) ==
    asleep' = [q \in Conds |-> IF q \in conds THEN {} ELSE asleep[q]]

NotifyAppended == Notify({"append"})
NotifySubmitted == Notify({"submit"})
NotifySubmittedInstead == Notify({"submit"})
NotifyFinished == Notify({"finish"})
NotifyStoppedHalf == Notify({"append"})
NotifyStopped == Notify({"append", "submit"})

Awake(t) == \A q \in Conds : t \notin asleep[q]

(* The condition variable a thread waits on where it is now. *)
WaitsOn(t) ==
    CASE pc[t] = "wait" -> IF t = Submitter THEN "append" ELSE "submit"
      [] pc[t] \in {"submitFrame", "submitFlush"} -> "finish"
      [] OTHER -> "submit"

(* The predicate it passes to wait(). *)
Admits(t) ==
    CASE t = Submitter -> stopped \/ submitQueue # <<>>
      [] t = Finisher -> stopped \/ finishQueue # <<>>
      [] pc[t] \in {"submitFrame", "submitFlush"} ->
            Len(submitQueue) + Len(finishQueue) <= AdmissionLimit
      [] pc[t] \in {"dirty", "await"} -> status[t] # "notReady"
      [] OTHER -> Synchronized

Waits(t) == \/ pc[t] \in {"wait", "dirty", "await", "submitFrame", "submitFlush",
                           "syncLock", "syncIdle"}
            \/ pc[t] = "present" /\ ~asyncPresent

(* A thread at such a point takes m_mutex and finds its predicate true ... *)
Proceeds(t) == Waits(t) /\ Awake(t) /\ mutex = Nobody /\ Admits(t)

(* ... or false, and blocks. *)
Sleep(t) ==
    /\ Waits(t) /\ Awake(t) /\ mutex = Nobody /\ ~Admits(t)
    /\ asleep' = [asleep EXCEPT ![WaitsOn(t)] = @ \cup {t}]
    /\ UNCHANGED <<asyncPresent, queueVars, stopped, lockVars, pc, submitOk,
                   status, deviceVars, gpuQueue, failures>>

Goto(t, to) == pc' = [pc EXCEPT ![t] = to]

----------------------------------------------------------------------------
Init ==
    /\ asyncPresent \in AsyncModes
    /\ submitQueue = <<>> /\ finishQueue = <<>> /\ pending = 0
    /\ stopped = FALSE /\ mutex = Nobody /\ mutexQueue = Nobody
    /\ asleep = [q \in Conds |-> {}]
    /\ pc = [t \in Threads |-> IF t \in Workers THEN "wait" ELSE "idle"]
    /\ submitOk = FALSE
    /\ status = [c \in Clients |-> "success"]
    /\ recording = [c \in Clients |-> Nobody]
    /\ recycler = <<>> /\ gpuQueue = <<>> /\ fenced = {} /\ failures = 0

----------------------------------------------------------------------------
(* Client threads *)

(* Begin a frame, with a swap chain that is or is not dirty, a flush, an
   external submission or the final waitForIdle. *)
BeginCall(c) ==
    /\ pc[c] = "idle"
    /\ \E to \in Calls : Goto(c, to)
    /\ UNCHANGED allButPc

(* waitForSubmission, before a dirty swap chain is recreated or a frame is
   recorded: the status is read without the mutex first. *)
WaitForSubmission(c) ==
    /\ pc[c] \in {"dirty", "await"} /\ Awake(c) /\ Admits(c)
    /\ Goto(c, CASE pc[c] = "dirty" -> "recreateFirst"
                 [] pc[c] = "await" /\ status[c] = "success" -> "record"
                 [] OTHER -> "recreate")
    /\ UNCHANGED allButPc

(* RecreateSwapChain: in Present when the swap chain is dirty, and where a
   frame starts, acquires its image or ends.  Its own waitForSubmission has to
   wait only in the first case. *)
MayRecreate(c) ==
    pc[c] \in {"recreateFirst", "recreate", "recreateLast"} /\ status[c] # "notReady"

RecreateSwapChain(c) ==
    /\ MayRecreate(c)
    /\ status' = [status EXCEPT ![c] = "success"]
    /\ Goto(c, CASE pc[c] = "recreateFirst" -> "await"
                 [] pc[c] = "recreateLast" -> "idle"
                 [] pc[c] = "recreate" /\ recording[c] # Nobody -> "acquire"
                 [] OTHER -> "record")
    /\ UNCHANGED <<asyncPresent, queueVars, stopped, lockVars, asleep, submitOk,
                   deviceVars, gpuQueue, failures>>

(* It throws when Vulkan gives it no swap chain, the status already set: the
   call to Present ends, and nobody submits the list it may have begun. *)
RecreationFails(c) ==
    /\ MayRecreate(c)
    /\ status' = [status EXCEPT ![c] = "success"]
    /\ recording' = [recording EXCEPT ![c] = Nobody]
    /\ Goto(c, "idle")
    /\ UNCHANGED <<asyncPresent, queueVars, stopped, lockVars, asleep, submitOk,
                   recycler, fenced, gpuQueue, failures>>

(* createCommandList, then beginRecording, which resets the list's fence. *)
CreateCommandList(c) ==
    /\ pc[c] \in {"record", "flush"}
    /\ \E l \in CmdLists :
          /\ IF recycler # <<>>
             THEN /\ l = recycler[Len(recycler)]
                  /\ recycler' = SubSeq(recycler, 1, Len(recycler) - 1)
             ELSE l \in Fresh /\ UNCHANGED recycler
          /\ recording' = [recording EXCEPT ![c] = l]
          /\ ResetFence(l)
    /\ Goto(c, IF pc[c] = "record" THEN "acquire" ELSE "submitFlush")
    /\ UNCHANGED <<asyncPresent, queueVars, stopped, lockVars, asleep, submitOk,
                   status, gpuQueue, failures>>

(* acquireNextImage; a swap chain that is out of date is recreated. *)
AcquireNextImage(c) ==
    /\ pc[c] = "acquire"
    /\ \E to \in {"submitFrame", "recreate"} : Goto(c, to)
    /\ UNCHANGED allButPc

(* DxvkSubmissionQueue::submit, past its wait. *)
Submit(c) ==
    /\ pc[c] \in {"submitFrame", "submitFlush"} /\ Proceeds(c)
    /\ CountSubmission
    /\ submitQueue' = Append(submitQueue, recording[c])
    /\ recording' = [recording EXCEPT ![c] = Nobody]
    /\ NotifyAppended
    /\ Goto(c, IF pc[c] = "submitFrame" THEN "present" ELSE "idle")
    /\ UNCHANGED <<asyncPresent, finishQueue, stopped, lockVars, submitOk,
                   status, recycler, fenced, gpuQueue, failures>>

(* DxvkDevice::presentImage marks the status and queues the present. *)
PresentAsync(c) ==
    /\ pc[c] = "present" /\ asyncPresent /\ mutex = Nobody
    /\ MarkNotReady(c)
    /\ submitQueue' = Append(submitQueue, c)
    /\ NotifyAppended
    /\ Goto(c, "check")
    /\ UNCHANGED <<asyncPresent, finishQueue, pending, stopped, lockVars,
                   submitOk, deviceVars, gpuQueue, failures>>

(* Without async present the caller waits until everything is issued, then
   presents itself: it keeps m_mutex but does not take m_mutexQueue. *)
PresentSyncBegin(c) ==
    /\ pc[c] = "present" /\ ~asyncPresent /\ Proceeds(c)
    /\ MarkNotReady(c)
    /\ mutex' = c
    /\ Goto(c, "presenting")
    /\ UNCHANGED <<asyncPresent, queueVars, stopped, mutexQueue, asleep,
                   submitOk, deviceVars, gpuQueue, failures>>

PresentSyncEnd(c) ==
    /\ pc[c] = "presenting"
    /\ \E s \in {"success", "error"} : status' = [status EXCEPT ![c] = s]
    /\ mutex' = Nobody
    /\ Goto(c, "check")
    /\ UNCHANGED <<asyncPresent, queueVars, stopped, mutexQueue, asleep,
                   submitOk, deviceVars, gpuQueue, failures>>

(* A present that has already failed is followed by a new swap chain. *)
CheckPresent(c) ==
    /\ pc[c] = "check"
    /\ Goto(c, IF status[c] = "error" THEN "recreateLast" ELSE "idle")
    /\ UNCHANGED allButPc

(* DxvkSubmissionQueue::synchronize, for lockSubmission and waitForIdle. *)
Synchronize(c) ==
    /\ pc[c] \in {"syncLock", "syncIdle"} /\ Proceeds(c)
    /\ Goto(c, IF pc[c] = "syncLock" THEN "lock" ELSE "idling")
    /\ UNCHANGED allButPc

LockDeviceQueue(c) ==
    /\ pc[c] = "lock" /\ DeviceQueueFree
    /\ mutexQueue' = c
    /\ Goto(c, "locked")
    /\ UNCHANGED <<asyncPresent, queueVars, stopped, mutex, asleep, submitOk,
                   status, deviceVars, gpuQueue, failures>>

UnlockDeviceQueue(c) ==
    /\ pc[c] = "locked"
    /\ mutexQueue' = Nobody
    /\ Goto(c, "idle")
    /\ UNCHANGED <<asyncPresent, queueVars, stopped, mutex, asleep, submitOk,
                   status, deviceVars, gpuQueue, failures>>

(* vkDeviceWaitIdle returns; the client's swap chain goes away after this.  A
   failure, which the code logs and ignores, is left out. *)
WaitIdleReturns(c) ==
    /\ pc[c] = "idling" /\ gpuQueue = <<>>
    /\ Goto(c, "done")
    /\ UNCHANGED allButPc

(* ~DxvkSubmissionQueue: the device is destroyed by its last user. *)
Stop ==
    /\ \A c \in Clients : pc[c] = "done"
    /\ ~stopped /\ mutex = Nobody
    /\ stopped' = TRUE
    /\ NotifyStopped
    /\ UNCHANGED <<asyncPresent, queueVars, lockVars, pc, submitOk, status,
                   deviceVars, gpuQueue, failures>>

----------------------------------------------------------------------------
(* The submit thread *)

SubmitterTake ==
    /\ pc[Submitter] = "wait" /\ Proceeds(Submitter)
    /\ Goto(Submitter, IF stopped THEN "stopped" ELSE "taken")
    /\ UNCHANGED allButPc

SubmitterLock ==
    /\ pc[Submitter] = "taken" /\ DeviceQueueFree
    /\ mutexQueue' = Submitter
    /\ Goto(Submitter, "inVulkan")
    /\ UNCHANGED <<asyncPresent, queueVars, stopped, mutex, asleep, submitOk,
                   status, deviceVars, gpuQueue, failures>>

(* DxvkCommandList::submit gives the list to the GPU, or fails. *)
IssueCmdList ==
    /\ pc[Submitter] = "inVulkan" /\ Head(submitQueue) \in CmdLists
    /\ \/ /\ gpuQueue' = Append(gpuQueue, Head(submitQueue))
          /\ submitOk' = TRUE
          /\ UNCHANGED failures
       \/ /\ failures < MaxFailures
          /\ failures' = failures + 1
          /\ submitOk' = FALSE
          /\ UNCHANGED gpuQueue
    /\ mutexQueue' = Nobody
    /\ Goto(Submitter, "retire")
    /\ UNCHANGED <<asyncPresent, queueVars, stopped, mutex, asleep, status,
                   deviceVars>>

(* Presenter::presentImage; an out of date swap chain is no failure here. *)
IssuePresent ==
    /\ pc[Submitter] = "inVulkan" /\ Head(submitQueue) \in Clients
    /\ submitOk' \in BOOLEAN
    /\ mutexQueue' = Nobody
    /\ Goto(Submitter, "store")
    /\ UNCHANGED <<asyncPresent, queueVars, stopped, mutex, asleep, status,
                   deviceVars, gpuQueue, failures>>

(* The result is stored without m_mutex held. *)
StoreStatus ==
    /\ pc[Submitter] = "store"
    /\ status' = [status EXCEPT ![Head(submitQueue)] =
                     IF submitOk THEN "success" ELSE "error"]
    /\ Goto(Submitter, "retire")
    /\ UNCHANGED <<asyncPresent, queueVars, stopped, lockVars, asleep, submitOk,
                   deviceVars, gpuQueue, failures>>

SubmitterRetire ==
    /\ pc[Submitter] = "retire" /\ mutex = Nobody
    /\ finishQueue' = IF Finishable(Head(submitQueue))
                      THEN Append(finishQueue, Head(submitQueue))
                      ELSE finishQueue
    /\ submitQueue' = Tail(submitQueue)
    /\ submitOk' = FALSE
    /\ NotifySubmitted
    /\ Goto(Submitter, "wait")
    /\ UNCHANGED <<asyncPresent, pending, stopped, lockVars, status, deviceVars,
                   gpuQueue, failures>>

----------------------------------------------------------------------------
(* The finish thread *)

FinisherTake ==
    /\ pc[Finisher] = "wait" /\ Proceeds(Finisher)
    /\ Goto(Finisher, IF stopped THEN "stopped" ELSE "fence")
    /\ UNCHANGED allButPc

(* DxvkCommandList::synchronize, which retries when it times out.  It fails
   only when the device is lost: the list, the oldest one on the GPU, is given
   up by both. *)
FenceWait ==
    /\ pc[Finisher] = "fence"
    /\ \/ /\ FenceSignaled(Head(finishQueue))
          /\ Goto(Finisher, "reset")
          /\ UNCHANGED <<gpuQueue, failures>>
       \/ /\ ~FenceSignaled(Head(finishQueue)) /\ gpuQueue # <<>>
          /\ failures < MaxFailures
          /\ failures' = failures + 1
          /\ gpuQueue' = Tail(gpuQueue)
          /\ Goto(Finisher, "retire")
    /\ UNCHANGED <<asyncPresent, queueVars, stopped, lockVars, asleep, submitOk,
                   status, deviceVars>>

(* notifySignals, reset and recycleCommandList, all outside m_mutex: the list
   can be recorded again before its slot leaves the queue. *)
RecycleCommandList ==
    /\ pc[Finisher] = "reset"
    /\ recycler' = IF Len(recycler) < RecyclerSize
                   THEN Append(recycler, Head(finishQueue)) ELSE recycler
    /\ Goto(Finisher, "retire")
    /\ UNCHANGED <<asyncPresent, queueVars, stopped, lockVars, asleep, submitOk,
                   status, recording, fenced, gpuQueue, failures>>

FinisherRetire ==
    /\ pc[Finisher] = "retire" /\ mutex = Nobody
    /\ pending' = pending - 1
    /\ finishQueue' = Tail(finishQueue)
    /\ NotifyFinished
    /\ Goto(Finisher, "wait")
    /\ UNCHANGED <<asyncPresent, submitQueue, stopped, lockVars, submitOk,
                   status, deviceVars, gpuQueue, failures>>

----------------------------------------------------------------------------
(* The GPU completes lists in submission order and signals their fences. *)
GpuComplete ==
    /\ gpuQueue # <<>>
    /\ fenced' = fenced \cup {Head(gpuQueue)}
    /\ gpuQueue' = Tail(gpuQueue)
    /\ UNCHANGED <<asyncPresent, queueVars, stopped, lockVars, asleep, pc,
                   submitOk, status, recording, recycler, failures>>

(* Both threads have been joined: nothing is left to run. *)
Terminated ==
    /\ pc[Submitter] = "stopped" /\ pc[Finisher] = "stopped"
    /\ UNCHANGED vars

ClientCall(c) ==
    \/ WaitForSubmission(c) \/ RecreateSwapChain(c) \/ RecreationFails(c)
    \/ CreateCommandList(c) \/ AcquireNextImage(c) \/ Submit(c) \/ PresentAsync(c)
    \/ PresentSyncBegin(c) \/ PresentSyncEnd(c) \/ CheckPresent(c)
    \/ Synchronize(c) \/ LockDeviceQueue(c) \/ UnlockDeviceQueue(c) \/ WaitIdleReturns(c)

SubmitterStep == SubmitterTake \/ SubmitterLock \/ IssueCmdList \/ IssuePresent
                 \/ StoreStatus \/ SubmitterRetire
FinisherStep  == FinisherTake \/ FenceWait \/ RecycleCommandList \/ FinisherRetire

Next ==
    \/ \E c \in Clients : BeginCall(c) \/ ClientCall(c)
    \/ \E t \in Threads : Sleep(t)
    \/ Stop \/ SubmitterStep \/ FinisherStep \/ GpuComplete \/ Terminated

Spec == Init /\ [][Next]_vars

(* Every started call and both workers keep running; vkQueue* calls, fences
   and external libraries return.  Nobody is obliged to begin a call. *)
FairSpec ==
    /\ Spec
    /\ WF_vars(SubmitterStep \/ Sleep(Submitter))
    /\ WF_vars(FinisherStep \/ Sleep(Finisher))
    /\ \A c \in Clients : WF_vars(ClientCall(c) \/ Sleep(c))
    /\ WF_vars(GpuComplete) /\ WF_vars(Stop)

----------------------------------------------------------------------------
(* Safety *)

FlagTypes ==
    /\ asyncPresent \in BOOLEAN /\ stopped \in BOOLEAN /\ submitOk \in BOOLEAN
QueueTypes ==
    /\ submitQueue \in Seq(CmdLists \cup Clients)
    /\ finishQueue \in Seq(CmdLists) /\ gpuQueue \in Seq(CmdLists)
    /\ recycler \in Seq(CmdLists)
CounterTypes == pending \in Int /\ failures \in Nat
LockTypes ==
    /\ mutex \in Clients \cup {Nobody}
    /\ mutexQueue \in Clients \cup {Submitter, Nobody}
    /\ asleep \in [Conds -> SUBSET Threads]
ClientTypes ==
    /\ status \in [Clients -> {"success", "notReady", "error"}]
    /\ recording \in [Clients -> CmdLists \cup {Nobody}]
    /\ fenced \subseteq CmdLists
TypeOK ==
    /\ FlagTypes /\ QueueTypes /\ CounterTypes /\ LockTypes /\ ClientTypes
    /\ pc \in [Threads -> ClientStates \cup WorkerStates]

(* A list the recycler may hand out, or a client records, is nowhere in the
   queues and not on the GPU, and no two owners share one: reset() and
   beginRecording() never touch a list that is still executing. *)
ListOwnership ==
    LET queued == Lists(submitQueue) IN
    /\ IsInjective(recycler)
    /\ (Recorded \cup Range(recycler)) \cap
          (queued \cup Range(Unfinished) \cup Range(gpuQueue)) = {}
    /\ Recorded \cap Range(recycler) = {}
    /\ queued \cap Range(Unfinished) = {}
    /\ \A c, d \in Clients :
          recording[c] = recording[d] => c = d \/ recording[c] = Nobody

(* While a client acquires an image, renders to it or recreates its swap
   chain, no present of that swap chain is left to be issued: the present
   reads the presenter's current image index and swap chain. *)
PresenterQuiescent ==
    \A c \in Clients :
        pc[c] \in {"recreateFirst", "recreate", "record", "acquire", "submitFrame",
                   "present", "recreateLast"} => c \notin Range(Unissued)

(* Threads inside a call that uses the VkQueue. *)
QueueUsers == {c \in Clients : pc[c] \in {"presenting", "locked"}} \cup
              {t \in {Submitter} : pc[t] = "inVulkan"}

(* With async present, the submit thread and the external libraries that
   went through lockSubmission never use the VkQueue at the same time. *)
AsyncQueueExclusive == asyncPresent => Cardinality(QueueUsers) <= 1

(* The count read by pendingSubmissions never misses work: every list that is
   queued, on the GPU or waits for its fence is in it, even after failures. *)
PendingCoversWork ==
    /\ Cardinality(Lists(Unissued) \cup Range(Unfinished) \cup Range(gpuQueue))
          <= pending
    /\ pending = 0 => gpuQueue = <<>>

(* submit() throttles: however clients race, there is at most one list more
   than MaxNumQueuedCommandBuffers between submit() and its fence. *)
InFlightBound == Cardinality(Lists(submitQueue)) + Len(finishQueue) <= MaxQueued + 1

(* No lost wake-up: whoever sleeps does so on a predicate that is false or
   that an entry still in a queue will be notified of. Presents are popped
   without a notification of m_finishCond, so this relies on lists. *)
SleeperHasWaker ==
    /\ asleep["append"] # {} => submitQueue = <<>> /\ ~stopped
    /\ Finisher \in asleep["submit"] => finishQueue = <<>> /\ ~stopped
    /\ asleep["submit"] \cap Clients # {} => submitQueue # <<>>
    /\ asleep["finish"] # {} /\ failures = 0
          => finishQueue # <<>> \/ Lists(submitQueue) # {}

(* The device is destroyed with nothing queued for the GPU or running on it:
   each client's final waitForIdle covers what it has submitted. *)
ShutdownSafe ==
    (\A c \in Clients : pc[c] = "done") => submitQueue = <<>> /\ gpuQueue = <<>>

(* Neither those who ask whether the GPU is idle nor those who destroy the
   device overlook work, after failed submissions and fence waits too. *)
WorkAccountedFor == PendingCoversWork /\ ShutdownSafe

(* Entries of the submit queue that are still to be dealt with: a present is
   through once its status is stored, a list once Vulkan has refused it. *)
Waiting == IF pc[Submitter] = "retire" /\ ~Finishable(Head(submitQueue))
           THEN Tail(submitQueue) ELSE submitQueue

(* Lists are executed and retired, and presents reported, in the order they
   were queued, and a list is lost only to a failure of Vulkan. *)
InFlight == Unfinished \o Waiting
Order == INSTANCE InOrderQueue WITH
    Presenters <- Clients,
    inflight <- InFlight,
    executed <- fenced \cap Range(InFlight)
ListsInOrder == Order!Spec

----------------------------------------------------------------------------
(* Liveness, on a device that does not fail *)

(* A thread blocked in submit() is woken, though others may then overtake it,
   and waitForSubmission returns: an accepted present is issued and reported. *)
CallersWake ==
    \A c \in Clients :
        /\ c \in asleep["finish"] ~> c \notin asleep["finish"]
        /\ \A p \in {"dirty", "await"} : pc[c] = p ~> pc[c] # p

(* Once every client is done, both worker threads end and can be joined. *)
ShutdownCompletes ==
    (\A c \in Clients : pc[c] = "done")
        ~> (pc[Submitter] = "stopped" /\ pc[Finisher] = "stopped")

(* Every accepted list is issued, executed and retired, unless the device is
   destroyed first: its destructor does not drain the finish queue. *)
ListsRetired ==
    \A l \in CmdLists :
        l \in Lists(submitQueue)
            ~> (stopped \/ l \notin Lists(submitQueue) \cup Range(Unfinished))

----------------------------------------------------------------------------
(* What the header says, which synchronous presents do not keep *)

(* dxvk_device.h: while an external library has the queue locked, no other
   thread accesses it. *)
LockedQueueIsExclusive ==
    \A c \in Clients : pc[c] = "locked" => QueueUsers = {c}
==============================================================================
