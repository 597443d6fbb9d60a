------------------------ MODULE SubmissionQueue_proofs ------------------------
(***************************************************************************)
(* Proofs about SubmissionQueue, for any number of clients, command lists   *)
(* and failures and any queue bound.  TypeInv is an inductive invariant on  *)
(* its own; LockInv is inductive relative to it, and so is the conjunction  *)
(* of ListInv and PresenterInv.  InFlightBound, WorkInv, which counts lists, *)
(* WakeInv, which says who will wake a sleeper, and IssuedCovered, which the *)
(* refinement of InOrderQueue needs, are inductive relative to these.       *)
(***************************************************************************)
EXTENDS SubmissionQueue, DataLemmas, SequencesExt, FiniteSetTheorems

SubmitterStates == {"wait", "taken", "inVulkan", "store", "retire", "stopped"}
FinisherStates == {"wait", "fence", "reset", "retire", "stopped"}

(* Each thread stays in its own part of the code. *)
PcOK ==
    /\ \A c \in Clients : pc[c] \in ClientStates
    /\ pc[Submitter] \in SubmitterStates
    /\ pc[Finisher] \in FinisherStates

(* A worker that has taken an entry finds it at the front of its queue. *)
FrontsOK ==
    /\ pc[Submitter] \in {"taken", "inVulkan", "store", "retire"} => submitQueue # <<>>
    /\ pc[Submitter] = "store" => Head(submitQueue) \in Clients
    /\ pc[Finisher] \in {"fence", "reset", "retire"} => finishQueue # <<>>

(* A client holds a command list exactly while it records and submits it. *)
RecordingOK ==
    \A c \in Clients :
        /\ pc[c] \in {"acquire", "submitFrame", "submitFlush"} => recording[c] # Nobody
        /\ pc[c] \notin {"acquire", "submitFrame", "submitFlush", "recreate"}
              => recording[c] = Nobody

TypeInv == TypeOK /\ PcOK /\ FrontsOK /\ RecordingOK

(* Who is inside a critical section owns the mutex of that section. *)
LockInv ==
    /\ pc[Submitter] = "inVulkan" => mutexQueue = Submitter
    /\ \A c \in Clients : pc[c] = "locked" => mutexQueue = c
    /\ \A c \in Clients : pc[c] = "presenting" => ~asyncPresent

(* Entries of the submit queue the submit thread has not reported: a present's
   status is stored before its slot is popped, a list leaves with its slot. *)
Unreported == IF pc[Submitter] = "retire" /\ Head(submitQueue) \in Clients
              THEN Tail(submitQueue) ELSE submitQueue

(* No two owners share a list. *)
OwnersDisjoint ==
    /\ Recorded \cap Range(recycler) = {}
    /\ Recorded \cap Range(submitQueue) = {}
    /\ Recorded \cap Range(Unfinished) = {}
    /\ Range(recycler) \cap Range(submitQueue) = {}
    /\ Range(recycler) \cap Range(Unfinished) = {}
    /\ Range(submitQueue) \cap Range(Unfinished) = {}

(* No owner holds a list twice. *)
NoDuplicates ==
    /\ \A c, d \in Clients : recording[c] = recording[d] => c = d \/ recording[c] = Nobody
    /\ IsInjective(recycler) /\ IsInjective(Unreported)
    /\ IsInjective(Unfinished) /\ IsInjective(gpuQueue)

(* What is not issued yet is neither on the GPU nor does its fence say done. *)
FencesOK ==
    /\ Range(gpuQueue) \cap (Recorded \cup Range(recycler) \cup fenced) = {}
    /\ (Range(gpuQueue) \cup fenced) \cap Range(Unissued) = {}
    /\ fenced \cap Recorded = {}
    /\ pc[Finisher] = "reset" => Head(finishQueue) \in fenced

ListInv == OwnersDisjoint /\ NoDuplicates /\ FencesOK

(* A client whose present is unreported waits for it before it draws again. *)
PresenterInv ==
    \A c \in Range(Unreported) \cap Clients :
        /\ status[c] = "notReady"
        /\ pc[c] \notin {"recreateFirst", "recreate", "record", "acquire", "submitFrame",
                         "present", "presenting", "recreateLast"}

-----------------------------------------------------------------------------
(* Which steps touch what *)

LEMMA QueueFrame ==
  [Next]_vars =>
    \/ UNCHANGED <<submitQueue, finishQueue, gpuQueue, recycler>>
    \/ \E c \in Clients : CreateCommandList(c) \/ Submit(c) \/ PresentAsync(c)
    \/ IssueCmdList \/ SubmitterRetire \/ FenceWait \/ RecycleCommandList
    \/ FinisherRetire \/ GpuComplete
  BY DEF Next, ClientCall, SubmitterStep, FinisherStep, vars, allButPc,
         queueVars, lockVars, deviceVars, BeginCall, WaitForSubmission,
         MayRecreate, RecreateSwapChain, RecreationFails, AcquireNextImage, PresentSyncBegin, PresentSyncEnd,
         CheckPresent, Synchronize, LockDeviceQueue, UnlockDeviceQueue, WaitIdleReturns, Sleep,
         Stop, SubmitterTake, SubmitterLock, IssuePresent, StoreStatus,
         FinisherTake, Terminated

LEMMA ClientFrame ==
  [Next]_vars =>
    \/ UNCHANGED <<status, recording, fenced>>
    \/ \E c \in Clients :
          \/ RecreateSwapChain(c) \/ RecreationFails(c)
          \/ CreateCommandList(c) \/ Submit(c)
          \/ PresentAsync(c) \/ PresentSyncBegin(c) \/ PresentSyncEnd(c)
    \/ StoreStatus \/ GpuComplete
  BY DEF Next, ClientCall, SubmitterStep, FinisherStep, vars, allButPc,
         queueVars, lockVars, deviceVars, BeginCall, WaitForSubmission,
         AcquireNextImage, CheckPresent, Synchronize, LockDeviceQueue, UnlockDeviceQueue,
         WaitIdleReturns, Sleep, Stop, SubmitterTake, SubmitterLock,
         IssueCmdList, IssuePresent, SubmitterRetire, FinisherTake, FenceWait,
         RecycleCommandList, FinisherRetire, Terminated

LEMMA CounterFrame ==
  [Next]_vars =>
    \/ UNCHANGED <<pending, failures>>
    \/ \E c \in Clients : Submit(c)
    \/ IssueCmdList \/ FenceWait \/ FinisherRetire
  BY DEF Next, ClientCall, SubmitterStep, FinisherStep, vars, allButPc,
         queueVars, lockVars, deviceVars, BeginCall, WaitForSubmission,
         MayRecreate, RecreateSwapChain, RecreationFails, CreateCommandList, AcquireNextImage, PresentAsync,
         PresentSyncBegin, PresentSyncEnd, CheckPresent, Synchronize, LockDeviceQueue,
         UnlockDeviceQueue, WaitIdleReturns, Sleep, Stop, SubmitterTake,
         SubmitterLock, IssuePresent, StoreStatus, SubmitterRetire,
         FinisherTake, RecycleCommandList, GpuComplete, Terminated

(* Every step leaves asyncPresent alone, moves at most one thread, and changes
   the mutexes only to their new owner or to Nobody. *)
LEMMA ControlFrame ==
  ASSUME TypeInv, [Next]_vars
  PROVE  /\ asyncPresent' = asyncPresent
         /\ pc' = pc \/ \E t \in Threads : pc' = [pc EXCEPT ![t] = pc'[t]]
         /\ mutex' \in Clients \cup {Nobody, mutex}
         /\ mutexQueue' \in Clients \cup {Submitter, Nobody, mutexQueue}
  BY DEF TypeInv, TypeOK, Threads, Workers, Next, ClientCall, SubmitterStep, FinisherStep, vars, allButPc,
         queueVars, lockVars, deviceVars, Goto, BeginCall, WaitForSubmission,
         MayRecreate, RecreateSwapChain, RecreationFails, CreateCommandList, AcquireNextImage, Submit,
         PresentAsync, PresentSyncBegin, PresentSyncEnd, CheckPresent, Synchronize,
         LockDeviceQueue, UnlockDeviceQueue, WaitIdleReturns, Sleep, Stop,
         SubmitterTake, SubmitterLock, IssueCmdList, IssuePresent, StoreStatus,
         SubmitterRetire, FinisherTake, FenceWait, RecycleCommandList,
         FinisherRetire, GpuComplete, Terminated

LEMMA AsleepFrame ==
  [Next]_vars => \/ asleep' = asleep
                 \/ \E t \in Threads, q \in Conds : asleep' = [asleep EXCEPT ![q] = @ \cup {t}]
                 \/ \E conds \in SUBSET Conds : Notify(conds)
  BY DEF NotifyAppended, NotifySubmitted, NotifyFinished, NotifyStopped, Conds, WaitsOn, Next, ClientCall, SubmitterStep, FinisherStep, vars, allButPc,
         queueVars, lockVars, deviceVars, Goto, BeginCall, WaitForSubmission,
         MayRecreate, RecreateSwapChain, RecreationFails, CreateCommandList, AcquireNextImage, Submit,
         PresentAsync, PresentSyncBegin, PresentSyncEnd, CheckPresent, Synchronize,
         LockDeviceQueue, UnlockDeviceQueue, WaitIdleReturns, Sleep, Stop,
         SubmitterTake, SubmitterLock, IssueCmdList, IssuePresent, StoreStatus,
         SubmitterRetire, FinisherTake, FenceWait, RecycleCommandList,
         FinisherRetire, GpuComplete, Terminated

-----------------------------------------------------------------------------
(* Type correctness *)

LEMMA InitType == Init => TypeInv
<1> SUFFICES ASSUME Init PROVE TypeInv
  OBVIOUS
<1> USE IdentitiesAssumption
<1>1. asyncPresent \in BOOLEAN
  BY SizesAssumption DEF Init
<1>2. asleep \in [Conds -> SUBSET Threads]
  BY DEF Init
<1>3. pc \in [Threads -> ClientStates \cup WorkerStates]
  BY DEF Init, Threads, Workers, ClientStates, WorkerStates
<1>4. /\ submitQueue \in Seq(CmdLists \cup Clients) /\ finishQueue \in Seq(CmdLists)
      /\ gpuQueue \in Seq(CmdLists) /\ recycler \in Seq(CmdLists)
  BY DEF Init
<1>4a. /\ status \in [Clients -> {"success", "notReady", "error"}]
       /\ recording \in [Clients -> CmdLists \cup {Nobody}]
  BY DEF Init
<1>4b. stopped \in BOOLEAN /\ submitOk \in BOOLEAN
  BY Zenon DEF Init
<1>4c. pending = 0 /\ failures = 0 /\ mutex = Nobody /\ mutexQueue = Nobody
  BY Zenon DEF Init
<1>4d. fenced = {}
  BY Zenon DEF Init
<1>5. TypeOK
  BY <1>1, <1>2, <1>3, <1>4, <1>4a, <1>4b, <1>4c, <1>4d
  DEF TypeOK, FlagTypes, QueueTypes, CounterTypes, LockTypes, ClientTypes
<1>6. PcOK
  BY <1>3 DEF Init, PcOK, Threads, Workers, ClientStates, SubmitterStates,
              FinisherStates
<1>7. FrontsOK
  BY DEF Init, FrontsOK, Threads, Workers
<1>8. RecordingOK
  BY DEF Init, RecordingOK, Threads, Workers
<1> QED BY <1>5, <1>6, <1>7, <1>8 DEF TypeInv

LEMMA PcStep == TypeInv /\ [Next]_vars => PcOK' /\ pc' \in [Threads -> ClientStates \cup WorkerStates]
<1> SUFFICES ASSUME TypeInv, [Next]_vars
             PROVE  PcOK' /\ pc' \in [Threads -> ClientStates \cup WorkerStates]
  OBVIOUS
<1> QED
  BY IdentitiesAssumption, SizesAssumption
  DEF TypeInv, TypeOK, PcOK, Threads, Workers, ClientStates, WorkerStates,
         SubmitterStates, FinisherStates, Next, ClientCall, SubmitterStep, FinisherStep, vars, allButPc,
         queueVars, lockVars, deviceVars, Goto, BeginCall, WaitForSubmission,
         MayRecreate, RecreateSwapChain, RecreationFails, CreateCommandList, AcquireNextImage, Submit,
         PresentAsync, PresentSyncBegin, PresentSyncEnd, CheckPresent, Synchronize,
         LockDeviceQueue, UnlockDeviceQueue, WaitIdleReturns, Sleep, Stop,
         SubmitterTake, SubmitterLock, IssueCmdList, IssuePresent, StoreStatus,
         SubmitterRetire, FinisherTake, FenceWait, RecycleCommandList,
         FinisherRetire, GpuComplete, Terminated

LEMMA FlagStep == TypeInv /\ [Next]_vars => FlagTypes'
<1> SUFFICES ASSUME TypeInv, [Next]_vars PROVE FlagTypes'
  OBVIOUS
<1>1. asyncPresent' = asyncPresent
  BY ControlFrame
<1>2. stopped' \in BOOLEAN
  BY DEF TypeInv, TypeOK, FlagTypes, Next, ClientCall, SubmitterStep, FinisherStep, vars, allButPc,
         queueVars, lockVars, deviceVars, Goto, BeginCall, WaitForSubmission,
         MayRecreate, RecreateSwapChain, RecreationFails, CreateCommandList, AcquireNextImage, Submit,
         PresentAsync, PresentSyncBegin, PresentSyncEnd, CheckPresent, Synchronize,
         LockDeviceQueue, UnlockDeviceQueue, WaitIdleReturns, Sleep, Stop,
         SubmitterTake, SubmitterLock, IssueCmdList, IssuePresent, StoreStatus,
         SubmitterRetire, FinisherTake, FenceWait, RecycleCommandList,
         FinisherRetire, GpuComplete, Terminated
<1>3. submitOk' \in BOOLEAN
  BY DEF TypeInv, TypeOK, FlagTypes, Next, ClientCall, SubmitterStep, FinisherStep, vars, allButPc,
         queueVars, lockVars, deviceVars, Goto, BeginCall, WaitForSubmission,
         MayRecreate, RecreateSwapChain, RecreationFails, CreateCommandList, AcquireNextImage, Submit,
         PresentAsync, PresentSyncBegin, PresentSyncEnd, CheckPresent, Synchronize,
         LockDeviceQueue, UnlockDeviceQueue, WaitIdleReturns, Sleep, Stop,
         SubmitterTake, SubmitterLock, IssueCmdList, IssuePresent, StoreStatus,
         SubmitterRetire, FinisherTake, FenceWait, RecycleCommandList,
         FinisherRetire, GpuComplete, Terminated
<1> QED BY <1>1, <1>2, <1>3 DEF FlagTypes, TypeInv, TypeOK

LEMMA CounterStep == TypeInv /\ [Next]_vars => CounterTypes'
<1> SUFFICES ASSUME TypeInv, [Next]_vars PROVE CounterTypes'
  OBVIOUS
<1>1. pending \in Int /\ failures \in Nat
  BY DEF TypeInv, TypeOK, CounterTypes
<1>2. pending' \in {pending, pending + 1, pending - 1} /\ failures' \in {failures, failures + 1}
  BY CounterFrame
  DEF Submit, IssueCmdList, FenceWait, FinisherRetire, CountSubmission,
      queueVars, allButPc
<1> QED BY <1>1, <1>2 DEF CounterTypes

LEMMA LockTypesStep == TypeInv /\ [Next]_vars => LockTypes'
<1> SUFFICES ASSUME TypeInv, [Next]_vars PROVE LockTypes'
  OBVIOUS
<1>1. mutex' \in Clients \cup {Nobody} /\ mutexQueue' \in Clients \cup {Submitter, Nobody}
  BY ControlFrame DEF TypeInv, TypeOK, LockTypes
<1>2. asleep' \in [Conds -> SUBSET Threads]
  BY AsleepFrame DEF TypeInv, TypeOK, LockTypes, Notify
<1> QED BY <1>1, <1>2 DEF LockTypes

(* What the two workers' positions and fronts depend on. *)
LEMMA WorkerFrame ==
  ASSUME TypeInv, [Next]_vars
  PROVE  \/ UNCHANGED <<submitQueue, finishQueue, pc[Submitter], pc[Finisher]>>
         \/ \E c \in Clients : Submit(c) \/ PresentAsync(c)
         \/ SubmitterStep \/ FinisherStep
  BY IdentitiesAssumption
  DEF TypeInv, TypeOK, Threads, Workers, Next, ClientCall, SubmitterStep, FinisherStep, vars, allButPc,
         queueVars, lockVars, deviceVars, Goto, BeginCall, WaitForSubmission,
         MayRecreate, RecreateSwapChain, RecreationFails, CreateCommandList, AcquireNextImage, Submit,
         PresentAsync, PresentSyncBegin, PresentSyncEnd, CheckPresent, Synchronize,
         LockDeviceQueue, UnlockDeviceQueue, WaitIdleReturns, Sleep, Stop,
         SubmitterTake, SubmitterLock, IssueCmdList, IssuePresent, StoreStatus,
         SubmitterRetire, FinisherTake, FenceWait, RecycleCommandList,
         FinisherRetire, GpuComplete, Terminated

LEMMA FrontsStep == TypeInv /\ [Next]_vars => FrontsOK'
<1> SUFFICES ASSUME TypeInv, [Next]_vars PROVE FrontsOK'
  OBVIOUS
<1> USE IdentitiesAssumption DEF allButPc, queueVars, lockVars, deviceVars, Goto
<1>1. /\ submitQueue \in Seq(CmdLists \cup Clients) /\ finishQueue \in Seq(CmdLists)
      /\ pc \in [Threads -> ClientStates \cup WorkerStates]
      /\ Submitter \in Threads /\ Finisher \in Threads /\ Clients \subseteq Threads
  BY DEF TypeInv, TypeOK, QueueTypes, Threads, Workers
<1>2. CASE UNCHANGED <<submitQueue, finishQueue, pc[Submitter], pc[Finisher]>>
  BY <1>2 DEF TypeInv, FrontsOK
<1>3. ASSUME NEW c \in Clients, Submit(c) PROVE FrontsOK'
  <2>1. recording[c] \in CmdLists
    BY <1>3 DEF Submit, TypeInv, TypeOK, ClientTypes, RecordingOK
  <2>2. submitQueue' = Append(submitQueue, recording[c]) /\ UNCHANGED finishQueue
        /\ UNCHANGED <<pc[Submitter], pc[Finisher]>>
    BY <1>1, <1>3 DEF Submit
  <2>3. submitQueue' # <<>> /\ (submitQueue # <<>> => Head(submitQueue') = Head(submitQueue))
    BY <1>1, <2>1, <2>2, PushRange
  <2> QED BY <2>2, <2>3 DEF TypeInv, FrontsOK
<1>4. ASSUME NEW c \in Clients, PresentAsync(c) PROVE FrontsOK'
  <2>1. submitQueue' = Append(submitQueue, c) /\ UNCHANGED finishQueue
        /\ UNCHANGED <<pc[Submitter], pc[Finisher]>>
    BY <1>1, <1>4 DEF PresentAsync
  <2>2. submitQueue' # <<>> /\ (submitQueue # <<>> => Head(submitQueue') = Head(submitQueue))
    BY <1>1, <2>1, PushRange
  <2> QED BY <2>1, <2>2 DEF TypeInv, FrontsOK
<1>5. CASE SubmitterStep
  <2>1. CASE SubmitterTake
    BY <1>1, <2>1 DEF SubmitterTake, Proceeds, Admits, TypeInv, FrontsOK
  <2>2. CASE SubmitterLock \/ IssueCmdList
    BY <1>1, <2>2 DEF SubmitterLock, IssueCmdList, TypeInv, FrontsOK
  <2>3. CASE IssuePresent \/ StoreStatus
    BY <1>1, <2>3 DEF IssuePresent, StoreStatus, TypeInv, FrontsOK
  <2>4. CASE SubmitterRetire
    <3>1. pc'[Submitter] = "wait" /\ UNCHANGED pc[Finisher]
      BY <1>1, <2>4 DEF SubmitterRetire
    <3>2. finishQueue # <<>> => finishQueue' # <<>>
      BY <1>1, <2>4, PushRange DEF SubmitterRetire, Finishable
    <3> QED BY <3>1, <3>2 DEF TypeInv, FrontsOK
  <2> QED BY <1>5, <2>1, <2>2, <2>3, <2>4 DEF SubmitterStep
<1>6. CASE FinisherStep
  <2>1. CASE FinisherTake
    BY <1>1, <2>1 DEF FinisherTake, Proceeds, Admits, TypeInv, FrontsOK
  <2>2. CASE FenceWait \/ RecycleCommandList
    BY <1>1, <2>2 DEF FenceWait, RecycleCommandList, TypeInv, FrontsOK
  <2>3. CASE FinisherRetire
    BY <1>1, <2>3 DEF FinisherRetire, TypeInv, FrontsOK
  <2> QED BY <1>6, <2>1, <2>2, <2>3 DEF FinisherStep
<1> QED BY <1>2, <1>3, <1>4, <1>5, <1>6, WorkerFrame

(* Steps as seen from one client. *)
LEMMA OwnStep ==
  ASSUME TypeInv, [Next]_vars, NEW d \in Clients
  PROVE  UNCHANGED <<pc[d], recording[d]>> \/ BeginCall(d) \/ ClientCall(d)
  BY IdentitiesAssumption
  DEF TypeInv, TypeOK, ClientTypes, Threads, Workers, Next, ClientCall, SubmitterStep, FinisherStep, vars, allButPc,
      queueVars, lockVars, deviceVars, Goto, BeginCall, WaitForSubmission,
      MayRecreate, RecreateSwapChain, RecreationFails, CreateCommandList, AcquireNextImage, Submit,
      PresentAsync, PresentSyncBegin, PresentSyncEnd, CheckPresent, Synchronize,
      LockDeviceQueue, UnlockDeviceQueue, WaitIdleReturns, Sleep, Stop,
      SubmitterTake, SubmitterLock, IssueCmdList, IssuePresent, StoreStatus,
      SubmitterRetire, FinisherTake, FenceWait, RecycleCommandList,
      FinisherRetire, GpuComplete, Terminated

LEMMA RecordingStep == TypeInv /\ [Next]_vars => RecordingOK'
<1> SUFFICES ASSUME TypeInv, [Next]_vars, NEW d \in Clients
             PROVE  /\ pc'[d] \in {"acquire", "submitFrame", "submitFlush"}
                          => recording'[d] # Nobody
                    /\ pc'[d] \notin {"acquire", "submitFrame", "submitFlush", "recreate"}
                          => recording'[d] = Nobody
  BY DEF RecordingOK
<1>1. CASE UNCHANGED <<pc[d], recording[d]>>
  BY <1>1 DEF TypeInv, RecordingOK
<1>2. UNCHANGED <<pc[d], recording[d]>> \/ BeginCall(d) \/ ClientCall(d)
  BY OwnStep
<1>3. CASE BeginCall(d) \/ ClientCall(d)
  BY <1>3, IdentitiesAssumption, SizesAssumption
  DEF TypeInv, TypeOK, ClientTypes, RecordingOK, Threads, Workers, ClientCall, allButPc,
      deviceVars, Goto, BeginCall, WaitForSubmission,
      MayRecreate, RecreateSwapChain, RecreationFails, CreateCommandList, AcquireNextImage, Submit,
      PresentAsync, PresentSyncBegin, PresentSyncEnd, CheckPresent, Synchronize,
      LockDeviceQueue, UnlockDeviceQueue, WaitIdleReturns
<1> QED BY <1>1, <1>2, <1>3

LEMMA ClientTypesStep == TypeInv /\ [Next]_vars => ClientTypes'
<1> SUFFICES ASSUME TypeInv, [Next]_vars PROVE ClientTypes'
  OBVIOUS
<1>1. /\ ClientTypes /\ CmdLists \cap Clients = {} /\ gpuQueue \in Seq(CmdLists)
      /\ pc[Submitter] = "store" => Head(submitQueue) \in Clients
  BY IdentitiesAssumption DEF TypeInv, TypeOK, QueueTypes, FrontsOK
<1>2. CASE UNCHANGED <<status, recording, fenced>>
  BY <1>1, <1>2 DEF ClientTypes
<1>3. ASSUME NEW c \in Clients,
             RecreateSwapChain(c) \/ RecreationFails(c) \/ CreateCommandList(c) \/ Submit(c)
             \/ PresentAsync(c) \/ PresentSyncBegin(c) \/ PresentSyncEnd(c)
      PROVE  ClientTypes'
  BY <1>1, <1>3
  DEF ClientTypes, MayRecreate, RecreateSwapChain, RecreationFails, CreateCommandList, Submit, PresentAsync,
      PresentSyncBegin, PresentSyncEnd, MarkNotReady, ResetFence, deviceVars
<1>4. CASE StoreStatus
  BY <1>1, <1>4 DEF ClientTypes, StoreStatus, deviceVars
<1>5. CASE GpuComplete
  BY <1>1, <1>5, HeadTailProperties DEF ClientTypes, GpuComplete
<1> QED BY <1>2, <1>3, <1>4, <1>5, ClientFrame

LEMMA QueueTypesStep == TypeInv /\ [Next]_vars => QueueTypes'
<1> SUFFICES ASSUME TypeInv, [Next]_vars PROVE QueueTypes'
  OBVIOUS
<1>1. QueueTypes /\ FrontsOK /\ RecordingOK /\ ClientTypes
  BY DEF TypeInv, TypeOK
<1>2. CASE UNCHANGED <<submitQueue, finishQueue, gpuQueue, recycler>>
  BY <1>1, <1>2 DEF QueueTypes
<1>3. ASSUME NEW c \in Clients, CreateCommandList(c) PROVE QueueTypes'
  <2>1. recycler' \in {recycler, SubSeq(recycler, 1, Len(recycler) - 1)}
        /\ (recycler = <<>> => recycler' = recycler)
    BY <1>3 DEF CreateCommandList
  <2>2. recycler \in Seq(CmdLists)
    BY <1>1 DEF QueueTypes
  <2>3. recycler # <<>> => SubSeq(recycler, 1, Len(recycler) - 1) \in Seq(CmdLists)
    BY <2>2, TakeNewest
  <2>4. recycler' \in Seq(CmdLists)
    BY <2>1, <2>2, <2>3
  <2> QED BY <1>1, <1>3, <2>4 DEF CreateCommandList, QueueTypes, queueVars
<1>4. ASSUME NEW c \in Clients, Submit(c) PROVE QueueTypes'
  BY <1>1, <1>4 DEF Submit, QueueTypes, RecordingOK, ClientTypes
<1>5. ASSUME NEW c \in Clients, PresentAsync(c) PROVE QueueTypes'
  BY <1>1, <1>5 DEF PresentAsync, QueueTypes, deviceVars
<1>6. CASE IssueCmdList
  <2>1. gpuQueue' \in {gpuQueue, Append(gpuQueue, Head(submitQueue))}
        /\ Head(submitQueue) \in CmdLists
    BY <1>6 DEF IssueCmdList
  <2>2. gpuQueue \in Seq(CmdLists)
    BY <1>1 DEF QueueTypes
  <2>3. Append(gpuQueue, Head(submitQueue)) \in Seq(CmdLists)
    BY <2>1, <2>2, PushRange
  <2>4. gpuQueue' \in Seq(CmdLists)
    BY <2>1, <2>2, <2>3
  <2> QED BY <1>1, <1>6, <2>4 DEF IssueCmdList, QueueTypes, queueVars, deviceVars
<1>7. CASE SubmitterRetire
  <2>1. submitQueue' \in Seq(CmdLists \cup Clients)
    BY <1>1, <1>7, PopRange DEF SubmitterRetire, QueueTypes, FrontsOK
  <2>2. finishQueue' \in Seq(CmdLists)
    BY <1>1, <1>7 DEF SubmitterRetire, QueueTypes, Finishable
  <2> QED BY <1>1, <1>7, <2>1, <2>2 DEF SubmitterRetire, QueueTypes, deviceVars
<1>8. CASE FenceWait
  <2>1. gpuQueue' \in Seq(CmdLists)
    <3>1. gpuQueue \in Seq(CmdLists)
      BY <1>1 DEF QueueTypes
    <3>2. gpuQueue' = gpuQueue \/ (gpuQueue # <<>> /\ gpuQueue' = Tail(gpuQueue))
      BY <1>8 DEF FenceWait
    <3> QED BY <3>1, <3>2, PopRange
  <2> QED BY <1>1, <1>8, <2>1 DEF FenceWait, QueueTypes, queueVars, deviceVars
<1>9. CASE RecycleCommandList
  <2>1. Head(finishQueue) \in CmdLists
    BY <1>1, <1>9, PopRange DEF RecycleCommandList, QueueTypes, FrontsOK
  <2> QED BY <1>1, <1>9, <2>1 DEF RecycleCommandList, QueueTypes, queueVars
<1>10. CASE FinisherRetire
  <2>1. finishQueue' \in Seq(CmdLists)
    BY <1>1, <1>10, PopRange DEF FinisherRetire, QueueTypes, FrontsOK
  <2> QED BY <1>1, <1>10, <2>1 DEF FinisherRetire, QueueTypes, deviceVars
<1>11. CASE GpuComplete
  <2>1. gpuQueue' \in Seq(CmdLists)
    BY <1>1, <1>11, PopRange DEF GpuComplete, QueueTypes
  <2> QED BY <1>1, <1>11, <2>1 DEF GpuComplete, QueueTypes, queueVars
<1> QED
  BY <1>2, <1>3, <1>4, <1>5, <1>6, <1>7, <1>8, <1>9, <1>10, <1>11, QueueFrame

LEMMA TypeStep == TypeInv /\ [Next]_vars => TypeInv'
  BY PcStep, FlagStep, CounterStep, LockTypesStep, FrontsStep, RecordingStep,
     ClientTypesStep, QueueTypesStep
  DEF TypeInv, TypeOK

(* Every variable keeps its type, and so do the positions of all threads. *)
THEOREM TypeCorrect == Spec => []TypeOK
<1>1. TypeInv => TypeOK
  BY DEF TypeInv
<1> QED BY InitType, TypeStep, <1>1, PTL DEF Spec

-----------------------------------------------------------------------------
(* Exclusive use of the Vulkan queue *)

(* m_mutexQueue changes hands only from Nobody or to Nobody, by its owner. *)
LEMMA MutexQueueStep ==
  [Next]_vars =>
    \/ UNCHANGED mutexQueue
    \/ mutexQueue = Nobody
    \/ \E c \in Clients : pc[c] = "locked" /\ UnlockDeviceQueue(c)
    \/ pc[Submitter] = "inVulkan" /\ (IssueCmdList \/ IssuePresent)
  BY DEF DeviceQueueFree, Next, ClientCall, SubmitterStep, FinisherStep, vars, allButPc,
         queueVars, lockVars, deviceVars, BeginCall, WaitForSubmission,
         MayRecreate, RecreateSwapChain, RecreationFails, CreateCommandList, AcquireNextImage, Submit,
         PresentAsync, PresentSyncBegin, PresentSyncEnd, CheckPresent, Synchronize,
         LockDeviceQueue, UnlockDeviceQueue, WaitIdleReturns, Sleep, Stop,
         SubmitterTake, SubmitterLock, IssueCmdList, IssuePresent, StoreStatus,
         SubmitterRetire, FinisherTake, FenceWait, RecycleCommandList,
         FinisherRetire, GpuComplete, Terminated

LEMMA LockStep == TypeInv /\ LockInv /\ [Next]_vars => LockInv'
<1> SUFFICES ASSUME TypeInv, LockInv, [Next]_vars PROVE LockInv'
  OBVIOUS
<1> USE IdentitiesAssumption
<1>0. /\ pc \in [Threads -> ClientStates \cup WorkerStates]
      /\ Submitter \in Threads /\ Finisher \in Threads /\ Clients \subseteq Threads
      /\ Nobody \notin Clients /\ Nobody # Submitter /\ Submitter \notin Clients
  BY DEF TypeInv, TypeOK, Threads, Workers
<1>1. asyncPresent' = asyncPresent
  BY ControlFrame
<1>2. ASSUME NEW c \in Clients PROVE pc'[c] = "presenting" => ~asyncPresent
  <2>1. CASE UNCHANGED <<pc[c], recording[c]>>
    BY <2>1 DEF LockInv
  <2>2. CASE BeginCall(c)
    BY <1>0, <2>2, SizesAssumption DEF BeginCall, Goto
  <2>3. CASE ClientCall(c)
    BY <1>0, <2>3
    DEF ClientCall, Goto, WaitForSubmission, MayRecreate, RecreateSwapChain, RecreationFails,
        CreateCommandList, AcquireNextImage, Submit, PresentAsync,
        PresentSyncBegin, PresentSyncEnd, CheckPresent, Synchronize, LockDeviceQueue,
        UnlockDeviceQueue, WaitIdleReturns
  <2> QED BY <2>1, <2>2, <2>3, OwnStep
<1>3. ASSUME NEW c \in Clients PROVE pc'[c] = "locked" => mutexQueue' = c
  <2> SUFFICES ASSUME pc'[c] = "locked" PROVE mutexQueue' = c
    OBVIOUS
  <2>1. CASE pc[c] = "locked" /\ UNCHANGED <<pc[c], recording[c]>>
    <3>1. mutexQueue = c
      BY <2>1 DEF LockInv
    <3>2. ASSUME NEW d \in Clients, pc[d] = "locked", UnlockDeviceQueue(d) PROVE FALSE
      BY <1>0, <2>1, <3>1, <3>2 DEF LockInv, UnlockDeviceQueue, Goto
    <3>3. pc[Submitter] # "inVulkan"
      BY <1>0, <3>1 DEF LockInv
    <3> QED BY <1>0, <3>1, <3>2, <3>3, MutexQueueStep
  <2>2. CASE BeginCall(c)
    BY <1>0, <2>2, SizesAssumption DEF BeginCall, Goto
  <2>3. CASE ClientCall(c)
    BY <1>0, <2>3
    DEF ClientCall, Goto, WaitForSubmission, MayRecreate, RecreateSwapChain, RecreationFails,
        CreateCommandList, AcquireNextImage, Submit, PresentAsync,
        PresentSyncBegin, PresentSyncEnd, CheckPresent, Synchronize, LockDeviceQueue,
        UnlockDeviceQueue, WaitIdleReturns
  <2> QED BY <2>1, <2>2, <2>3, OwnStep
<1>4. pc'[Submitter] = "inVulkan" => mutexQueue' = Submitter
  BY DEF TypeInv, TypeOK, LockInv, PcOK, ClientStates, Threads, Workers, DeviceQueueFree, Next, ClientCall, SubmitterStep, FinisherStep, vars, allButPc,
         queueVars, lockVars, deviceVars, Goto, BeginCall, WaitForSubmission,
         MayRecreate, RecreateSwapChain, RecreationFails, CreateCommandList, AcquireNextImage, Submit,
         PresentAsync, PresentSyncBegin, PresentSyncEnd, CheckPresent, Synchronize,
         LockDeviceQueue, UnlockDeviceQueue, WaitIdleReturns, Sleep, Stop,
         SubmitterTake, SubmitterLock, IssueCmdList, IssuePresent, StoreStatus,
         SubmitterRetire, FinisherTake, FenceWait, RecycleCommandList,
         FinisherRetire, GpuComplete, Terminated
<1> QED BY <1>1, <1>2, <1>3, <1>4 DEF LockInv

(* With async present the submit thread and external libraries that hold the
   queue lock never use the VkQueue at the same time. *)
THEOREM QueueExclusive == Spec => []AsyncQueueExclusive
<1>1. Init => LockInv
  BY IdentitiesAssumption DEF Init, LockInv, Threads, Workers
<1>2. ASSUME TypeInv, LockInv PROVE AsyncQueueExclusive
  <2> SUFFICES ASSUME asyncPresent PROVE Cardinality(QueueUsers) <= 1
    BY DEF AsyncQueueExclusive
  <2>1. QueueUsers \subseteq {mutexQueue}
    BY <1>2 DEF QueueUsers, LockInv
  <2>2. IsFiniteSet({mutexQueue}) /\ Cardinality({mutexQueue}) = 1
    BY FS_Singleton
  <2> QED BY <2>1, <2>2, FS_Subset, FS_CardinalityType
<1> QED BY <1>1, <1>2, InitType, TypeStep, LockStep, PTL DEF Spec

-----------------------------------------------------------------------------
(* Ownership of command lists and of swap chains *)

LEMMA Threading ==
  ASSUME TypeInv
  PROVE  /\ pc \in [Threads -> ClientStates \cup WorkerStates]
         /\ Submitter \in Threads /\ Finisher \in Threads /\ Clients \subseteq Threads
         /\ Submitter # Finisher /\ Submitter \notin Clients /\ Finisher \notin Clients
         /\ Nobody \notin CmdLists /\ CmdLists \cap Clients = {}
         /\ recording \in [Clients -> CmdLists \cup {Nobody}]
         /\ status \in [Clients -> {"success", "notReady", "error"}]
         /\ fenced \subseteq CmdLists
  BY IdentitiesAssumption DEF TypeInv, TypeOK, ClientTypes, Threads, Workers

LEMMA Queues ==
  ASSUME TypeInv
  PROVE  /\ submitQueue \in Seq(CmdLists \cup Clients) /\ finishQueue \in Seq(CmdLists)
         /\ gpuQueue \in Seq(CmdLists) /\ recycler \in Seq(CmdLists)
         /\ Unreported \in Seq(CmdLists \cup Clients)
         /\ Unissued \in Seq(CmdLists \cup Clients) /\ Unfinished \in Seq(CmdLists)
         /\ Range(Unissued) \subseteq Range(submitQueue)
         /\ Range(Unreported) \subseteq Range(submitQueue)
         /\ Range(Unissued) \subseteq Range(Unreported)
<1>1. /\ submitQueue \in Seq(CmdLists \cup Clients) /\ finishQueue \in Seq(CmdLists)
      /\ gpuQueue \in Seq(CmdLists) /\ recycler \in Seq(CmdLists)
  BY DEF TypeInv, TypeOK, QueueTypes
<1>2. /\ pc[Submitter] \in {"store", "retire"} => submitQueue # <<>>
      /\ pc[Finisher] = "retire" => finishQueue # <<>>
  BY DEF TypeInv, FrontsOK
<1>3. submitQueue # <<>> => /\ Tail(submitQueue) \in Seq(CmdLists \cup Clients)
                           /\ Range(Tail(submitQueue)) \subseteq Range(submitQueue)
  BY <1>1, PopRange
<1>4. finishQueue # <<>> => Tail(finishQueue) \in Seq(CmdLists)
  BY <1>1, PopRange
<1>5. Unissued = IF pc[Submitter] \in {"store", "retire"} THEN Tail(submitQueue) ELSE submitQueue
  BY DEF Unissued
<1>6. Unreported \in {submitQueue, Tail(submitQueue)}
      /\ (Unreported = submitQueue \/ Unissued = Tail(submitQueue))
      /\ (Unreported # submitQueue => submitQueue # <<>> /\ Unreported = Tail(submitQueue))
  BY <1>2 DEF Unreported, Unissued
<1>7. Unfinished \in Seq(CmdLists)
  BY <1>1, <1>2, <1>4 DEF Unfinished
<1>8. Unissued \in Seq(CmdLists \cup Clients) /\ Range(Unissued) \subseteq Range(submitQueue)
  BY <1>1, <1>2, <1>3, <1>5
<1> QED BY <1>1, <1>3, <1>6, <1>7, <1>8

(* Steps that move no list between its owners and issue or report nothing. *)
LEMMA OwnerFrame ==
  ASSUME TypeInv, [Next]_vars
  PROVE  \/ /\ UNCHANGED <<submitQueue, finishQueue, gpuQueue, recycler, recording, fenced>>
            /\ UNCHANGED <<Unissued, Unreported, Unfinished>>
            /\ pc'[Finisher] = "reset" => pc[Finisher] = "reset"
         \/ \E c \in Clients : \/ CreateCommandList(c) \/ Submit(c) \/ PresentAsync(c)
                              \/ RecreationFails(c)
         \/ IssueCmdList \/ IssuePresent \/ StoreStatus \/ SubmitterRetire
         \/ FenceWait \/ RecycleCommandList \/ FinisherRetire \/ GpuComplete
<1>1. \/ /\ UNCHANGED <<submitQueue, finishQueue, gpuQueue, recycler, recording, fenced>>
         /\ UNCHANGED pc[Submitter] \/ SubmitterTake \/ SubmitterLock
         /\ UNCHANGED pc[Finisher] \/ FinisherTake
      \/ \E c \in Clients : \/ CreateCommandList(c) \/ Submit(c) \/ PresentAsync(c)
                           \/ RecreationFails(c)
      \/ IssueCmdList \/ IssuePresent \/ StoreStatus \/ SubmitterRetire
      \/ FenceWait \/ RecycleCommandList \/ FinisherRetire \/ GpuComplete
  BY Threading DEF Next, ClientCall, SubmitterStep, FinisherStep, vars, allButPc,
         queueVars, lockVars, deviceVars, Goto, BeginCall, WaitForSubmission,
         MayRecreate, RecreateSwapChain, RecreationFails, AcquireNextImage, PresentSyncBegin, PresentSyncEnd,
         CheckPresent, Synchronize, LockDeviceQueue, UnlockDeviceQueue, WaitIdleReturns, Sleep,
         Stop, SubmitterTake, SubmitterLock, FinisherTake, Terminated
<1>2. SubmitterTake \/ SubmitterLock => pc[Submitter] \notin {"store", "retire"}
                                      /\ pc'[Submitter] \notin {"store", "retire"}
  BY Threading DEF SubmitterTake, SubmitterLock, Goto
<1>3. FinisherTake => pc[Finisher] # "retire" /\ pc'[Finisher] \notin {"retire", "reset"}
  BY Threading DEF FinisherTake, Goto
<1> QED BY <1>1, <1>2, <1>3 DEF Unissued, Unreported, Unfinished

(* A client takes a list nobody else has: the recycler's newest or a new one. *)
LEMMA CreateKeepsLists ==
  ASSUME TypeInv, ListInv, NEW c \in Clients, CreateCommandList(c)
  PROVE  ListInv'
<1>1. PICK l \in CmdLists :
         /\ IF recycler # <<>>
            THEN /\ l = recycler[Len(recycler)]
                 /\ recycler' = SubSeq(recycler, 1, Len(recycler) - 1)
            ELSE l \in Fresh /\ UNCHANGED recycler
         /\ recording' = [recording EXCEPT ![c] = l]
         /\ fenced' = fenced \ {l}
  BY DEF CreateCommandList, ResetFence
<1>2. UNCHANGED <<submitQueue, finishQueue, gpuQueue, pc[Submitter], pc[Finisher]>>
  BY Threading DEF CreateCommandList, queueVars, Goto
<1>3. UNCHANGED <<Unissued, Unreported, Unfinished>>
  BY <1>2 DEF Unissued, Unreported, Unfinished
<1>4. recording[c] = Nobody
  BY DEF CreateCommandList, TypeInv, RecordingOK
<1>5. Recorded' = Recorded \cup {l}
  BY <1>1, <1>4, Threading DEF Recorded
<1>6. /\ l \notin Recorded /\ l \notin Range(recycler') /\ l \notin Range(submitQueue)
      /\ l \notin Range(Unfinished) /\ l \notin Range(gpuQueue)
      /\ Range(recycler') \subseteq Range(recycler) /\ IsInjective(recycler')
  <2>1. CASE recycler # <<>>
    <3>1. l \in Range(recycler) /\ l \notin Range(recycler') /\ IsInjective(recycler')
          /\ Range(recycler') \subseteq Range(recycler)
      <4>1. recycler \in Seq(CmdLists) /\ IsInjective(recycler)
        BY Queues DEF ListInv, NoDuplicates
      <4>2. LET front == SubSeq(recycler, 1, Len(recycler) - 1) IN
            /\ Range(recycler) = Range(front) \cup {recycler[Len(recycler)]}
            /\ IsInjective(front) /\ recycler[Len(recycler)] \notin Range(front)
        BY <2>1, <4>1, TakeNewest
      <4> QED BY <1>1, <2>1, <4>2
    <3> QED BY <3>1 DEF ListInv, OwnersDisjoint, FencesOK
  <2>2. CASE recycler = <<>>
    BY <1>1, <2>2 DEF Fresh, ListInv, NoDuplicates
  <2> QED BY <2>1, <2>2
<1>7. OwnersDisjoint'
  BY <1>2, <1>3, <1>5, <1>6 DEF ListInv, OwnersDisjoint
<1>8. NoDuplicates'
  <2>1. \A d, e \in Clients : recording'[d] = recording'[e] => d = e \/ recording'[d] = Nobody
    BY <1>1, <1>6, Threading DEF ListInv, NoDuplicates, Recorded
  <2> QED BY <1>2, <1>3, <1>6, <2>1 DEF ListInv, NoDuplicates
<1>9. FencesOK'
  <2>1. pc'[Finisher] = "reset" => Head(finishQueue') \in fenced'
    <3> SUFFICES ASSUME pc[Finisher] = "reset" PROVE Head(finishQueue) \in fenced \ {l}
      BY <1>1, <1>2
    <3>1. Unfinished = finishQueue /\ finishQueue # <<>>
      BY DEF Unfinished, TypeInv, FrontsOK
    <3> QED BY <1>6, <3>1, Queues, PopRange DEF ListInv, FencesOK
  <2>2. Range(Unissued) \subseteq Range(submitQueue)
    BY Queues
  <2> QED BY <1>1, <1>2, <1>3, <1>5, <1>6, <2>1, <2>2 DEF ListInv, FencesOK
<1> QED BY <1>7, <1>8, <1>9 DEF ListInv

(* A frame that is given up has nothing queued: its list is nobody's now. *)
LEMMA RecreationFailsKeepsLists ==
  ASSUME TypeInv, ListInv, NEW c \in Clients, RecreationFails(c)
  PROVE  ListInv'
<1>1. /\ recording' = [recording EXCEPT ![c] = Nobody]
      /\ UNCHANGED <<submitQueue, finishQueue, gpuQueue, recycler, fenced>>
      /\ UNCHANGED <<pc[Submitter], pc[Finisher]>>
  BY Threading DEF RecreationFails, MayRecreate, Goto, queueVars
<1>2. UNCHANGED <<Unissued, Unreported, Unfinished>>
  BY <1>1 DEF Unissued, Unreported, Unfinished
<1>3. Recorded' \subseteq Recorded
  BY <1>1, Threading DEF Recorded
<1>4. \A d, e \in Clients : recording'[d] = recording'[e] => d = e \/ recording'[d] = Nobody
  BY <1>1, Threading DEF ListInv, NoDuplicates
<1>5. OwnersDisjoint'
  BY <1>1, <1>2, <1>3 DEF ListInv, OwnersDisjoint
<1>6. NoDuplicates'
  BY <1>1, <1>2, <1>4 DEF ListInv, NoDuplicates
<1>7. FencesOK'
  BY <1>1, <1>2, <1>3 DEF ListInv, FencesOK
<1> QED BY <1>5, <1>6, <1>7 DEF ListInv

(* The list a client submits was recorded by it alone. *)
LEMMA SubmitKeepsLists ==
  ASSUME TypeInv, ListInv, NEW c \in Clients, Submit(c)
  PROVE  ListInv'
<1> DEFINE l == recording[c]
<1>1. l \in CmdLists /\ l \in Recorded /\ l # Nobody
  BY Threading DEF Submit, TypeInv, RecordingOK, Recorded
<1>2. /\ submitQueue' = Append(submitQueue, l)
      /\ recording' = [recording EXCEPT ![c] = Nobody]
      /\ UNCHANGED <<finishQueue, gpuQueue, recycler, fenced, pc[Submitter], pc[Finisher]>>
  BY Threading DEF Submit, Goto
<1>3. Recorded' = Recorded \ {l}
  BY <1>1, <1>2, Threading DEF Recorded, ListInv, NoDuplicates
<1>4. /\ l \notin Range(submitQueue) /\ l \notin Range(recycler)
      /\ l \notin Range(Unfinished) /\ l \notin Range(gpuQueue) /\ l \notin fenced
  BY <1>1 DEF ListInv, OwnersDisjoint, FencesOK
<1>5. /\ pc[Submitter] \in {"store", "retire"} => submitQueue # <<>>
      /\ pc[Finisher] = "reset" => finishQueue # <<>>
  BY DEF TypeInv, FrontsOK
<1>6. submitQueue # <<>> => /\ Tail(submitQueue') = Append(Tail(submitQueue), l)
                           /\ Head(submitQueue') = Head(submitQueue)
  BY <1>1, <1>2, Queues, PushThenPop, PushRange
<1>7. /\ Unissued' = Append(Unissued, l) /\ Unreported' = Append(Unreported, l)
      /\ Unfinished' = Unfinished
  BY <1>2, <1>5, <1>6 DEF Unissued, Unreported, Unfinished
<1>8. /\ Range(submitQueue') = Range(submitQueue) \cup {l}
      /\ Range(Unissued') = Range(Unissued) \cup {l}
  <2>1. submitQueue \in Seq(CmdLists \cup Clients) /\ Unissued \in Seq(CmdLists \cup Clients)
    BY Queues
  <2>2. l \in CmdLists \cup Clients
    BY <1>1
  <2>3. /\ Range(Append(submitQueue, l)) = Range(submitQueue) \cup {l}
        /\ Range(Append(Unissued, l)) = Range(Unissued) \cup {l}
    BY <2>1, <2>2, PushRange
  <2> QED BY <1>2, <1>7, <2>3
<1>9. OwnersDisjoint'
  BY <1>2, <1>3, <1>4, <1>7, <1>8 DEF ListInv, OwnersDisjoint
<1>10. NoDuplicates'
  <2>1. \A d, e \in Clients : recording'[d] = recording'[e] => d = e \/ recording'[d] = Nobody
    BY <1>2, Threading DEF ListInv, NoDuplicates
  <2>2. l \notin Range(Unreported)
    BY <1>4, Queues
  <2>3. IsInjective(Unreported')
    BY <1>1, <1>7, <2>2, Queues, PushInjective DEF ListInv, NoDuplicates
  <2> QED BY <1>2, <1>7, <2>1, <2>3 DEF ListInv, NoDuplicates
<1>11. FencesOK'
  BY <1>2, <1>3, <1>4, <1>8 DEF ListInv, FencesOK
<1> QED BY <1>9, <1>10, <1>11 DEF ListInv

(* A client that presents has no unreported present. *)
LEMMA PresentKeepsLists ==
  ASSUME TypeInv, ListInv, PresenterInv, NEW c \in Clients, PresentAsync(c)
  PROVE  ListInv'
<1>1. /\ submitQueue' = Append(submitQueue, c)
      /\ UNCHANGED <<finishQueue, gpuQueue, recycler, recording, fenced,
                     pc[Submitter], pc[Finisher]>>
  BY Threading DEF PresentAsync, deviceVars, Goto
<1>2. c \notin Range(Unreported)
  BY DEF PresenterInv, PresentAsync
<1>3. pc[Submitter] \in {"store", "retire"} => submitQueue # <<>>
  BY DEF TypeInv, FrontsOK
<1>4. submitQueue # <<>> => /\ Tail(submitQueue') = Append(Tail(submitQueue), c)
                           /\ Head(submitQueue') = Head(submitQueue)
  BY <1>1, Queues, PushThenPop, PushRange
<1>5. /\ Unissued' = Append(Unissued, c) /\ Unreported' = Append(Unreported, c)
      /\ Unfinished' = Unfinished /\ Recorded' = Recorded
  BY <1>1, <1>3, <1>4 DEF Unissued, Unreported, Unfinished, Recorded
<1>6. /\ Range(submitQueue') = Range(submitQueue) \cup {c}
      /\ Range(Unissued') = Range(Unissued) \cup {c}
  <2>1. submitQueue \in Seq(CmdLists \cup Clients) /\ Unissued \in Seq(CmdLists \cup Clients)
    BY Queues
  <2>2. c \in CmdLists \cup Clients
    OBVIOUS
  <2>3. /\ Range(Append(submitQueue, c)) = Range(submitQueue) \cup {c}
        /\ Range(Append(Unissued, c)) = Range(Unissued) \cup {c}
    BY <2>1, <2>2, PushRange
  <2> QED BY <1>1, <1>5, <2>3
<1>7. c \notin CmdLists /\ Recorded \subseteq CmdLists /\ fenced \subseteq CmdLists
  BY Threading DEF Recorded
<1>8. /\ Range(gpuQueue) \subseteq CmdLists /\ Range(Unfinished) \subseteq CmdLists
      /\ Range(recycler) \subseteq CmdLists
  BY Queues, SeqRange
<1>9. OwnersDisjoint'
  BY <1>1, <1>5, <1>6, <1>7, <1>8 DEF ListInv, OwnersDisjoint
<1>10. IsInjective(Unreported')
  BY <1>2, <1>5, Queues, PushInjective DEF ListInv, NoDuplicates
<1>11. FencesOK'
  BY <1>1, <1>5, <1>6, <1>7, <1>8 DEF ListInv, FencesOK
<1> QED BY <1>1, <1>5, <1>9, <1>10, <1>11 DEF ListInv, NoDuplicates

(* The front of the submit queue goes to the GPU, or nowhere. *)
LEMMA IssueKeepsLists ==
  ASSUME TypeInv, ListInv, IssueCmdList
  PROVE  ListInv'
<1> DEFINE l == Head(submitQueue)
<1>1. /\ l \in CmdLists /\ l \notin Clients
      /\ gpuQueue' \in {gpuQueue, Append(gpuQueue, l)}
      /\ pc[Submitter] = "inVulkan" /\ pc'[Submitter] = "retire"
      /\ UNCHANGED <<submitQueue, finishQueue, recycler, recording, fenced, pc[Finisher]>>
  BY Threading DEF IssueCmdList, Goto, queueVars, deviceVars
<1>2. submitQueue # <<>>
  BY <1>1 DEF TypeInv, FrontsOK
<1>3. /\ Unreported = submitQueue /\ UNCHANGED Unreported
      /\ Unissued = submitQueue /\ Unissued' = Tail(submitQueue)
      /\ UNCHANGED Unfinished /\ UNCHANGED Recorded
  BY <1>1 DEF Unreported, Unissued, Unfinished, Recorded
<1>4. submitQueue \in Seq(CmdLists \cup Clients) /\ gpuQueue \in Seq(CmdLists)
  BY Queues
<1>5. /\ l \in Range(submitQueue) /\ l \notin Range(Tail(submitQueue))
      /\ Range(Tail(submitQueue)) \subseteq Range(submitQueue)
  <2>1. IsInjective(submitQueue)
    BY <1>3 DEF ListInv, NoDuplicates
  <2> QED BY <1>2, <1>4, <2>1, PopRange, PopInjective
<1>6. /\ l \notin Recorded /\ l \notin Range(recycler) /\ l \notin Range(gpuQueue)
      /\ l \notin fenced
  BY <1>3, <1>5 DEF ListInv, OwnersDisjoint, FencesOK
<1>7. Range(gpuQueue') \subseteq Range(gpuQueue) \cup {l} /\ IsInjective(gpuQueue')
  <2>1. IsInjective(gpuQueue)
    BY DEF ListInv, NoDuplicates
  <2>2. IsInjective(Append(gpuQueue, l)) /\ Range(Append(gpuQueue, l)) = Range(gpuQueue) \cup {l}
    BY <1>1, <1>4, <1>6, <2>1, PushInjective, PushRange
  <2> QED BY <1>1, <2>1, <2>2
<1>8. OwnersDisjoint'
  BY <1>1, <1>3 DEF ListInv, OwnersDisjoint
<1>9. NoDuplicates'
  BY <1>1, <1>3, <1>7 DEF ListInv, NoDuplicates
<1>10. FencesOK'
  BY <1>1, <1>3, <1>5, <1>6, <1>7 DEF ListInv, FencesOK
<1> QED BY <1>8, <1>9, <1>10 DEF ListInv

(* A present touches no list; its status is reported before its slot leaves. *)
LEMMA PresentingKeepsLists ==
  ASSUME TypeInv, ListInv, IssuePresent \/ StoreStatus
  PROVE  ListInv'
<1>1. UNCHANGED <<submitQueue, finishQueue, gpuQueue, recycler, recording, fenced, pc[Finisher]>>
  BY Threading DEF IssuePresent, StoreStatus, Goto, queueVars, deviceVars
<1>2. UNCHANGED <<Unfinished, Recorded>>
  BY <1>1 DEF Unfinished, Recorded
<1>3. Unissued' \in {Unissued, Tail(submitQueue)} /\ Unreported' \in {Unreported, Tail(submitQueue)}
      /\ Unreported = submitQueue
  BY <1>1, Threading DEF IssuePresent, StoreStatus, Goto, Unissued, Unreported
<1>4. submitQueue # <<>> /\ submitQueue \in Seq(CmdLists \cup Clients)
  BY Queues DEF IssuePresent, StoreStatus, TypeInv, FrontsOK
<1>5. IsInjective(submitQueue) /\ IsInjective(Tail(submitQueue))
  BY <1>3, <1>4, PopInjective DEF ListInv, NoDuplicates
<1>6. IsInjective(Unreported')
  BY <1>3, <1>5
<1>7. Range(Unissued') \subseteq Range(Unissued)
  <2>1. CASE IssuePresent
    <3>1. Unissued = submitQueue
      BY <2>1 DEF IssuePresent, Unissued
    <3>2. Range(Tail(submitQueue)) \subseteq Range(submitQueue)
      BY <1>4, PopRange
    <3> QED BY <1>3, <3>1, <3>2
  <2>2. CASE StoreStatus
    <3>1. Unissued = Tail(submitQueue)
      BY <2>2 DEF StoreStatus, Unissued
    <3> QED BY <1>3, <3>1
  <2> QED BY <2>1, <2>2
<1>8. OwnersDisjoint'
  BY <1>1, <1>2 DEF ListInv, OwnersDisjoint
<1>9. NoDuplicates'
  BY <1>1, <1>2, <1>6 DEF ListInv, NoDuplicates
<1>10. FencesOK'
  BY <1>1, <1>2, <1>7 DEF ListInv, FencesOK
<1> QED BY <1>8, <1>9, <1>10 DEF ListInv

(* A submitted list moves to the finish queue as it leaves the submit queue. *)
LEMMA SubmitterRetireKeepsLists ==
  ASSUME TypeInv, ListInv, SubmitterRetire
  PROVE  ListInv'
<1> DEFINE l == Head(submitQueue)
<1>1. /\ finishQueue' \in {finishQueue, Append(finishQueue, l)}
      /\ finishQueue' # finishQueue => l \in CmdLists
      /\ submitQueue' = Tail(submitQueue)
      /\ pc[Submitter] = "retire" /\ pc'[Submitter] = "wait"
      /\ UNCHANGED <<gpuQueue, recycler, recording, fenced, pc[Finisher]>>
  BY Threading DEF SubmitterRetire, Finishable, Goto, deviceVars
<1>2. /\ submitQueue # <<>> /\ submitQueue \in Seq(CmdLists \cup Clients)
      /\ finishQueue \in Seq(CmdLists) /\ Unfinished \in Seq(CmdLists)
      /\ pc[Finisher] \in {"reset", "retire"} => finishQueue # <<>>
  BY <1>1, Queues DEF TypeInv, FrontsOK
<1>3. /\ Unissued = Tail(submitQueue) /\ UNCHANGED Unissued /\ UNCHANGED Recorded
      /\ Unreported' = Tail(submitQueue)
  BY <1>1 DEF Unissued, Recorded, Unreported
<1>4. /\ Range(Tail(submitQueue)) \subseteq Range(submitQueue) /\ l \in Range(submitQueue)
  BY <1>2, PopRange
<1>5. IsInjective(Tail(submitQueue)) /\ (l \in CmdLists => l \notin Range(Tail(submitQueue)))
  <2>1. CASE l \in Clients
    <3>1. Unreported = Tail(submitQueue) /\ l \notin CmdLists
      BY <1>1, <2>1, Threading DEF Unreported
    <3> QED BY <3>1 DEF ListInv, NoDuplicates
  <2>2. CASE l \notin Clients
    <3>1. Unreported = submitQueue
      BY <2>2 DEF Unreported
    <3> QED BY <1>2, <3>1, PopInjective DEF ListInv, NoDuplicates
  <2> QED BY <2>1, <2>2
<1>6. /\ l \notin Recorded /\ l \notin Range(recycler) /\ l \notin Range(Unfinished)
  BY <1>4 DEF ListInv, OwnersDisjoint
<1>7. \/ finishQueue' = finishQueue /\ Unfinished' = Unfinished
      \/ /\ l \in CmdLists /\ finishQueue' = Append(finishQueue, l)
         /\ Unfinished' = Append(Unfinished, l)
  <2>1. CASE finishQueue' = finishQueue
    BY <1>1, <2>1 DEF Unfinished
  <2>2. CASE finishQueue' # finishQueue
    <3>1. l \in CmdLists /\ finishQueue' = Append(finishQueue, l)
      BY <1>1, <2>2
    <3>2. finishQueue # <<>> => Tail(finishQueue') = Append(Tail(finishQueue), l)
      BY <1>2, <3>1, PushThenPop
    <3> QED BY <1>1, <1>2, <3>1, <3>2 DEF Unfinished
  <2> QED BY <2>1, <2>2
<1>8. /\ Range(Unfinished') \subseteq Range(Unfinished) \cup {l}
      /\ IsInjective(Unfinished')
      /\ l \notin CmdLists => Range(Unfinished') = Range(Unfinished)
  <2>1. IsInjective(Unfinished)
    BY DEF ListInv, NoDuplicates
  <2>2. l \in CmdLists => /\ Range(Append(Unfinished, l)) = Range(Unfinished) \cup {l}
                          /\ IsInjective(Append(Unfinished, l))
    BY <1>2, <1>6, <2>1, PushRange, PushInjective
  <2> QED BY <1>7, <2>1, <2>2
<1>9. pc'[Finisher] = "reset" => Head(finishQueue') \in fenced'
  <2> SUFFICES ASSUME pc[Finisher] = "reset" PROVE Head(finishQueue') \in fenced
    BY <1>1
  <2>1. finishQueue # <<>>
    BY <1>2
  <2>2. Head(finishQueue') = Head(finishQueue)
    BY <1>2, <1>7, <2>1, PushRange
  <2> QED BY <2>2 DEF ListInv, FencesOK
<1>10. OwnersDisjoint'
  BY <1>1, <1>3, <1>4, <1>5, <1>6, <1>8 DEF ListInv, OwnersDisjoint
<1>11. NoDuplicates'
  BY <1>1, <1>3, <1>5, <1>8 DEF ListInv, NoDuplicates
<1>12. FencesOK'
  BY <1>1, <1>3, <1>9 DEF ListInv, FencesOK
<1> QED BY <1>10, <1>11, <1>12 DEF ListInv

(* A list is recycled only once its fence is signaled. *)
LEMMA FenceWaitKeepsLists ==
  ASSUME TypeInv, ListInv, FenceWait
  PROVE  ListInv'
<1>1. /\ pc[Finisher] = "fence" /\ pc'[Finisher] \in {"reset", "retire"}
      /\ pc'[Finisher] = "reset" => Head(finishQueue) \in fenced
      /\ gpuQueue' = gpuQueue \/ (gpuQueue # <<>> /\ gpuQueue' = Tail(gpuQueue))
      /\ UNCHANGED <<submitQueue, finishQueue, recycler, recording, fenced, pc[Submitter]>>
  BY Threading DEF FenceWait, FenceSignaled, Goto, queueVars, deviceVars
<1>2. UNCHANGED <<Unissued, Unreported, Recorded>>
  BY <1>1 DEF Unissued, Unreported, Recorded
<1>3. finishQueue # <<>> /\ finishQueue \in Seq(CmdLists) /\ gpuQueue \in Seq(CmdLists)
  BY <1>1, Queues DEF TypeInv, FrontsOK
<1>4. Unfinished = finishQueue /\ Unfinished' \in {finishQueue, Tail(finishQueue)}
  BY <1>1 DEF Unfinished
<1>5. IsInjective(gpuQueue) /\ IsInjective(finishQueue)
  BY <1>4 DEF ListInv, NoDuplicates
<1>6. Range(Unfinished') \subseteq Range(Unfinished) /\ IsInjective(Unfinished')
  <2>1. Range(Tail(finishQueue)) \subseteq Range(finishQueue) /\ IsInjective(Tail(finishQueue))
    BY <1>3, <1>5, PopRange, PopInjective
  <2> QED BY <1>4, <1>5, <2>1
<1>7. Range(gpuQueue') \subseteq Range(gpuQueue) /\ IsInjective(gpuQueue')
  <2>1. gpuQueue' = gpuQueue \/ (gpuQueue # <<>> /\ gpuQueue' = Tail(gpuQueue))
    BY <1>1
  <2>2. CASE gpuQueue # <<>>
    <3>1. Range(Tail(gpuQueue)) \subseteq Range(gpuQueue) /\ IsInjective(Tail(gpuQueue))
      BY <1>3, <1>5, <2>2, PopRange, PopInjective
    <3> QED BY <1>5, <2>1, <3>1
  <2> QED BY <1>5, <2>1, <2>2
<1>8. OwnersDisjoint'
  BY <1>1, <1>2, <1>6 DEF ListInv, OwnersDisjoint
<1>9. NoDuplicates'
  BY <1>1, <1>2, <1>6, <1>7 DEF ListInv, NoDuplicates
<1>10. FencesOK'
  BY <1>1, <1>2, <1>7 DEF ListInv, FencesOK
<1> QED BY <1>8, <1>9, <1>10 DEF ListInv

(* The front of the finish queue is handed to the recycler, or freed. *)
LEMMA RecycleKeepsLists ==
  ASSUME TypeInv, ListInv, RecycleCommandList
  PROVE  ListInv'
<1> DEFINE l == Head(finishQueue)
<1>1. /\ recycler' \in {recycler, Append(recycler, l)}
      /\ pc[Finisher] = "reset" /\ pc'[Finisher] = "retire"
      /\ UNCHANGED <<submitQueue, finishQueue, gpuQueue, recording, fenced, pc[Submitter]>>
  BY Threading DEF RecycleCommandList, Goto, queueVars
<1>2. UNCHANGED <<Unissued, Unreported, Recorded>>
  BY <1>1 DEF Unissued, Unreported, Recorded
<1>3. finishQueue # <<>> /\ finishQueue \in Seq(CmdLists) /\ recycler \in Seq(CmdLists)
  BY <1>1, Queues DEF TypeInv, FrontsOK
<1>4. Unfinished = finishQueue /\ Unfinished' = Tail(finishQueue)
  BY <1>1 DEF Unfinished
<1>5. IsInjective(recycler) /\ IsInjective(finishQueue)
  BY <1>4 DEF ListInv, NoDuplicates
<1>6. /\ Range(finishQueue) = Range(Tail(finishQueue)) \cup {l}
      /\ l \in CmdLists /\ l \notin Range(Tail(finishQueue)) /\ IsInjective(Tail(finishQueue))
  BY <1>3, <1>5, PopRange, PopInjective
<1>7. /\ l \notin Recorded /\ l \notin Range(recycler) /\ l \notin Range(submitQueue)
      /\ l \notin Range(gpuQueue)
  <2>1. l \in fenced
    BY <1>1 DEF ListInv, FencesOK
  <2> QED BY <1>4, <1>6, <2>1 DEF ListInv, OwnersDisjoint, FencesOK
<1>8. Range(recycler') \subseteq Range(recycler) \cup {l} /\ IsInjective(recycler')
  <2>1. /\ Range(Append(recycler, l)) = Range(recycler) \cup {l}
        /\ IsInjective(Append(recycler, l))
    BY <1>3, <1>5, <1>6, <1>7, PushRange, PushInjective
  <2> QED BY <1>1, <1>5, <2>1
<1>9. OwnersDisjoint'
  BY <1>1, <1>2, <1>4, <1>6, <1>7, <1>8 DEF ListInv, OwnersDisjoint
<1>10. NoDuplicates'
  BY <1>1, <1>2, <1>4, <1>6, <1>8 DEF ListInv, NoDuplicates
<1>11. FencesOK'
  BY <1>1, <1>2, <1>7, <1>8 DEF ListInv, FencesOK
<1> QED BY <1>9, <1>10, <1>11 DEF ListInv

LEMMA FinisherRetireKeepsLists ==
  ASSUME TypeInv, ListInv, FinisherRetire
  PROVE  ListInv'
<1>1. /\ finishQueue' = Tail(finishQueue)
      /\ pc[Finisher] = "retire" /\ pc'[Finisher] = "wait"
      /\ UNCHANGED <<submitQueue, recycler, gpuQueue, recording, fenced, pc[Submitter]>>
  BY Threading DEF FinisherRetire, Goto, deviceVars
<1>2. UNCHANGED <<Unissued, Unreported, Unfinished, Recorded>>
  BY <1>1 DEF Unissued, Unreported, Unfinished, Recorded
<1>3. OwnersDisjoint'
  BY <1>1, <1>2 DEF ListInv, OwnersDisjoint
<1>4. NoDuplicates'
  BY <1>1, <1>2 DEF ListInv, NoDuplicates
<1>5. FencesOK'
  BY <1>1, <1>2 DEF ListInv, FencesOK
<1> QED BY <1>3, <1>4, <1>5 DEF ListInv

(* The GPU signals only fences of lists it has been given. *)
LEMMA GpuKeepsLists ==
  ASSUME TypeInv, ListInv, GpuComplete
  PROVE  ListInv'
<1> DEFINE l == Head(gpuQueue)
<1>1. /\ gpuQueue # <<>> /\ gpuQueue' = Tail(gpuQueue) /\ fenced' = fenced \cup {l}
      /\ UNCHANGED <<submitQueue, finishQueue, recycler, recording, pc>>
  BY DEF GpuComplete, queueVars
<1>2. UNCHANGED <<Unissued, Unreported, Unfinished, Recorded>>
  BY <1>1 DEF Unissued, Unreported, Unfinished, Recorded
<1>3. gpuQueue \in Seq(CmdLists) /\ IsInjective(gpuQueue)
  BY Queues DEF ListInv, NoDuplicates
<1>4. /\ Range(gpuQueue) = Range(Tail(gpuQueue)) \cup {l}
      /\ l \notin Range(Tail(gpuQueue)) /\ IsInjective(Tail(gpuQueue))
  BY <1>1, <1>3, PopRange, PopInjective
<1>5. OwnersDisjoint'
  BY <1>1, <1>2 DEF ListInv, OwnersDisjoint
<1>6. NoDuplicates'
  BY <1>1, <1>2, <1>4 DEF ListInv, NoDuplicates
<1>7. FencesOK'
  BY <1>1, <1>2, <1>4 DEF ListInv, FencesOK
<1> QED BY <1>5, <1>6, <1>7 DEF ListInv

LEMMA ListStep == TypeInv /\ ListInv /\ PresenterInv /\ [Next]_vars => ListInv'
<1> SUFFICES ASSUME TypeInv, ListInv, PresenterInv, [Next]_vars PROVE ListInv'
  OBVIOUS
<1>1. CASE /\ UNCHANGED <<submitQueue, finishQueue, gpuQueue, recycler, recording, fenced>>
           /\ UNCHANGED <<Unissued, Unreported, Unfinished>>
           /\ pc'[Finisher] = "reset" => pc[Finisher] = "reset"
  <2>1. UNCHANGED Recorded
    BY <1>1 DEF Recorded
  <2>2. OwnersDisjoint' /\ NoDuplicates'
    BY <1>1, <2>1 DEF ListInv, OwnersDisjoint, NoDuplicates
  <2>3. FencesOK'
    BY <1>1, <2>1 DEF ListInv, FencesOK
  <2> QED BY <2>2, <2>3 DEF ListInv
<1> QED
  BY <1>1, OwnerFrame, CreateKeepsLists, RecreationFailsKeepsLists, SubmitKeepsLists,
     PresentKeepsLists, IssueKeepsLists, PresentingKeepsLists, SubmitterRetireKeepsLists,
     FenceWaitKeepsLists, RecycleKeepsLists, FinisherRetireKeepsLists, GpuKeepsLists

(* Only its own calls and the submit thread's report change a presenter's status. *)
LEMMA StatusStep ==
  ASSUME TypeInv, [Next]_vars, NEW d \in Clients
  PROVE  \/ UNCHANGED <<status[d], pc[d]>>
         \/ BeginCall(d) \/ ClientCall(d)
         \/ StoreStatus
  BY IdentitiesAssumption
  DEF TypeInv, TypeOK, ClientTypes, Threads, Workers, MarkNotReady, Next, ClientCall, SubmitterStep, FinisherStep, vars, allButPc,
      queueVars, lockVars, deviceVars, Goto, BeginCall, WaitForSubmission,
      MayRecreate, RecreateSwapChain, RecreationFails, CreateCommandList, AcquireNextImage, Submit,
      PresentAsync, PresentSyncBegin, PresentSyncEnd, CheckPresent, Synchronize,
      LockDeviceQueue, UnlockDeviceQueue, WaitIdleReturns, Sleep, Stop,
      SubmitterTake, SubmitterLock, IssueCmdList, IssuePresent, StoreStatus,
      SubmitterRetire, FinisherTake, FenceWait, RecycleCommandList,
      FinisherRetire, GpuComplete, Terminated

(* Which presents become or stop being unreported. *)
LEMMA UnreportedStep ==
  ASSUME TypeInv, ListInv, [Next]_vars, NEW d \in Clients, d \in Range(Unreported')
  PROVE  \/ d \in Range(Unreported) /\ ~(StoreStatus /\ d = Head(submitQueue))
         \/ PresentAsync(d)
<1>1. submitQueue \in Seq(CmdLists \cup Clients) /\ Range(Unreported) \subseteq Range(submitQueue)
  BY Queues
<1>2. pc[Submitter] \in {"inVulkan", "store", "retire"} => submitQueue # <<>>
  BY DEF TypeInv, FrontsOK
<1>3. submitQueue # <<>> => Range(Tail(submitQueue)) \subseteq Range(submitQueue)
  BY <1>1, PopRange
<1>4. CASE StoreStatus
  <2>1. /\ pc[Submitter] = "store" /\ pc'[Submitter] = "retire" /\ UNCHANGED submitQueue
        /\ Head(submitQueue) \in Clients
    BY <1>4, Threading DEF StoreStatus, Goto, queueVars, TypeInv, FrontsOK
  <2>2. Unreported = submitQueue /\ Unreported' = Tail(submitQueue) /\ submitQueue # <<>>
    BY <1>2, <2>1 DEF Unreported
  <2>3. Head(submitQueue) \notin Range(Tail(submitQueue))
    BY <1>1, <2>2, PopInjective DEF ListInv, NoDuplicates
  <2> QED BY <1>3, <2>2, <2>3
<1>5. CASE SubmitterRetire
  <2>1. pc[Submitter] = "retire" /\ pc'[Submitter] = "wait" /\ submitQueue' = Tail(submitQueue)
    BY <1>5, Threading DEF SubmitterRetire, Goto
  <2>2. Unreported' = Tail(submitQueue) /\ Unreported \in {submitQueue, Tail(submitQueue)}
    BY <2>1 DEF Unreported
  <2>3. ~StoreStatus
    BY <2>1 DEF StoreStatus
  <2> QED BY <1>2, <1>3, <2>1, <2>2, <2>3
<1>6. ASSUME NEW c \in Clients, NEW x \in CmdLists \cup Clients,
             submitQueue' = Append(submitQueue, x), UNCHANGED pc[Submitter]
      PROVE  Range(Unreported') = Range(Unreported) \cup {x}
  <2>1. submitQueue # <<>> => /\ Tail(submitQueue') = Append(Tail(submitQueue), x)
                             /\ Head(submitQueue') = Head(submitQueue)
    BY <1>1, <1>6, PushThenPop, PushRange
  <2>2. Unreported' = Append(Unreported, x)
    BY <1>2, <1>6, <2>1 DEF Unreported
  <2>3. Unreported \in Seq(CmdLists \cup Clients)
    BY Queues
  <2> QED BY <2>2, <2>3, PushRange
<1>7. ASSUME NEW c \in Clients, Submit(c) PROVE d \in Range(Unreported) /\ ~StoreStatus
  <2>1. recording[c] \in CmdLists /\ d \notin CmdLists
    BY <1>7, Threading DEF Submit, TypeInv, RecordingOK
  <2>2. submitQueue' = Append(submitQueue, recording[c]) /\ UNCHANGED pc[Submitter]
    BY <1>7, Threading DEF Submit, Goto
  <2>3. ~StoreStatus
    BY <2>2, Threading DEF StoreStatus, Goto
  <2> QED BY <1>6, <2>1, <2>2, <2>3
<1>8. ASSUME NEW c \in Clients, PresentAsync(c)
      PROVE  (d \in Range(Unreported) /\ ~StoreStatus) \/ d = c
  <2>1. submitQueue' = Append(submitQueue, c) /\ UNCHANGED pc[Submitter]
    BY <1>8, Threading DEF PresentAsync, Goto
  <2>2. ~StoreStatus
    BY <2>1, Threading DEF StoreStatus, Goto
  <2> QED BY <1>6, <2>1, <2>2
<1>9. CASE IssueCmdList \/ IssuePresent
  <2>1. pc[Submitter] = "inVulkan" /\ UNCHANGED submitQueue
        /\ ~(pc'[Submitter] = "retire" /\ Head(submitQueue) \in Clients)
    BY <1>9, Threading DEF IssueCmdList, IssuePresent, Goto, queueVars
  <2>2. UNCHANGED Unreported /\ ~StoreStatus
    BY <2>1 DEF Unreported, StoreStatus
  <2> QED BY <2>2
<1>10. CASE /\ UNCHANGED Unreported /\ ~StoreStatus
  BY <1>10
<1>11. CASE FenceWait \/ RecycleCommandList \/ FinisherRetire \/ GpuComplete
           \/ \E c \in Clients : CreateCommandList(c) \/ RecreationFails(c)
  <2>1. UNCHANGED <<submitQueue, pc[Submitter]>>
    BY <1>11, Threading DEF FenceWait, RecycleCommandList, FinisherRetire, GpuComplete,
                            CreateCommandList, MayRecreate, RecreationFails, Goto, queueVars
  <2>2. UNCHANGED Unreported /\ ~StoreStatus
    BY <2>1, Threading DEF Unreported, StoreStatus, Goto
  <2> QED BY <2>2
<1> QED
  BY <1>4, <1>5, <1>7, <1>8, <1>9, <1>10, <1>11, OwnerFrame

LEMMA PresenterStep == TypeInv /\ ListInv /\ PresenterInv /\ [Next]_vars => PresenterInv'
<1> SUFFICES ASSUME TypeInv, ListInv, PresenterInv, [Next]_vars,
                    NEW d \in Clients, d \in Range(Unreported')
             PROVE  /\ status'[d] = "notReady"
                    /\ pc'[d] \notin {"recreateFirst", "recreate", "record", "acquire", "submitFrame",
                                      "present", "presenting", "recreateLast"}
  BY DEF PresenterInv
<1>1. CASE PresentAsync(d)
  BY <1>1, Threading DEF PresentAsync, MarkNotReady, Goto
<1>2. CASE d \in Range(Unreported) /\ ~(StoreStatus /\ d = Head(submitQueue))
  <2>1. /\ status[d] = "notReady"
        /\ pc[d] \notin {"recreateFirst", "recreate", "record", "acquire", "submitFrame",
                       "present", "presenting", "recreateLast"}
    BY <1>2 DEF PresenterInv
  <2>2. CASE UNCHANGED <<status[d], pc[d]>>
    BY <2>1, <2>2
  <2>3. CASE BeginCall(d)
    BY <2>1, <2>3, Threading, SizesAssumption DEF BeginCall, Goto, allButPc
  <2>4. CASE ClientCall(d)
    BY <2>1, <2>4, Threading
    DEF ClientCall, WaitForSubmission, MayRecreate, RecreateSwapChain, RecreationFails, CreateCommandList,
        AcquireNextImage, Submit, PresentAsync, PresentSyncBegin, PresentSyncEnd,
        CheckPresent, Synchronize, LockDeviceQueue, UnlockDeviceQueue, WaitIdleReturns, Goto,
        Admits, allButPc
  <2>5. CASE StoreStatus
    <3>1. status'[d] = status[d] /\ pc'[d] = pc[d]
      BY <1>2, <2>5, Threading DEF StoreStatus, Goto
    <3> QED BY <2>1, <3>1
  <2> QED BY <2>2, <2>3, <2>4, <2>5, StatusStep
<1> QED BY <1>1, <1>2, UnreportedStep

LEMMA InitLists == Init => ListInv /\ PresenterInv
<1> SUFFICES ASSUME Init PROVE ListInv /\ PresenterInv
  OBVIOUS
<1> USE IdentitiesAssumption
<1>1. /\ submitQueue = <<>> /\ finishQueue = <<>> /\ gpuQueue = <<>> /\ recycler = <<>>
      /\ fenced = {} /\ pc[Submitter] = "wait" /\ pc[Finisher] = "wait"
  BY DEF Init, Threads, Workers
<1>2. Recorded = {} /\ \A c \in Clients : recording[c] = Nobody
  BY DEF Init, Recorded
<1>3. Unreported = <<>> /\ Unissued = <<>> /\ Unfinished = <<>>
  BY <1>1 DEF Unreported, Unissued, Unfinished
<1>4. Range(<<>>) = {} /\ IsInjective(<<>>)
  BY DEF Range, IsInjective
<1> QED BY <1>1, <1>2, <1>3, <1>4
        DEF ListInv, OwnersDisjoint, NoDuplicates, FencesOK, PresenterInv

(* No list the recycler may hand out or a client records is queued or on the
   GPU, and no list has two owners. *)
THEOREM ListsOwned == Spec => []ListOwnership
<1>1. ASSUME TypeInv, ListInv PROVE ListOwnership
  <2>1. Lists(submitQueue) \subseteq Range(submitQueue)
    BY DEF Lists
  <2> QED BY <1>1, <2>1 DEF ListInv, OwnersDisjoint, NoDuplicates, FencesOK, ListOwnership
<1> QED BY <1>1, InitType, TypeStep, InitLists, ListStep, PresenterStep, PTL DEF Spec

(* The submit thread never presents a swap chain its client is using. *)
THEOREM PresentersQuiescent == Spec => []PresenterQuiescent
<1>1. ASSUME TypeInv, PresenterInv PROVE PresenterQuiescent
  <2>1. Range(Unissued) \subseteq Range(Unreported)
    BY <1>1, Queues
  <2> QED BY <1>1, <2>1 DEF PresenterInv, PresenterQuiescent
<1> QED BY <1>1, InitType, TypeStep, InitLists, ListStep, PresenterStep, PTL DEF Spec

-----------------------------------------------------------------------------
(* Counting the work in flight *)

(* The lists of a queue are finitely many, no more than its entries. *)
LEMMA RangeBound ==
  ASSUME NEW S, NEW s \in Seq(S)
  PROVE  IsFiniteSet(Range(s)) /\ Cardinality(Range(s)) <= Len(s)
<1>1. Len(s) \in Nat /\ DOMAIN s = 1 .. Len(s) /\ s \in [1 .. Len(s) -> S]
  BY LenProperties
<1>2. s \in Surjection(1 .. Len(s), Range(s))
  BY <1>1 DEF Surjection, Range
<1>3. IsFiniteSet(1 .. Len(s)) /\ Cardinality(1 .. Len(s)) = Len(s)
  BY <1>1, FS_Interval
<1>4. IsFiniteSet(Range(s)) /\ Cardinality(Range(s)) <= Cardinality(1 .. Len(s))
  <2> DEFINE D == 1 .. Len(s)
             R == Range(s)
  <2>1. IsFiniteSet(D) /\ s \in Surjection(D, R)
    BY <1>2, <1>3
  <2> HIDE DEF D, R
  <2>2. IsFiniteSet(R) /\ Cardinality(R) <= Cardinality(D)
    BY <2>1, FS_Surjection
  <2> QED BY <2>2 DEF D, R
<1> QED BY <1>3, <1>4

LEMMA ListsBound ==
  ASSUME NEW S, NEW s \in Seq(S)
  PROVE  /\ IsFiniteSet(Lists(s)) /\ Cardinality(Lists(s)) \in Nat
         /\ Cardinality(Lists(s)) <= Len(s) /\ Len(s) \in Nat
<1>1. IsFiniteSet(Range(s)) /\ Cardinality(Range(s)) <= Len(s) /\ Len(s) \in Nat
  BY RangeBound
<1>2. Lists(s) \in SUBSET Range(s)
  BY DEF Lists
<1>3. IsFiniteSet(Lists(s)) /\ Cardinality(Lists(s)) <= Cardinality(Range(s))
  BY <1>1, <1>2, FS_Subset
<1>4. Cardinality(Lists(s)) \in Nat /\ Cardinality(Range(s)) \in Nat
  BY <1>1, <1>3, FS_CardinalityType
<1> QED BY <1>1, <1>3, <1>4

(* What the front of the submit queue is when the submit thread pops it: a
   list leaves the set of queued lists, a present is not in it. *)
LEMMA PoppedLists ==
  ASSUME TypeInv, ListInv, SubmitterRetire
  PROVE  /\ submitQueue # <<>> /\ submitQueue' = Tail(submitQueue)
         /\ Lists(submitQueue') = Lists(submitQueue) \ {Head(submitQueue)}
         /\ Head(submitQueue) \in CmdLists => Head(submitQueue) \in Lists(submitQueue)
<1> DEFINE l == Head(submitQueue)
<1>1. /\ submitQueue # <<>> /\ submitQueue' = Tail(submitQueue)
      /\ submitQueue \in Seq(CmdLists \cup Clients) /\ pc[Submitter] = "retire"
  BY Queues DEF SubmitterRetire, TypeInv, FrontsOK
<1>2. Range(submitQueue) = Range(Tail(submitQueue)) \cup {l}
  BY <1>1, PopRange
<1>3. ASSUME l \in CmdLists PROVE l \notin Range(Tail(submitQueue))
  <2>1. Unreported = submitQueue
    BY <1>3, Threading DEF Unreported
  <2> QED BY <1>1, <2>1, PopInjective DEF ListInv, NoDuplicates
<1> QED BY <1>1, <1>2, <1>3 DEF Lists

(* A list or a present is pushed. *)
LEMMA PushedLists ==
  ASSUME TypeInv, NEW c \in Clients
  PROVE  /\ Submit(c) => /\ recording[c] \in CmdLists
                         /\ Lists(submitQueue') = Lists(submitQueue) \cup {recording[c]}
         /\ PresentAsync(c) => Lists(submitQueue') = Lists(submitQueue)
<1>1. ASSUME Submit(c)
      PROVE  /\ recording[c] \in CmdLists
             /\ Lists(submitQueue') = Lists(submitQueue) \cup {recording[c]}
  <2>1. recording[c] \in CmdLists /\ submitQueue' = Append(submitQueue, recording[c])
    BY <1>1, Threading DEF Submit, TypeInv, RecordingOK
  <2>2. Range(submitQueue') = Range(submitQueue) \cup {recording[c]}
    <3>1. submitQueue \in Seq(CmdLists \cup Clients) /\ recording[c] \in CmdLists \cup Clients
      BY <2>1, Queues
    <3>2. Range(Append(submitQueue, recording[c])) = Range(submitQueue) \cup {recording[c]}
      BY <3>1, PushRange
    <3> QED BY <2>1, <3>2
  <2> QED BY <2>1, <2>2 DEF Lists
<1>2. ASSUME PresentAsync(c) PROVE Lists(submitQueue') = Lists(submitQueue)
  <2>1. Range(submitQueue') = Range(submitQueue) \cup {c}
    <3>1. submitQueue \in Seq(CmdLists \cup Clients) /\ submitQueue' = Append(submitQueue, c)
      BY <1>2, Queues DEF PresentAsync
    <3> QED BY <3>1, PushRange
  <2>2. c \notin CmdLists
    BY Threading
  <2> QED BY <2>1, <2>2 DEF Lists
<1> QED BY <1>1, <1>2

LEMMA InFlightStep ==
  ASSUME TypeInv, ListInv, InFlightBound, [Next]_vars
  PROVE  InFlightBound'
<1>1. /\ IsFiniteSet(Lists(submitQueue)) /\ Cardinality(Lists(submitQueue)) \in Nat
      /\ Cardinality(Lists(submitQueue)) <= Len(submitQueue) /\ Len(submitQueue) \in Nat
      /\ submitQueue \in Seq(CmdLists \cup Clients) /\ finishQueue \in Seq(CmdLists)
      /\ Len(finishQueue) \in Nat /\ MaxQueued \in Nat
      /\ Cardinality(Lists(submitQueue)) + Len(finishQueue) <= MaxQueued + 1
  BY Queues, ListsBound, SizesAssumption DEF InFlightBound
<1>2. CASE UNCHANGED <<submitQueue, finishQueue>>
  BY <1>1, <1>2 DEF InFlightBound, Lists
<1>3. ASSUME NEW c \in Clients, Submit(c) PROVE InFlightBound'
  <2>1. Len(submitQueue) + Len(finishQueue) <= MaxQueued /\ UNCHANGED finishQueue
    BY <1>3, Threading DEF Submit, Proceeds, Admits, AdmissionLimit
  <2>2. Lists(submitQueue') = Lists(submitQueue) \cup {recording[c]}
    BY <1>3, PushedLists
  <2>3. Cardinality(Lists(submitQueue')) <= Cardinality(Lists(submitQueue)) + 1
        /\ Cardinality(Lists(submitQueue')) \in Nat
    <3>1. /\ IsFiniteSet(Lists(submitQueue'))
          /\ Cardinality(Lists(submitQueue')) \in
                {Cardinality(Lists(submitQueue)), Cardinality(Lists(submitQueue)) + 1}
      <4> DEFINE L == Lists(submitQueue)
                 M == Lists(submitQueue')
                 l == recording[c]
      <4>1. IsFiniteSet(L) /\ M = L \cup {l}
        BY <1>1, <2>2
      <4> HIDE DEF L, M, l
      <4>2. /\ IsFiniteSet(L \cup {l})
            /\ Cardinality(L \cup {l}) = IF l \in L THEN Cardinality(L) ELSE Cardinality(L) + 1
        BY <4>1, FS_AddElement
      <4>3. IsFiniteSet(M) /\ Cardinality(M) \in {Cardinality(L), Cardinality(L) + 1}
        BY <4>1, <4>2
      <4> QED BY <4>3 DEF L, M
    <3> QED BY <1>1, <3>1
  <2>4. Len(finishQueue') = Len(finishQueue)
    BY <2>1
  <2>5. Cardinality(Lists(submitQueue')) + Len(finishQueue') <= MaxQueued + 1
    BY <1>1, <2>1, <2>3, <2>4
  <2> QED BY <2>5 DEF InFlightBound
<1>4. ASSUME NEW c \in Clients, PresentAsync(c) PROVE InFlightBound'
  <2>1. Lists(submitQueue') = Lists(submitQueue) /\ UNCHANGED finishQueue
    BY <1>4, PushedLists DEF PresentAsync
  <2> QED BY <1>1, <2>1 DEF InFlightBound
<1>5. CASE SubmitterRetire
  <2>1. Cardinality(Lists(submitQueue')) =
           IF Head(submitQueue) \in Lists(submitQueue)
           THEN Cardinality(Lists(submitQueue)) - 1 ELSE Cardinality(Lists(submitQueue))
    BY <1>1, <1>5, PoppedLists, FS_RemoveElement
  <2>2. \/ finishQueue' = finishQueue
        \/ Head(submitQueue) \in Lists(submitQueue) /\ Len(finishQueue') = Len(finishQueue) + 1
    <3>1. \/ finishQueue' = finishQueue
          \/ /\ finishQueue' = Append(finishQueue, Head(submitQueue))
             /\ Head(submitQueue) \in CmdLists
      BY <1>5 DEF SubmitterRetire, Finishable
    <3>2. ASSUME Head(submitQueue) \in CmdLists
          PROVE  Len(Append(finishQueue, Head(submitQueue))) = Len(finishQueue) + 1
      BY <1>1, <3>2
    <3> QED BY <1>5, <3>1, <3>2, PoppedLists
  <2> QED BY <1>1, <2>1, <2>2 DEF InFlightBound
<1>6. CASE FinisherRetire
  <2>1. finishQueue # <<>> /\ finishQueue' = Tail(finishQueue) /\ UNCHANGED submitQueue
    BY <1>6 DEF FinisherRetire, TypeInv, FrontsOK
  <2>2. Len(finishQueue') = Len(finishQueue) - 1
    BY <1>1, <2>1, HeadTailProperties
  <2>3. Lists(submitQueue') = Lists(submitQueue)
    BY <2>1
  <2> QED BY <1>1, <2>2, <2>3 DEF InFlightBound
<1>7. CASE \/ \E c \in Clients : CreateCommandList(c)
           \/ IssueCmdList \/ FenceWait \/ RecycleCommandList \/ GpuComplete
  BY <1>2, <1>7 DEF CreateCommandList, IssueCmdList, FenceWait, RecycleCommandList,
                    GpuComplete, queueVars
<1> QED BY <1>2, <1>3, <1>4, <1>5, <1>6, <1>7, QueueFrame

(* submit() throttles: clients that race past its wait together put at most
   one list more than the limit between submit() and its fence. *)
THEOREM SubmissionThrottled == Spec => []InFlightBound
<1>1. ASSUME Init PROVE InFlightBound
  <2>1. Lists(submitQueue) = {} /\ Len(finishQueue) = 0
    BY <1>1 DEF Init, Lists, Range
  <2> QED BY <2>1, FS_EmptySet, SizesAssumption DEF InFlightBound
<1> QED BY <1>1, InFlightStep, InitType, TypeStep, InitLists, ListStep, PresenterStep,
           PTL DEF Spec

-----------------------------------------------------------------------------
(* Work the device knows of *)

(* The lists handed to the GPU and not retired, in submission order. *)
Issued == IF pc[Submitter] = "retire" /\ Finishable(Head(submitQueue))
          THEN Append(Unfinished, Head(submitQueue)) ELSE Unfinished

IsTailOf(s, t) ==
    \E k \in Nat : /\ Len(t) = Len(s) + k
                   /\ \A i \in 1 .. Len(s) : s[i] = t[i + k]

(* What the GPU still runs is the newest part of what it was handed. *)
GpuInOrder == IsTailOf(gpuQueue, Issued)

(* Lists that pending counts, and the one whose slot is about to be popped. *)
Outstanding == Lists(submitQueue) \cup Range(Unfinished)
BeingRetired == IF pc[Finisher] = "retire" THEN 1 ELSE 0
PendingCounts == Cardinality(Outstanding) + BeingRetired <= pending

(* Nobody waits for idle before everything is issued, nor leaves before it ran. *)
IdleDrained ==
    /\ (\A c \in Clients : pc[c] \in {"idling", "done"}) => submitQueue = <<>>
    /\ (\A c \in Clients : pc[c] = "done") => gpuQueue = <<>>

WorkInv == GpuInOrder /\ PendingCounts /\ IdleDrained

LEMMA TailOfPush ==
  ASSUME NEW S, NEW s \in Seq(S), NEW t \in Seq(S), NEW x \in S, IsTailOf(s, t)
  PROVE  IsTailOf(Append(s, x), Append(t, x))
<1>1. PICK k \in Nat : Len(t) = Len(s) + k /\ \A i \in 1 .. Len(s) : s[i] = t[i + k]
  BY DEF IsTailOf
<1>2. /\ Len(s) \in Nat /\ Len(Append(s, x)) = Len(s) + 1 /\ Len(Append(t, x)) = Len(t) + 1
      /\ \A i \in 1 .. Len(s) : Append(s, x)[i] = s[i]
      /\ \A i \in 1 .. Len(t) : Append(t, x)[i] = t[i]
      /\ Append(s, x)[Len(s) + 1] = x /\ Append(t, x)[Len(t) + 1] = x
  OBVIOUS
<1>3. ASSUME NEW i \in 1 .. Len(s) + 1 PROVE Append(s, x)[i] = Append(t, x)[i + k]
  <2>1. CASE i = Len(s) + 1
    BY <1>1, <1>2, <2>1
  <2>2. CASE i # Len(s) + 1
    <3>1. i \in 1 .. Len(s) /\ i + k \in 1 .. Len(t)
      BY <1>1, <1>2, <2>2
    <3> QED BY <1>1, <1>2, <3>1
  <2> QED BY <2>1, <2>2
<1>4. Len(Append(t, x)) = Len(Append(s, x)) + k
  BY <1>1, <1>2
<1> QED BY <1>2, <1>3, <1>4 DEF IsTailOf

LEMMA TailOfPops ==
  ASSUME NEW S, NEW s \in Seq(S), NEW t \in Seq(S), IsTailOf(s, t)
  PROVE  /\ s # <<>> => IsTailOf(Tail(s), t) /\ t # <<>> /\ IsTailOf(Tail(s), Tail(t))
         /\ t # <<>> /\ Head(t) \notin Range(s) => IsTailOf(s, Tail(t))
<1>1. PICK k \in Nat : Len(t) = Len(s) + k /\ \A i \in 1 .. Len(s) : s[i] = t[i + k]
  BY DEF IsTailOf
<1>2. Len(s) \in Nat /\ Len(t) \in Nat /\ DOMAIN s = 1 .. Len(s)
  OBVIOUS
<1>3. s # <<>> => /\ Len(Tail(s)) = Len(s) - 1 /\ Len(s) \in Nat \ {0}
                  /\ \A i \in 1 .. Len(s) - 1 : Tail(s)[i] = s[i + 1]
  BY HeadTailProperties, EmptySeq
<1>4. t # <<>> => /\ Len(Tail(t)) = Len(t) - 1 /\ Len(t) \in Nat \ {0} /\ Head(t) = t[1]
                  /\ \A i \in 1 .. Len(t) - 1 : Tail(t)[i] = t[i + 1]
  BY HeadTailProperties, EmptySeq
<1>5. ASSUME s # <<>> PROVE IsTailOf(Tail(s), t)
  <2>1. k + 1 \in Nat /\ Len(t) = Len(Tail(s)) + (k + 1)
    BY <1>1, <1>2, <1>3, <1>5
  <2>2. ASSUME NEW i \in 1 .. Len(Tail(s)) PROVE Tail(s)[i] = t[i + (k + 1)]
    <3>1. Tail(s)[i] = s[i + 1] /\ i + 1 \in 1 .. Len(s)
      BY <1>2, <1>3, <1>5
    <3>2. s[i + 1] = t[(i + 1) + k] /\ (i + 1) + k = i + (k + 1)
      BY <1>1, <1>2, <1>3, <1>5, <3>1
    <3> QED BY <3>1, <3>2
  <2> QED BY <2>1, <2>2 DEF IsTailOf
<1>6. ASSUME s # <<>> PROVE t # <<>> /\ IsTailOf(Tail(s), Tail(t))
  <2>1. t # <<>>
    BY <1>1, <1>2, <1>3, <1>6, EmptySeq
  <2>2. Len(Tail(t)) = Len(Tail(s)) + k
    BY <1>1, <1>2, <1>3, <1>4, <1>6, <2>1
  <2>3. ASSUME NEW i \in 1 .. Len(Tail(s)) PROVE Tail(s)[i] = Tail(t)[i + k]
    <3>1. Tail(s)[i] = s[i + 1] /\ i + 1 \in 1 .. Len(s)
      BY <1>2, <1>3, <1>6
    <3>2. s[i + 1] = t[(i + 1) + k] /\ (i + 1) + k = (i + k) + 1 /\ i + k \in 1 .. Len(t) - 1
      BY <1>1, <1>2, <1>3, <1>6, <3>1
    <3> QED BY <1>4, <2>1, <3>1, <3>2
  <2> QED BY <2>1, <2>2, <2>3 DEF IsTailOf
<1>7. ASSUME t # <<>>, Head(t) \notin Range(s) PROVE IsTailOf(s, Tail(t))
  <2>1. k # 0
    <3> SUFFICES ASSUME k = 0 PROVE FALSE
      OBVIOUS
    <3>1. 1 \in DOMAIN s /\ s[1] = t[1]
      BY <1>1, <1>2, <1>4, <1>7
    <3> QED BY <1>4, <1>7, <3>1 DEF Range
  <2>2. k - 1 \in Nat /\ Len(Tail(t)) = Len(s) + (k - 1)
    BY <1>1, <1>2, <1>4, <1>7, <2>1
  <2>3. ASSUME NEW i \in 1 .. Len(s) PROVE s[i] = Tail(t)[i + (k - 1)]
    <3>1. i + (k - 1) \in 1 .. Len(t) - 1 /\ (i + (k - 1)) + 1 = i + k
      BY <1>1, <1>2, <2>1
    <3> QED BY <1>1, <1>4, <1>7, <3>1
  <2> QED BY <2>2, <2>3 DEF IsTailOf
<1> QED BY <1>5, <1>6, <1>7

LEMMA TailOfRange ==
  ASSUME NEW S, NEW s \in Seq(S), NEW t \in Seq(S), IsTailOf(s, t)
  PROVE  Range(s) \subseteq Range(t)
<1>1. PICK k \in Nat : Len(t) = Len(s) + k /\ \A i \in 1 .. Len(s) : s[i] = t[i + k]
  BY DEF IsTailOf
<1>2. Len(s) \in Nat /\ DOMAIN s = 1 .. Len(s) /\ DOMAIN t = 1 .. Len(t)
  OBVIOUS
<1>3. ASSUME NEW i \in 1 .. Len(s) PROVE s[i] \in Range(t)
  <2>1. i + k \in DOMAIN t /\ s[i] = t[i + k]
    BY <1>1, <1>2
  <2> QED BY <2>1 DEF Range
<1> QED BY <1>2, <1>3 DEF Range

(* What the queues, the counter and the workers depend on. *)
LEMMA WorkFrame ==
  ASSUME TypeInv, [Next]_vars
  PROVE  \/ UNCHANGED <<submitQueue, finishQueue, gpuQueue, submitOk, pending,
                        pc[Submitter], pc[Finisher]>>
         \/ \E c \in Clients : Submit(c) \/ PresentAsync(c)
         \/ SubmitterStep \/ FinisherStep \/ GpuComplete
  BY Threading
  DEF Next, ClientCall, vars, allButPc, queueVars, lockVars, deviceVars, Goto,
      BeginCall, WaitForSubmission, MayRecreate, RecreateSwapChain, RecreationFails, CreateCommandList,
      AcquireNextImage, PresentSyncBegin, PresentSyncEnd, CheckPresent, Synchronize,
      LockDeviceQueue, UnlockDeviceQueue, WaitIdleReturns, Sleep, Stop, Terminated

(* A list that was submitted moves from one queue to the other. *)
LEMMA RetireKeepsIssued ==
  ASSUME TypeInv, SubmitterRetire
  PROVE  Issued' = Issued /\ Issued' = Unfinished'
<1>1. /\ pc[Submitter] = "retire" /\ pc'[Submitter] = "wait"
      /\ finishQueue' = IF Finishable(Head(submitQueue))
                        THEN Append(finishQueue, Head(submitQueue)) ELSE finishQueue
      /\ UNCHANGED pc[Finisher]
  BY Threading DEF SubmitterRetire, Goto
<1>2. /\ finishQueue \in Seq(CmdLists)
      /\ pc[Finisher] = "retire" => finishQueue # <<>>
  BY Queues DEF TypeInv, FrontsOK
<1>3. Head(submitQueue) \in CmdLists /\ finishQueue # <<>> =>
         Tail(Append(finishQueue, Head(submitQueue))) = Append(Tail(finishQueue), Head(submitQueue))
  BY <1>2, PushThenPop
<1>4. Issued' = Unfinished'
  BY <1>1 DEF Issued
<1>5. CASE Finishable(Head(submitQueue))
  <2>1. Head(submitQueue) \in CmdLists /\ finishQueue' = Append(finishQueue, Head(submitQueue))
    BY <1>1, <1>5 DEF Finishable
  <2>2. Unfinished' = Append(Unfinished, Head(submitQueue))
    BY <1>1, <1>2, <1>3, <2>1 DEF Unfinished
  <2> QED BY <1>1, <1>4, <1>5, <2>2 DEF Issued
<1>6. CASE ~Finishable(Head(submitQueue))
  BY <1>1, <1>4, <1>6 DEF Issued, Unfinished
<1> QED BY <1>4, <1>5, <1>6

(* A list is in Issued from the submission that succeeds until the finish
   thread is through with it: moving it between the queues changes nothing. *)
LEMMA IssuedFrame ==
  ASSUME TypeInv, ListInv, [Next]_vars
  PROVE  \/ UNCHANGED <<gpuQueue, Issued>>
         \/ IssueCmdList \/ FenceWait \/ RecycleCommandList \/ GpuComplete
<1>1. /\ submitQueue \in Seq(CmdLists \cup Clients) /\ finishQueue \in Seq(CmdLists)
      /\ pc[Submitter] = "retire" => submitQueue # <<>>
      /\ pc[Submitter] = "store" => Head(submitQueue) \in Clients
      /\ pc[Finisher] = "retire" => finishQueue # <<>>
  BY Queues DEF TypeInv, FrontsOK
<1>2. CASE UNCHANGED <<submitQueue, finishQueue, gpuQueue, submitOk, pending,
                       pc[Submitter], pc[Finisher]>>
  BY <1>2 DEF Issued, Unfinished, Finishable
<1>3. ASSUME NEW c \in Clients, Submit(c) \/ PresentAsync(c)
      PROVE  UNCHANGED <<gpuQueue, Issued>>
  <2>1. /\ UNCHANGED <<finishQueue, gpuQueue, submitOk, pc[Submitter], pc[Finisher]>>
        /\ \E e \in CmdLists \cup Clients : submitQueue' = Append(submitQueue, e)
    BY <1>3, Threading DEF Submit, PresentAsync, Goto, TypeInv, RecordingOK, deviceVars
  <2>2. pc[Submitter] = "retire" => Head(submitQueue') = Head(submitQueue)
    BY <1>1, <2>1, PushRange
  <2> QED BY <2>1, <2>2 DEF Issued, Unfinished, Finishable
<1>4. CASE SubmitterTake \/ SubmitterLock \/ IssuePresent
  <2>1. /\ pc[Submitter] # "retire" /\ pc'[Submitter] # "retire"
        /\ UNCHANGED <<finishQueue, gpuQueue, pc[Finisher]>>
    BY <1>4, Threading DEF SubmitterTake, SubmitterLock, IssuePresent, Goto, queueVars,
                           allButPc
  <2> QED BY <2>1 DEF Issued, Unfinished
<1>5. CASE StoreStatus
  <2>1. /\ pc[Submitter] = "store" /\ UNCHANGED <<submitQueue, finishQueue, gpuQueue, pc[Finisher]>>
    BY <1>5, Threading DEF StoreStatus, Goto, queueVars
  <2>2. Head(submitQueue) \notin CmdLists
    BY <1>1, <2>1, Threading
  <2> QED BY <2>1, <2>2 DEF Issued, Unfinished, Finishable
<1>6. CASE SubmitterRetire
  BY <1>6, RetireKeepsIssued DEF SubmitterRetire
<1>7. CASE FinisherTake \/ FinisherRetire
  <2>1. UNCHANGED <<submitQueue, gpuQueue, submitOk, pc[Submitter]>>
    BY <1>7, Threading DEF FinisherTake, FinisherRetire, Goto, allButPc, queueVars, deviceVars
  <2>2. Unfinished' = Unfinished
    BY <1>7, Threading DEF FinisherTake, FinisherRetire, Goto, allButPc, queueVars, Unfinished
  <2> QED BY <2>1, <2>2 DEF Issued, Finishable
<1> QED BY <1>2, <1>3, <1>4, <1>5, <1>6, <1>7, WorkFrame DEF SubmitterStep, FinisherStep

LEMMA IssuedType ==
  ASSUME TypeInv
  PROVE  /\ Issued \in Seq(CmdLists) /\ gpuQueue \in Seq(CmdLists)
         /\ Range(Issued) \subseteq Outstanding
<1>1. Unfinished \in Seq(CmdLists) /\ gpuQueue \in Seq(CmdLists)
      /\ submitQueue \in Seq(CmdLists \cup Clients)
  BY Queues
<1>2. CASE pc[Submitter] = "retire" /\ Finishable(Head(submitQueue))
  <2>1. submitQueue # <<>> /\ Head(submitQueue) \in CmdLists
    BY <1>2 DEF TypeInv, FrontsOK, Finishable
  <2>2. Head(submitQueue) \in Lists(submitQueue)
    BY <1>1, <2>1, PopRange DEF Lists
  <2>3. /\ Append(Unfinished, Head(submitQueue)) \in Seq(CmdLists)
        /\ Range(Append(Unfinished, Head(submitQueue))) = Range(Unfinished) \cup {Head(submitQueue)}
    BY <1>1, <2>1, PushRange
  <2> QED BY <1>1, <1>2, <2>2, <2>3 DEF Issued, Outstanding
<1>3. CASE ~(pc[Submitter] = "retire" /\ Finishable(Head(submitQueue)))
  BY <1>1, <1>3 DEF Issued, Outstanding
<1> QED BY <1>1, <1>2, <1>3

(* The finish thread gives up the front of the finish queue, and that only. *)
LEMMA IssuedPop ==
  ASSUME TypeInv, pc[Finisher] \in {"fence", "reset"}, pc'[Finisher] = "retire",
         UNCHANGED <<submitQueue, finishQueue, submitOk, pc[Submitter]>>
  PROVE  Issued # <<>> /\ Head(Issued) = Head(finishQueue) /\ Issued' = Tail(Issued)
<1>1. /\ finishQueue \in Seq(CmdLists) /\ finishQueue # <<>>
      /\ Unfinished = finishQueue /\ Unfinished' = Tail(finishQueue)
  BY Queues DEF TypeInv, FrontsOK, Unfinished
<1>2. CASE pc[Submitter] = "retire" /\ Finishable(Head(submitQueue))
  <2> DEFINE h == Head(submitQueue)
  <2>1. h \in CmdLists
    BY <1>2 DEF Finishable
  <2>2. /\ Append(finishQueue, h) # <<>> /\ Head(Append(finishQueue, h)) = Head(finishQueue)
        /\ Tail(Append(finishQueue, h)) = Append(Tail(finishQueue), h)
    BY <1>1, <2>1, PushRange, PushThenPop
  <2>3. Issued = Append(finishQueue, h) /\ Issued' = Append(Tail(finishQueue), h)
    BY <1>1, <1>2 DEF Issued, Finishable
  <2> QED BY <2>2, <2>3
<1>3. CASE ~(pc[Submitter] = "retire" /\ Finishable(Head(submitQueue)))
  BY <1>1, <1>3 DEF Issued, Finishable
<1> QED BY <1>2, <1>3

LEMMA GpuStep ==
  ASSUME TypeInv, ListInv, GpuInOrder, [Next]_vars
  PROVE  GpuInOrder'
<1>1. Issued \in Seq(CmdLists) /\ gpuQueue \in Seq(CmdLists) /\ IsTailOf(gpuQueue, Issued)
  BY IssuedType DEF GpuInOrder
<1>2. CASE UNCHANGED <<gpuQueue, Issued>>
  BY <1>2 DEF GpuInOrder, IsTailOf
<1>3. CASE IssueCmdList
  <2>1. /\ pc[Submitter] = "inVulkan" /\ pc'[Submitter] = "retire"
        /\ Head(submitQueue) \in CmdLists
        /\ UNCHANGED <<submitQueue, finishQueue, pc[Finisher]>>
        /\ \/ submitOk' = TRUE /\ gpuQueue' = Append(gpuQueue, Head(submitQueue))
           \/ submitOk' = FALSE /\ gpuQueue' = gpuQueue
    BY <1>3, Threading DEF IssueCmdList, Goto, queueVars
  <2>2. Issued = Unfinished /\ Unfinished' = Unfinished
    BY <2>1 DEF Issued, Unfinished
  <2>3. CASE submitOk' = TRUE /\ gpuQueue' = Append(gpuQueue, Head(submitQueue))
    <3>1. Issued' = Append(Issued, Head(submitQueue))
      BY <2>1, <2>2, <2>3 DEF Issued, Finishable
    <3>2. IsTailOf(Append(gpuQueue, Head(submitQueue)), Append(Issued, Head(submitQueue)))
      BY <1>1, <2>1, TailOfPush
    <3> QED BY <2>3, <3>1, <3>2 DEF GpuInOrder, IsTailOf
  <2>4. CASE submitOk' = FALSE /\ gpuQueue' = gpuQueue
    <3>1. Issued' = Issued
      BY <2>2, <2>4 DEF Issued, Finishable
    <3> QED BY <1>2, <2>4, <3>1
  <2> QED BY <2>1, <2>3, <2>4
<1>4. CASE FenceWait
  <2>1. /\ pc[Finisher] = "fence"
        /\ UNCHANGED <<submitQueue, finishQueue, submitOk, pc[Submitter]>>
        /\ \/ pc'[Finisher] = "reset" /\ gpuQueue' = gpuQueue
           \/ pc'[Finisher] = "retire" /\ gpuQueue # <<>> /\ gpuQueue' = Tail(gpuQueue)
    BY <1>4, Threading DEF FenceWait, Goto, queueVars
  <2>2. CASE pc'[Finisher] = "reset" /\ gpuQueue' = gpuQueue
    <3>1. Issued' = Issued
      BY <2>1, <2>2 DEF Issued, Unfinished, Finishable
    <3> QED BY <1>2, <2>2, <3>1
  <2>3. CASE pc'[Finisher] = "retire" /\ gpuQueue # <<>> /\ gpuQueue' = Tail(gpuQueue)
    <3>1. Issued' = Tail(Issued)
      BY <2>1, <2>3, IssuedPop
    <3>2. IsTailOf(Tail(gpuQueue), Tail(Issued))
      BY <1>1, <2>3, TailOfPops
    <3> QED BY <2>3, <3>1, <3>2 DEF GpuInOrder, IsTailOf
  <2> QED BY <2>1, <2>2, <2>3
<1>5. CASE RecycleCommandList
  <2>1. /\ pc[Finisher] = "reset" /\ pc'[Finisher] = "retire"
        /\ UNCHANGED <<submitQueue, finishQueue, gpuQueue, submitOk, pc[Submitter]>>
    BY <1>5, Threading DEF RecycleCommandList, Goto, queueVars
  <2>2. Issued # <<>> /\ Head(Issued) = Head(finishQueue) /\ Issued' = Tail(Issued)
    BY <2>1, IssuedPop
  <2>3. Head(Issued) \notin Range(gpuQueue)
    BY <2>1, <2>2 DEF ListInv, FencesOK
  <2>4. IsTailOf(gpuQueue, Tail(Issued))
    BY <1>1, <2>2, <2>3, TailOfPops
  <2> QED BY <2>1, <2>2, <2>4 DEF GpuInOrder, IsTailOf
<1>6. CASE GpuComplete
  <2>1. /\ gpuQueue # <<>> /\ gpuQueue' = Tail(gpuQueue)
        /\ UNCHANGED <<submitQueue, finishQueue, submitOk, pc>>
    BY <1>6 DEF GpuComplete, queueVars
  <2>2. Issued' = Issued
    BY <2>1 DEF Issued, Unfinished, Finishable
  <2>3. IsTailOf(Tail(gpuQueue), Issued)
    BY <1>1, <2>1, TailOfPops
  <2> QED BY <2>1, <2>2, <2>3 DEF GpuInOrder, IsTailOf
<1> QED BY <1>2, <1>3, <1>4, <1>5, <1>6, IssuedFrame

LEMMA IdleStep ==
  ASSUME TypeInv, IdleDrained, [Next]_vars
  PROVE  IdleDrained'
<1>1. ASSUME \A c \in Clients : pc'[c] \in {"idling", "done"} PROVE submitQueue' = <<>>
  <2>1. CASE \A c \in Clients : pc[c] \in {"idling", "done"}
    <3>1. submitQueue = <<>>
      BY <2>1 DEF IdleDrained
    <3>2. ~SubmitterRetire /\ \A c \in Clients : ~Submit(c) /\ ~PresentAsync(c)
      BY <2>1, <3>1 DEF SubmitterRetire, Submit, PresentAsync, TypeInv, FrontsOK
    <3> QED BY <3>1, <3>2, QueueFrame
            DEF CreateCommandList, IssueCmdList, FenceWait, RecycleCommandList,
                FinisherRetire, GpuComplete, queueVars
  <2>2. ASSUME NEW c \in Clients, pc[c] \notin {"idling", "done"} PROVE submitQueue' = <<>>
    <3>1. BeginCall(c) \/ ClientCall(c)
      BY <1>1, <2>2, OwnStep
    <3>2. Synchronize(c)
      BY <1>1, <2>2, <3>1, Threading, SizesAssumption
      DEF ClientCall, BeginCall, WaitForSubmission, MayRecreate, RecreateSwapChain, RecreationFails,
          CreateCommandList, AcquireNextImage, Submit, PresentAsync, PresentSyncBegin,
          PresentSyncEnd, CheckPresent, LockDeviceQueue, UnlockDeviceQueue,
          WaitIdleReturns, Goto
    <3>3. Admits(c) /\ submitQueue' = submitQueue /\ pc[c] \in {"syncLock", "syncIdle"}
      BY <3>2 DEF Synchronize, Proceeds, allButPc, queueVars
    <3>4. Admits(c) = Synchronized
      BY <3>3, Threading DEF Admits
    <3> QED BY <3>3, <3>4 DEF Synchronized
  <2> QED BY <2>1, <2>2
<1>2. ASSUME \A c \in Clients : pc'[c] = "done" PROVE gpuQueue' = <<>>
  <2>1. CASE \A c \in Clients : pc[c] = "done"
    <3>1. submitQueue = <<>> /\ gpuQueue = <<>>
      BY <2>1 DEF IdleDrained
    <3>2. ~IssueCmdList /\ ~GpuComplete
      BY <3>1 DEF IssueCmdList, GpuComplete, TypeInv, FrontsOK
    <3>3. FenceWait => gpuQueue' = gpuQueue
      BY <3>1 DEF FenceWait
    <3> QED BY <3>1, <3>2, <3>3, QueueFrame
            DEF CreateCommandList, Submit, PresentAsync, SubmitterRetire,
                RecycleCommandList, FinisherRetire
  <2>2. ASSUME NEW c \in Clients, pc[c] # "done" PROVE gpuQueue' = <<>>
    <3>1. BeginCall(c) \/ ClientCall(c)
      BY <1>2, <2>2, OwnStep
    <3>2. WaitIdleReturns(c)
      BY <1>2, <2>2, <3>1, Threading, SizesAssumption
      DEF ClientCall, BeginCall, WaitForSubmission, MayRecreate, RecreateSwapChain, RecreationFails,
          CreateCommandList, AcquireNextImage, Submit, PresentAsync, PresentSyncBegin,
          PresentSyncEnd, CheckPresent, LockDeviceQueue, UnlockDeviceQueue,
          Synchronize, Goto
    <3> QED BY <3>2 DEF WaitIdleReturns, allButPc
  <2> QED BY <2>1, <2>2
<1> QED BY <1>1, <1>2 DEF IdleDrained

LEMMA OutstandingFinite ==
  ASSUME TypeInv
  PROVE  IsFiniteSet(Outstanding) /\ Cardinality(Outstanding) \in Nat
<1>1. IsFiniteSet(Lists(submitQueue)) /\ IsFiniteSet(Range(Unfinished))
  BY Queues, ListsBound, RangeBound
<1>2. IsFiniteSet(Outstanding)
  BY <1>1, FS_Union DEF Outstanding
<1> QED BY <1>2, FS_CardinalityType

(* The front of the finish queue is counted once: it is in no queue again. *)
LEMMA OutstandingPop ==
  ASSUME TypeInv, ListInv, pc[Finisher] \in {"fence", "reset"}, pc'[Finisher] = "retire",
         UNCHANGED <<submitQueue, finishQueue>>
  PROVE  Cardinality(Outstanding') = Cardinality(Outstanding) - 1
<1> DEFINE h == Head(finishQueue)
<1>1. /\ finishQueue \in Seq(CmdLists) /\ finishQueue # <<>>
      /\ Unfinished = finishQueue /\ Unfinished' = Tail(finishQueue)
  BY Queues DEF TypeInv, FrontsOK, Unfinished
<1>2. IsInjective(finishQueue)
  BY <1>1 DEF ListInv, NoDuplicates
<1>3. /\ Range(finishQueue) = Range(Tail(finishQueue)) \cup {h}
      /\ h \notin Range(Tail(finishQueue))
  BY <1>1, <1>2, PopRange, PopInjective
<1>4. h \notin Lists(submitQueue)
  BY <1>1, <1>3 DEF ListInv, OwnersDisjoint, Lists
<1>5. h \in Outstanding /\ Outstanding' = Outstanding \ {h}
  BY <1>1, <1>3, <1>4 DEF Outstanding
<1>6. IsFiniteSet(Outstanding)
  BY OutstandingFinite
<1>7. Cardinality(Outstanding \ {h}) = Cardinality(Outstanding) - 1
  BY <1>5, <1>6, FS_RemoveElement
<1> QED BY <1>5, <1>7

LEMMA PendingStep ==
  ASSUME TypeInv, ListInv, PendingCounts, [Next]_vars
  PROVE  PendingCounts'
<1> DEFINE n == Cardinality(Outstanding)
           m == Cardinality(Outstanding')
<1>1. /\ IsFiniteSet(Outstanding) /\ n \in Nat /\ pending \in Int
      /\ n + BeingRetired <= pending
  BY OutstandingFinite DEF TypeInv, TypeOK, CounterTypes, PendingCounts
<1>2. ASSUME UNCHANGED <<submitQueue, finishQueue, pending>>,
             pc'[Finisher] = pc[Finisher] \/ {pc[Finisher], pc'[Finisher]} \cap {"retire"} = {}
      PROVE  PendingCounts'
  <2>1. Unfinished' = Unfinished /\ BeingRetired' = BeingRetired
    BY <1>2 DEF Unfinished, BeingRetired
  <2>2. Outstanding' = Outstanding
    BY <1>2, <2>1 DEF Outstanding, Lists
  <2> QED BY <1>1, <1>2, <2>1, <2>2 DEF PendingCounts
<1>3. ASSUME NEW c \in Clients, Submit(c) PROVE PendingCounts'
  <2>1. pending' = pending + 1 /\ UNCHANGED <<finishQueue, pc[Finisher]>>
    BY <1>3, Threading DEF Submit, CountSubmission, Goto
  <2>2. Unfinished' = Unfinished /\ BeingRetired' = BeingRetired /\ BeingRetired \in {0, 1}
    BY <2>1 DEF Unfinished, BeingRetired
  <2>3. Outstanding' = Outstanding \cup {recording[c]}
    BY <1>3, <2>2, PushedLists DEF Outstanding
  <2>4. Cardinality(Outstanding \cup {recording[c]}) \in {n, n + 1}
    BY <1>1, FS_AddElement
  <2>5. m \in {n, n + 1}
    BY <2>3, <2>4
  <2>6. m + BeingRetired <= pending + 1
    BY <1>1, <2>2, <2>5
  <2> QED BY <2>1, <2>2, <2>6 DEF PendingCounts
<1>4. ASSUME NEW c \in Clients, PresentAsync(c) PROVE PendingCounts'
  <2>1. UNCHANGED <<pending, finishQueue, pc[Finisher]>>
    BY <1>4, Threading DEF PresentAsync, Goto
  <2>2. Unfinished' = Unfinished /\ BeingRetired' = BeingRetired
    BY <2>1 DEF Unfinished, BeingRetired
  <2>3. Outstanding' = Outstanding
    BY <1>4, <2>2, PushedLists DEF Outstanding
  <2> QED BY <1>1, <2>1, <2>2, <2>3 DEF PendingCounts
<1>5. CASE SubmitterRetire
  <2>1. UNCHANGED <<pending, pc[Finisher]>> /\ BeingRetired \in {0, 1}
    BY <1>5, Threading DEF SubmitterRetire, Goto, BeingRetired
  <2>2. Range(Unfinished') \subseteq Outstanding
    BY <1>5, RetireKeepsIssued, IssuedType
  <2>3. Lists(submitQueue') \subseteq Outstanding
    BY <1>5, PoppedLists DEF Outstanding
  <2>4. Outstanding' \in SUBSET Outstanding
    BY <2>2, <2>3 DEF Outstanding
  <2>5. IsFiniteSet(Outstanding') /\ m <= n
    BY <1>1, <2>4, FS_Subset
  <2>6. m \in Nat
    BY <2>5, FS_CardinalityType
  <2>7. m + BeingRetired <= pending
    BY <1>1, <2>1, <2>5, <2>6
  <2> QED BY <2>1, <2>7 DEF PendingCounts, BeingRetired
<1>6. CASE FenceWait \/ RecycleCommandList
  <2>1. /\ UNCHANGED <<submitQueue, finishQueue, pending>>
        /\ pc[Finisher] \in {"fence", "reset"} /\ pc'[Finisher] \in {"reset", "retire"}
    BY <1>6, Threading DEF FenceWait, RecycleCommandList, Goto, queueVars
  <2>2. CASE pc'[Finisher] = "reset"
    BY <1>2, <2>1, <2>2
  <2>3. CASE pc'[Finisher] = "retire"
    <3>1. m = n - 1
      BY <2>1, <2>3, OutstandingPop
    <3>2. BeingRetired = 0 /\ BeingRetired' = 1
      BY <2>1, <2>3 DEF BeingRetired
    <3>3. m + 1 <= pending
      BY <1>1, <3>1, <3>2
    <3> QED BY <2>1, <3>2, <3>3 DEF PendingCounts
  <2> QED BY <2>1, <2>2, <2>3
<1>7. CASE FinisherRetire
  <2>1. /\ pending' = pending - 1 /\ finishQueue' = Tail(finishQueue) /\ UNCHANGED submitQueue
        /\ pc[Finisher] = "retire" /\ pc'[Finisher] = "wait"
    BY <1>7, Threading DEF FinisherRetire, Goto
  <2>2. Unfinished' = Unfinished /\ BeingRetired = 1 /\ BeingRetired' = 0
    BY <2>1 DEF Unfinished, BeingRetired
  <2>3. Outstanding' = Outstanding
    BY <2>1, <2>2 DEF Outstanding, Lists
  <2>4. n + 0 <= pending - 1
    BY <1>1, <2>2
  <2> QED BY <2>1, <2>2, <2>3, <2>4 DEF PendingCounts
<1>8. CASE FinisherTake
  <2>1. UNCHANGED <<submitQueue, finishQueue, pending>> /\ pc[Finisher] = "wait"
        /\ pc'[Finisher] \in {"stopped", "fence"}
    BY <1>8, Threading DEF FinisherTake, Goto, allButPc, queueVars
  <2> QED BY <1>2, <2>1
<1>9. CASE SubmitterTake \/ SubmitterLock \/ IssueCmdList \/ IssuePresent \/ StoreStatus
           \/ GpuComplete
  <2>1. UNCHANGED <<submitQueue, finishQueue, pending, pc[Finisher]>>
    BY <1>9, Threading DEF SubmitterTake, SubmitterLock, IssueCmdList, IssuePresent,
                           StoreStatus, GpuComplete, Goto, allButPc, queueVars
  <2> QED BY <1>2, <2>1
<1> QED BY <1>2, <1>3, <1>4, <1>5, <1>6, <1>7, <1>8, <1>9, WorkFrame
        DEF SubmitterStep, FinisherStep

LEMMA InitWork == Init => WorkInv
<1> SUFFICES ASSUME Init PROVE WorkInv
  OBVIOUS
<1> USE IdentitiesAssumption
<1>1. /\ submitQueue = <<>> /\ finishQueue = <<>> /\ gpuQueue = <<>> /\ pending = 0
      /\ pc[Submitter] = "wait" /\ pc[Finisher] = "wait"
  BY DEF Init, Threads, Workers
<1>2. Unfinished = <<>> /\ Issued = <<>> /\ BeingRetired = 0
  BY <1>1 DEF Unfinished, Issued, BeingRetired
<1>3. Outstanding = {}
  BY <1>1, <1>2 DEF Outstanding, Lists, Range
<1>4. GpuInOrder
  <2>1. Len(Issued) = Len(gpuQueue) + 0 /\ 0 \in Nat /\ Len(gpuQueue) = 0
    BY <1>1, <1>2
  <2> QED BY <2>1 DEF GpuInOrder, IsTailOf
<1>5. PendingCounts
  BY <1>1, <1>2, <1>3, FS_EmptySet DEF PendingCounts
<1> QED BY <1>1, <1>4, <1>5 DEF WorkInv, IdleDrained

(* Nobody who asks whether the GPU is idle, or who destroys the device after
   the clients' last waitForIdle, overlooks a list, whatever has failed. *)
THEOREM WorkCounted == Spec => []WorkAccountedFor
<1>1. ASSUME TypeInv, WorkInv PROVE WorkAccountedFor
  <2> DEFINE W == Lists(Unissued) \cup Range(Unfinished) \cup Range(gpuQueue)
  <2>1. Lists(Unissued) \subseteq Lists(submitQueue)
    BY <1>1, Queues DEF Lists
  <2>2. Range(gpuQueue) \subseteq Outstanding
    BY <1>1, IssuedType, TailOfRange DEF WorkInv, GpuInOrder
  <2>3. W \in SUBSET Outstanding
    BY <2>1, <2>2 DEF Outstanding
  <2>4. IsFiniteSet(Outstanding) /\ Cardinality(Outstanding) \in Nat
    BY <1>1, OutstandingFinite
  <2>5. IsFiniteSet(W) /\ Cardinality(W) <= Cardinality(Outstanding)
    BY <2>3, <2>4, FS_Subset
  <2>6. Cardinality(W) \in Nat
    BY <2>5, FS_CardinalityType
  <2>7. pending \in Int /\ Cardinality(Outstanding) <= pending
    BY <1>1, <2>4 DEF TypeInv, TypeOK, CounterTypes, WorkInv, PendingCounts, BeingRetired
  <2>8. Cardinality(W) <= pending
    BY <2>4, <2>5, <2>6, <2>7
  <2>9. ASSUME pending = 0 PROVE gpuQueue = <<>>
    <3>1. Outstanding = {}
      BY <2>4, <2>7, <2>9, FS_EmptySet
    <3>2. Range(gpuQueue) = {} /\ gpuQueue \in Seq(CmdLists)
      BY <1>1, <2>2, <3>1, Queues
    <3>3. ASSUME gpuQueue # <<>> PROVE FALSE
      <4>1. 1 \in DOMAIN gpuQueue
        BY <3>2, <3>3, EmptySeq
      <4> QED BY <3>2, <4>1 DEF Range
    <3> QED BY <3>3
  <2>10. PendingCoversWork
    BY <2>8, <2>9 DEF PendingCoversWork
  <2>11. ShutdownSafe
    BY <1>1 DEF WorkInv, IdleDrained, ShutdownSafe
  <2> QED BY <2>10, <2>11 DEF WorkAccountedFor
<1>2. ASSUME TypeInv, ListInv, WorkInv, [Next]_vars PROVE WorkInv'
  BY <1>2, GpuStep, PendingStep, IdleStep DEF WorkInv
<1> QED BY <1>1, <1>2, InitWork, InitType, TypeStep, InitLists, ListStep, PresenterStep,
           PTL DEF Spec

-----------------------------------------------------------------------------
(* Wake-ups *)

(* A present that was accepted stays reported as not ready until it is issued. *)
NotReadyQueued ==
    \A c \in Clients : status[c] = "notReady" => pc[c] = "presenting" \/ c \in Range(Unreported)

(* A client that presents again while the slot of its last present is still to
   be popped has submitted a list in between. *)
FrameBetween ==
    \A c \in Clients :
        pc[Submitter] = "retire" /\ Head(submitQueue) = c
            /\ (pc[c] = "present" \/ c \in Range(Unreported))
        => Lists(submitQueue) # {}

(* While nothing fails every list that is popped goes on to the finish queue. *)
ListIssued ==
    failures = 0 /\ pc[Submitter] = "retire" /\ Head(submitQueue) \in CmdLists => submitOk

WakeInv == SleeperHasWaker /\ NotReadyQueued /\ FrameBetween /\ ListIssued

LEMMA SubmitterFrame ==
  ASSUME TypeInv, [Next]_vars
  PROVE  \/ UNCHANGED <<pc[Submitter], submitOk>>
         \/ SubmitterTake \/ SubmitterLock \/ IssueCmdList \/ IssuePresent
         \/ StoreStatus \/ SubmitterRetire
  BY Threading
  DEF Next, ClientCall, SubmitterStep, FinisherStep, vars, allButPc,
      queueVars, lockVars, deviceVars, Goto, BeginCall, WaitForSubmission,
      MayRecreate, RecreateSwapChain, RecreationFails, CreateCommandList, AcquireNextImage, Submit,
      PresentAsync, PresentSyncBegin, PresentSyncEnd, CheckPresent, Synchronize,
      LockDeviceQueue, UnlockDeviceQueue, WaitIdleReturns, Sleep, Stop,
      FinisherTake, FenceWait, RecycleCommandList, FinisherRetire, GpuComplete, Terminated

(* Only popping its slot removes an entry from the submit queue. *)
LEMMA FrontKept ==
  ASSUME TypeInv, [Next]_vars, ~SubmitterRetire, submitQueue # <<>>
  PROVE  /\ submitQueue' # <<>> /\ Head(submitQueue') = Head(submitQueue)
         /\ Range(submitQueue) \subseteq Range(submitQueue')
         /\ Lists(submitQueue) \subseteq Lists(submitQueue')
<1>1. submitQueue \in Seq(CmdLists \cup Clients)
  BY Queues
<1>2. CASE UNCHANGED submitQueue
  BY <1>2
<1>3. ASSUME NEW x \in CmdLists \cup Clients, submitQueue' = Append(submitQueue, x)
      PROVE  /\ submitQueue' # <<>> /\ Head(submitQueue') = Head(submitQueue)
             /\ Range(submitQueue) \subseteq Range(submitQueue')
             /\ Lists(submitQueue) \subseteq Lists(submitQueue')
  BY <1>1, <1>3, PushRange DEF Lists
<1>4. ASSUME NEW c \in Clients, Submit(c)
      PROVE  recording[c] \in CmdLists /\ submitQueue' = Append(submitQueue, recording[c])
  BY <1>4, Threading DEF Submit, TypeInv, RecordingOK
<1>5. ASSUME NEW c \in Clients, PresentAsync(c) PROVE submitQueue' = Append(submitQueue, c)
  BY <1>5 DEF PresentAsync
<1>6. \/ UNCHANGED submitQueue
      \/ \E c \in Clients : Submit(c) \/ PresentAsync(c)
  BY QueueFrame DEF CreateCommandList, IssueCmdList, FenceWait, RecycleCommandList,
                    FinisherRetire, GpuComplete, queueVars
<1> QED BY <1>2, <1>3, <1>4, <1>5, <1>6

(* A present stays unreported until the submit thread stores its status. *)
LEMMA UnreportedKept ==
  ASSUME TypeInv, [Next]_vars, NEW d \in Clients, d \in Range(Unreported)
  PROVE  d \in Range(Unreported') \/ (StoreStatus /\ d = Head(submitQueue))
<1>1. /\ submitQueue \in Seq(CmdLists \cup Clients) /\ Range(Unreported) \subseteq Range(submitQueue)
      /\ Unreported \in Seq(CmdLists \cup Clients)
  BY Queues
<1>2. pc[Submitter] \in {"inVulkan", "store", "retire"} => submitQueue # <<>>
  BY DEF TypeInv, FrontsOK
<1>3. submitQueue # <<>> => Range(submitQueue) = Range(Tail(submitQueue)) \cup {Head(submitQueue)}
  BY <1>1, PopRange
<1>4. CASE StoreStatus
  <2>1. /\ pc[Submitter] = "store" /\ pc'[Submitter] = "retire" /\ UNCHANGED submitQueue
        /\ Head(submitQueue) \in Clients
    BY <1>4, Threading DEF StoreStatus, Goto, queueVars, TypeInv, FrontsOK
  <2>2. Unreported = submitQueue /\ Unreported' = Tail(submitQueue) /\ submitQueue # <<>>
    BY <1>2, <2>1 DEF Unreported
  <2> QED BY <1>3, <1>4, <2>2
<1>5. CASE SubmitterRetire
  <2>1. pc[Submitter] = "retire" /\ pc'[Submitter] = "wait" /\ submitQueue' = Tail(submitQueue)
    BY <1>5, Threading DEF SubmitterRetire, Goto
  <2>2. Unreported' = Tail(submitQueue)
    BY <2>1 DEF Unreported
  <2>3. Head(submitQueue) \in Clients => Unreported = Tail(submitQueue)
    BY <2>1 DEF Unreported
  <2>4. Head(submitQueue) \notin Clients => d # Head(submitQueue)
    OBVIOUS
  <2> QED BY <1>1, <1>2, <1>3, <2>1, <2>2, <2>3, <2>4
<1>6. ASSUME NEW x \in CmdLists \cup Clients,
             submitQueue' = Append(submitQueue, x), UNCHANGED pc[Submitter]
      PROVE  d \in Range(Unreported')
  <2>1. submitQueue # <<>> => /\ Tail(submitQueue') = Append(Tail(submitQueue), x)
                             /\ Head(submitQueue') = Head(submitQueue)
    BY <1>1, <1>6, PushThenPop, PushRange
  <2>2. Unreported' = Append(Unreported, x)
    BY <1>2, <1>6, <2>1 DEF Unreported
  <2> QED BY <1>1, <2>2, PushRange
<1>7. ASSUME NEW c \in Clients, Submit(c) PROVE d \in Range(Unreported')
  <2>1. recording[c] \in CmdLists
    BY <1>7, Threading DEF Submit, TypeInv, RecordingOK
  <2>2. submitQueue' = Append(submitQueue, recording[c]) /\ UNCHANGED pc[Submitter]
    BY <1>7, Threading DEF Submit, Goto
  <2> QED BY <1>6, <2>1, <2>2
<1>8. ASSUME NEW c \in Clients, PresentAsync(c) PROVE d \in Range(Unreported')
  <2>1. submitQueue' = Append(submitQueue, c) /\ UNCHANGED pc[Submitter]
    BY <1>8, Threading DEF PresentAsync, Goto
  <2> QED BY <1>6, <2>1
<1>9. CASE IssueCmdList \/ IssuePresent
  <2>1. pc[Submitter] = "inVulkan" /\ UNCHANGED submitQueue
        /\ ~(pc'[Submitter] = "retire" /\ Head(submitQueue) \in Clients)
    BY <1>9, Threading DEF IssueCmdList, IssuePresent, Goto, queueVars
  <2>2. UNCHANGED Unreported
    BY <2>1 DEF Unreported
  <2> QED BY <2>2
<1>10. CASE UNCHANGED Unreported
  BY <1>10
<1>11. CASE FenceWait \/ RecycleCommandList \/ FinisherRetire \/ GpuComplete
           \/ \E c \in Clients : CreateCommandList(c) \/ RecreationFails(c)
  <2>1. UNCHANGED <<submitQueue, pc[Submitter]>>
    BY <1>11, Threading DEF FenceWait, RecycleCommandList, FinisherRetire, GpuComplete,
                            CreateCommandList, MayRecreate, RecreationFails, Goto, queueVars
  <2>2. UNCHANGED Unreported
    BY <2>1, Threading DEF Unreported
  <2> QED BY <2>2
<1> QED
  BY <1>4, <1>5, <1>7, <1>8, <1>9, <1>10, <1>11, OwnerFrame

LEMMA NotReadyStep == TypeInv /\ NotReadyQueued /\ [Next]_vars => NotReadyQueued'
<1> SUFFICES ASSUME TypeInv, NotReadyQueued, [Next]_vars, NEW d \in Clients, status'[d] = "notReady"
             PROVE  pc'[d] = "presenting" \/ d \in Range(Unreported')
  BY DEF NotReadyQueued
<1>1. status[d] = "notReady" => pc[d] = "presenting" \/ d \in Range(Unreported)
  BY DEF NotReadyQueued
<1>2. ~(StoreStatus /\ d = Head(submitQueue))
  BY Threading DEF StoreStatus
<1>3. d \in Range(Unreported) => d \in Range(Unreported')
  BY <1>2, UnreportedKept
<1>4. CASE UNCHANGED <<status[d], pc[d]>>
  BY <1>1, <1>3, <1>4
<1>5. CASE BeginCall(d)
  <2>1. pc[d] = "idle" /\ UNCHANGED status
    BY <1>5 DEF BeginCall, allButPc
  <2> QED BY <1>1, <1>3, <2>1
<1>6. CASE ClientCall(d)
  <2>1. CASE PresentAsync(d)
    <3>1. d \in Range(submitQueue')
      <4>1. submitQueue \in Seq(CmdLists \cup Clients) /\ submitQueue' = Append(submitQueue, d)
        BY <2>1, Queues DEF PresentAsync
      <4> QED BY <4>1, PushRange
    <3>2. submitQueue' \in Seq(CmdLists \cup Clients) /\ submitQueue' # <<>>
      <4>1. submitQueue \in Seq(CmdLists \cup Clients) /\ submitQueue' = Append(submitQueue, d)
        BY <2>1, Queues DEF PresentAsync
      <4> QED BY <4>1, PushRange
    <3>3. UNCHANGED pc[Submitter]
      BY <2>1, Threading DEF PresentAsync, Goto
    <3>4. CASE pc[Submitter] = "retire" /\ Head(submitQueue) \in Clients
      <4>1. submitQueue # <<>> /\ submitQueue \in Seq(CmdLists \cup Clients)
        BY <3>4, Queues DEF TypeInv, FrontsOK
      <4>2. Tail(submitQueue') = Append(Tail(submitQueue), d) /\ Head(submitQueue') = Head(submitQueue)
            /\ Tail(submitQueue) \in Seq(CmdLists \cup Clients)
        BY <2>1, <4>1, PushThenPop, PushRange, PopRange DEF PresentAsync
      <4>3. Unreported' = Append(Tail(submitQueue), d)
        BY <3>3, <3>4, <4>2 DEF Unreported
      <4>4. Range(Append(Tail(submitQueue), d)) = Range(Tail(submitQueue)) \cup {d}
        <5>1. ASSUME NEW s \in Seq(CmdLists \cup Clients)
              PROVE  Range(Append(s, d)) = Range(s) \cup {d}
          BY <5>1, PushRange
        <5> QED BY <4>2, <5>1
      <4> QED BY <4>3, <4>4
    <3>5. CASE ~(pc[Submitter] = "retire" /\ Head(submitQueue) \in Clients)
      <4>1. CASE submitQueue # <<>>
        <5>1. submitQueue \in Seq(CmdLists \cup Clients) /\ submitQueue' = Append(submitQueue, d)
          BY <2>1, Queues DEF PresentAsync
        <5>2. Head(submitQueue') = Head(submitQueue)
          BY <4>1, <5>1, PushRange
        <5> QED BY <3>1, <3>3, <3>5, <5>2 DEF Unreported
      <4>2. CASE submitQueue = <<>>
        <5>1. pc[Submitter] # "retire"
          BY <4>2 DEF TypeInv, FrontsOK
        <5> QED BY <3>1, <3>3, <5>1 DEF Unreported
      <4> QED BY <4>1, <4>2
    <3> QED BY <3>4, <3>5
  <2>2. CASE PresentSyncBegin(d)
    BY <2>2, Threading DEF PresentSyncBegin, Goto
  <2>3. CASE RecreateSwapChain(d) \/ RecreationFails(d) \/ PresentSyncEnd(d)
    BY <2>3, Threading DEF MayRecreate, RecreateSwapChain, RecreationFails, PresentSyncEnd
  <2>4. CASE ~PresentAsync(d) /\ ~PresentSyncBegin(d) /\ ~RecreateSwapChain(d)
             /\ ~RecreationFails(d) /\ ~PresentSyncEnd(d)
    <3>1. UNCHANGED status /\ pc[d] # "presenting"
      BY <1>6, <2>4 DEF ClientCall, WaitForSubmission, CreateCommandList, AcquireNextImage,
         Submit, CheckPresent, Synchronize, LockDeviceQueue, UnlockDeviceQueue, WaitIdleReturns, allButPc
    <3> QED BY <1>1, <1>3, <3>1
  <2> QED BY <2>1, <2>2, <2>3, <2>4
<1>7. CASE StoreStatus
  <2>1. status'[d] = status[d] /\ pc'[d] = pc[d]
    BY <1>2, <1>7, Threading DEF StoreStatus, Goto
  <2> QED BY <1>1, <1>3, <2>1
<1> QED BY <1>4, <1>5, <1>6, <1>7, StatusStep

LEMMA FrameBetweenStep ==
  TypeInv /\ ListInv /\ PresenterInv /\ FrameBetween /\ [Next]_vars => FrameBetween'
<1> SUFFICES ASSUME TypeInv, ListInv, PresenterInv, FrameBetween, [Next]_vars, NEW c \in Clients,
                    pc'[Submitter] = "retire", Head(submitQueue') = c,
                    pc'[c] = "present" \/ c \in Range(Unreported')
             PROVE  Lists(submitQueue') # {}
  BY DEF FrameBetween
<1>1. ~SubmitterRetire
  BY Threading DEF SubmitterRetire, Goto
<1>2. pc[Submitter] \in {"inVulkan", "store", "retire"} => submitQueue # <<>>
  BY DEF TypeInv, FrontsOK
<1>3. submitQueue # <<>> => /\ Head(submitQueue') = Head(submitQueue)
                           /\ Lists(submitQueue) \subseteq Lists(submitQueue')
  BY <1>1, FrontKept
<1>4. pc[Submitter] = "retire" \/ StoreStatus
  <2>1. ~SubmitterTake /\ ~SubmitterLock /\ ~IssuePresent
    BY Threading DEF SubmitterTake, SubmitterLock, IssuePresent, Goto
  <2>2. ~IssueCmdList
    <3>1. IssueCmdList => pc[Submitter] = "inVulkan" /\ Head(submitQueue) \in CmdLists
      BY DEF IssueCmdList
    <3> QED BY <1>2, <1>3, <3>1, Threading
  <2> QED BY <1>1, <2>1, <2>2, SubmitterFrame
<1>5. CASE pc[Submitter] = "retire"
  <2>1. Head(submitQueue) = c
    BY <1>2, <1>3, <1>5
  <2>2. CASE pc[c] = "present" \/ c \in Range(Unreported)
    BY <1>2, <1>3, <1>5, <2>1, <2>2 DEF FrameBetween
  <2>3. CASE pc[c] # "present" /\ c \notin Range(Unreported)
    <3>1. ~PresentAsync(c)
      BY <2>3 DEF PresentAsync
    <3>2. pc'[c] = "present"
      BY <2>3, <3>1, UnreportedStep
    <3>3. Submit(c)
      <4>1. BeginCall(c) \/ ClientCall(c)
        <5>1. StoreStatus => UNCHANGED pc[c]
          BY Threading DEF StoreStatus, Goto
        <5> QED BY <2>3, <3>2, <5>1, StatusStep
      <4> QED BY <2>3, <3>2, <4>1, Threading, SizesAssumption
            DEF BeginCall, ClientCall, WaitForSubmission, MayRecreate, RecreateSwapChain, RecreationFails, CreateCommandList,
                AcquireNextImage, PresentAsync, PresentSyncBegin, PresentSyncEnd, CheckPresent,
                Synchronize, LockDeviceQueue, UnlockDeviceQueue, WaitIdleReturns, Goto
    <3> QED BY <3>3, PushedLists
  <2> QED BY <2>2, <2>3
<1>6. CASE StoreStatus
  <2>1. /\ pc[Submitter] = "store" /\ UNCHANGED submitQueue /\ submitQueue # <<>>
        /\ UNCHANGED pc[c]
    BY <1>2, <1>6, Threading DEF StoreStatus, Goto, queueVars
  <2>2. Unreported = submitQueue /\ Unreported' = Tail(submitQueue) /\ Head(submitQueue) = c
    BY <2>1 DEF Unreported
  <2>3. c \in Range(Unreported) /\ c \notin Range(Tail(submitQueue))
    <3>1. submitQueue \in Seq(CmdLists \cup Clients) /\ IsInjective(submitQueue)
      BY <2>2, Queues DEF ListInv, NoDuplicates
    <3> QED BY <2>1, <2>2, <3>1, PopRange, PopInjective
  <2>4. pc[c] # "present"
    BY <2>3 DEF PresenterInv
  <2> QED BY <2>1, <2>2, <2>3, <2>4
<1> QED BY <1>4, <1>5, <1>6

LEMMA NoFailureYet ==
  ASSUME TypeInv, [Next]_vars, failures' = 0
  PROVE  failures = 0
<1>1. failures \in Nat
  BY DEF TypeInv, TypeOK, CounterTypes
<1>2. failures' = failures \/ failures' = failures + 1
  BY CounterFrame DEF IssueCmdList, FenceWait, Submit, FinisherRetire
<1> QED BY <1>1, <1>2

LEMMA ListIssuedStep == TypeInv /\ ListIssued /\ [Next]_vars => ListIssued'
<1> SUFFICES ASSUME TypeInv, ListIssued, [Next]_vars, failures' = 0, pc'[Submitter] = "retire",
                    Head(submitQueue') \in CmdLists
             PROVE  submitOk'
  BY DEF ListIssued
<1>1. ~SubmitterRetire /\ ~SubmitterTake /\ ~SubmitterLock /\ ~IssuePresent
  BY Threading DEF SubmitterRetire, SubmitterTake, SubmitterLock, IssuePresent, Goto
<1>2. pc[Submitter] \in {"inVulkan", "store", "retire"} => submitQueue # <<>>
  BY DEF TypeInv, FrontsOK
<1>3. submitQueue # <<>> => Head(submitQueue') = Head(submitQueue)
  BY <1>1, FrontKept
<1>4. failures = 0
  BY NoFailureYet
<1>5. CASE StoreStatus
  BY <1>2, <1>3, <1>5, Threading DEF StoreStatus, TypeInv, FrontsOK
<1>6. CASE IssueCmdList
  BY <1>4, <1>6 DEF IssueCmdList
<1>7. CASE UNCHANGED <<pc[Submitter], submitOk>>
  BY <1>2, <1>3, <1>4, <1>7 DEF ListIssued
<1> QED BY <1>1, <1>5, <1>6, <1>7, SubmitterFrame

(* Without a list in it the submit queue holds at most one present of each
   client: presents alone do not fill it. *)
LEMMA PresentsFit ==
  ASSUME TypeInv, ListInv, FrameBetween, IsFiniteSet(Clients), Lists(submitQueue) = {}
  PROVE  Len(submitQueue) \in Nat /\ Len(submitQueue) <= Cardinality(Clients)
<1>1. submitQueue \in Seq(CmdLists \cup Clients)
  BY Queues
<1>2. Range(submitQueue) \subseteq Clients
  BY <1>1, SeqRange DEF Lists
<1>3. submitQueue \in Seq(Clients)
  <2>1. DOMAIN submitQueue = 1 .. Len(submitQueue) /\ Len(submitQueue) \in Nat
        /\ \A i \in DOMAIN submitQueue : submitQueue[i] \in Range(submitQueue)
    BY <1>1 DEF Range
  <2>2. submitQueue = [i \in 1 .. Len(submitQueue) |-> submitQueue[i]]
    BY <1>1
  <2> QED BY <1>2, <2>1, <2>2
<1>4. IsInjective(submitQueue)
  <2>1. IsInjective(Unreported)
    BY DEF ListInv, NoDuplicates
  <2>2. CASE pc[Submitter] = "retire" /\ Head(submitQueue) \in Clients
    <3>1. submitQueue # <<>> /\ Unreported = Tail(submitQueue)
      BY <2>2 DEF TypeInv, FrontsOK, Unreported
    <3>2. Head(submitQueue) \notin Range(Tail(submitQueue))
      BY <2>2, <3>1 DEF FrameBetween
    <3> QED BY <1>1, <2>1, <3>1, <3>2, UnpopInjective
  <2>3. CASE ~(pc[Submitter] = "retire" /\ Head(submitQueue) \in Clients)
    BY <2>1, <2>3 DEF Unreported
  <2> QED BY <2>2, <2>3
<1> QED BY <1>3, <1>4, InjectiveLength

LEMMA WakeFrame ==
  [Next]_vars =>
    \/ UNCHANGED <<submitQueue, finishQueue, stopped, asleep>>
    \/ \E t \in Threads : Sleep(t)
    \/ \E c \in Clients : Submit(c) \/ PresentAsync(c)
    \/ Stop \/ SubmitterRetire \/ FinisherRetire
  BY DEF Next, ClientCall, SubmitterStep, FinisherStep, vars, allButPc,
         queueVars, BeginCall, WaitForSubmission, CreateCommandList,
         MayRecreate, RecreateSwapChain, RecreationFails, AcquireNextImage, PresentSyncBegin, PresentSyncEnd,
         CheckPresent, Synchronize, LockDeviceQueue, UnlockDeviceQueue, WaitIdleReturns,
         SubmitterTake, SubmitterLock, IssueCmdList, IssuePresent, StoreStatus,
         FinisherTake, FenceWait, RecycleCommandList, GpuComplete, Terminated

(* Who falls asleep has found a predicate false that something queued will
   make true. *)
LEMMA SleepStep ==
  ASSUME TypeInv, ListInv, WakeInv, IsFiniteSet(Clients), Cardinality(Clients) <= MaxQueued,
         NEW t \in Threads, Sleep(t)
  PROVE  SleeperHasWaker'
<1>1. /\ UNCHANGED <<submitQueue, finishQueue, stopped, failures>>
      /\ asleep' = [asleep EXCEPT ![WaitsOn(t)] = @ \cup {t}] /\ Waits(t) /\ ~Admits(t)
  BY DEF Sleep, queueVars
<1>2. asleep \in [Conds -> SUBSET Threads] /\ t \in Clients \cup Workers
  BY DEF TypeInv, TypeOK, LockTypes, Threads
<1>3. CASE t = Submitter
  <2>1. pc[t] = "wait"
    BY <1>1, <1>3, Threading DEF TypeInv, PcOK, SubmitterStates, Waits
  <2>2. asleep' = [asleep EXCEPT !["append"] = @ \cup {t}]
    BY <1>1, <1>3, <2>1 DEF WaitsOn
  <2>3. submitQueue = <<>> /\ ~stopped
    BY <1>1, <1>3, <2>1, Threading DEF Admits
  <2> QED BY <1>1, <1>2, <2>2, <2>3 DEF WakeInv, SleeperHasWaker, Conds
<1>4. CASE t = Finisher
  <2>1. pc[t] = "wait"
    BY <1>1, <1>4, Threading DEF TypeInv, PcOK, FinisherStates, Waits
  <2>2. asleep' = [asleep EXCEPT !["submit"] = @ \cup {t}]
    BY <1>1, <1>4, <2>1, Threading DEF WaitsOn
  <2>3. finishQueue = <<>> /\ ~stopped
    BY <1>1, <1>4, <2>1, Threading DEF Admits
  <2>4. asleep'["submit"] = asleep["submit"] \cup {Finisher} /\ asleep'["append"] = asleep["append"]
        /\ asleep'["finish"] = asleep["finish"] /\ Finisher \notin Clients
    BY <1>2, <1>4, <2>2, Threading DEF Conds
  <2> QED BY <1>1, <2>3, <2>4 DEF WakeInv, SleeperHasWaker
<1>5. CASE t \in Clients
  <2>1. pc[t] # "wait" /\ t # Submitter /\ t # Finisher
    BY <1>5, Threading DEF TypeInv, PcOK, ClientStates
  <2>2. CASE pc[t] \in {"submitFrame", "submitFlush"}
    <3>1. asleep' = [asleep EXCEPT !["finish"] = @ \cup {t}]
      BY <1>1, <2>1, <2>2 DEF WaitsOn
    <3>2. ~(Len(submitQueue) + Len(finishQueue) <= MaxQueued)
      BY <1>1, <2>1, <2>2 DEF Admits, AdmissionLimit
    <3>3. ASSUME finishQueue = <<>>, Lists(submitQueue) = {} PROVE FALSE
      <4>1. Len(submitQueue) \in Nat /\ Len(submitQueue) <= Cardinality(Clients)
        BY <3>3, PresentsFit DEF WakeInv
      <4>2. Len(finishQueue) = 0 /\ Cardinality(Clients) \in Nat /\ MaxQueued \in Nat
        BY <3>3, SizesAssumption, FS_CardinalityType
      <4> QED BY <3>2, <4>1, <4>2
    <3>4. asleep'["finish"] = asleep["finish"] \cup {t} /\ asleep'["append"] = asleep["append"]
          /\ asleep'["submit"] = asleep["submit"]
      BY <1>2, <3>1 DEF Conds
    <3> QED BY <1>1, <3>3, <3>4 DEF WakeInv, SleeperHasWaker, Lists
  <2>3. CASE pc[t] \notin {"submitFrame", "submitFlush"}
    <3>1. asleep' = [asleep EXCEPT !["submit"] = @ \cup {t}]
      BY <1>1, <2>1, <2>3 DEF WaitsOn
    <3>2. submitQueue # <<>>
      <4>1. CASE pc[t] \in {"dirty", "await"}
        <5>1. status[t] = "notReady"
          BY <1>1, <2>1, <4>1 DEF Admits
        <5>2. t \in Range(submitQueue)
          BY <1>5, <4>1, <5>1, Queues DEF WakeInv, NotReadyQueued
        <5>3. submitQueue # <<>>
          BY <5>2 DEF Range
        <5> QED BY <5>3
      <4>2. CASE pc[t] \notin {"dirty", "await"}
        BY <1>1, <2>1, <2>3, <4>2 DEF Admits, Synchronized
      <4> QED BY <4>1, <4>2
    <3>3. asleep'["submit"] = asleep["submit"] \cup {t} /\ asleep'["append"] = asleep["append"]
          /\ asleep'["finish"] = asleep["finish"]
      BY <1>2, <3>1 DEF Conds
    <3> QED BY <1>1, <2>1, <3>2, <3>3 DEF WakeInv, SleeperHasWaker, Lists
  <2> QED BY <2>2, <2>3
<1> QED BY <1>2, <1>3, <1>4, <1>5 DEF Workers

LEMMA WakeStep ==
  ASSUME TypeInv, ListInv, WakeInv, IsFiniteSet(Clients), Cardinality(Clients) <= MaxQueued,
         [Next]_vars
  PROVE  SleeperHasWaker'
<1>1. SleeperHasWaker /\ (failures' = 0 => failures = 0)
  BY NoFailureYet DEF WakeInv
<1>2. asleep \in [Conds -> SUBSET Threads]
  BY DEF TypeInv, TypeOK, LockTypes
<1>3. CASE UNCHANGED <<submitQueue, finishQueue, stopped, asleep>>
  BY <1>1, <1>3 DEF SleeperHasWaker, Lists
<1>4. ASSUME NEW t \in Threads, Sleep(t) PROVE SleeperHasWaker'
  BY <1>4, SleepStep
<1>5. ASSUME NEW c \in Clients, Submit(c) \/ PresentAsync(c) PROVE SleeperHasWaker'
  <2>1. /\ UNCHANGED <<finishQueue, stopped>> /\ NotifyAppended
    BY <1>5 DEF Submit, PresentAsync
  <2>2. asleep'["append"] = {} /\ asleep'["submit"] = asleep["submit"]
        /\ asleep'["finish"] = asleep["finish"]
    BY <2>1 DEF NotifyAppended, Notify, Conds
  <2>3. submitQueue' # <<>>
    <3>1. submitQueue \in Seq(CmdLists \cup Clients)
      BY Queues
    <3>2. \E x \in CmdLists \cup Clients : submitQueue' = Append(submitQueue, x)
      BY <1>5, PushedLists DEF Submit, PresentAsync
    <3> QED BY <3>1, <3>2, PushRange
  <2>4. Lists(submitQueue) \subseteq Lists(submitQueue')
    BY <1>5, PushedLists
  <2> QED BY <1>1, <2>1, <2>2, <2>3, <2>4 DEF SleeperHasWaker
<1>6. CASE Stop
  <2>1. UNCHANGED <<submitQueue, finishQueue>> /\ NotifyStopped
    BY <1>6 DEF Stop, queueVars
  <2>2. asleep'["append"] = {} /\ asleep'["submit"] = {} /\ asleep'["finish"] = asleep["finish"]
    BY <2>1 DEF NotifyStopped, Notify, Conds
  <2> QED BY <1>1, <2>1, <2>2 DEF SleeperHasWaker, Lists
<1>7. CASE SubmitterRetire
  <2>1. UNCHANGED stopped /\ NotifySubmitted /\ pc[Submitter] = "retire"
        /\ finishQueue' = IF Finishable(Head(submitQueue))
                          THEN Append(finishQueue, Head(submitQueue)) ELSE finishQueue
    BY <1>7 DEF SubmitterRetire
  <2>2. asleep'["append"] = asleep["append"] /\ asleep'["submit"] = {}
        /\ asleep'["finish"] = asleep["finish"]
    BY <2>1 DEF NotifySubmitted, Notify, Conds
  <2>3. submitQueue # <<>> /\ Lists(submitQueue') = Lists(submitQueue) \ {Head(submitQueue)}
    BY <1>7, PoppedLists
  <2>4. asleep["append"] = {}
    BY <1>1, <2>3 DEF SleeperHasWaker
  <2>5. Finishable(Head(submitQueue)) => finishQueue' # <<>>
    BY <2>1, Queues, PushRange DEF Finishable
  <2>6. failures = 0 /\ Head(submitQueue) \in CmdLists => Finishable(Head(submitQueue))
    BY <2>1 DEF WakeInv, ListIssued, Finishable
  <2>7. finishQueue' # finishQueue => Finishable(Head(submitQueue))
    BY <2>1
  <2>8. ASSUME asleep'["finish"] # {}, failures' = 0
        PROVE  finishQueue' # <<>> \/ Lists(submitQueue') # {}
    <3>1. finishQueue # <<>> \/ Lists(submitQueue) # {}
      BY <1>1, <2>2, <2>8 DEF SleeperHasWaker
    <3>2. CASE Head(submitQueue) \in CmdLists
      BY <1>1, <2>5, <2>6, <2>8, <3>2
    <3>3. CASE Head(submitQueue) \notin CmdLists
      BY <2>3, <2>5, <2>7, <3>1, <3>3 DEF Lists
    <3> QED BY <3>2, <3>3
  <2> QED BY <2>2, <2>4, <2>8 DEF SleeperHasWaker
<1>8. CASE FinisherRetire
  <2>1. UNCHANGED <<submitQueue, stopped>> /\ NotifyFinished /\ finishQueue # <<>>
    BY <1>8 DEF FinisherRetire, TypeInv, FrontsOK
  <2>2. asleep'["append"] = asleep["append"] /\ asleep'["submit"] = asleep["submit"]
        /\ asleep'["finish"] = {}
    BY <2>1 DEF NotifyFinished, Notify, Conds
  <2> QED BY <1>1, <2>1, <2>2 DEF SleeperHasWaker
<1> QED BY <1>3, <1>4, <1>5, <1>6, <1>7, <1>8, WakeFrame

LEMMA InitWake == Init => WakeInv
<1> SUFFICES ASSUME Init PROVE WakeInv
  OBVIOUS
<1>1. /\ \A q \in Conds : asleep[q] = {}
      /\ pc[Submitter] = "wait" /\ \A c \in Clients : status[c] = "success"
  BY IdentitiesAssumption DEF Init, Threads, Workers
<1> QED
  BY <1>1 DEF WakeInv, SleeperHasWaker, NotReadyQueued, FrameBetween, ListIssued, Conds

(* No lost wake-up, on a device that does not fail: nobody sleeps on a
   condition that nothing queued will notify.  With fewer places than clients
   the presents alone could fill the queue, and nothing would wake submit(). *)
THEOREM SleepersWake ==
  ASSUME IsFiniteSet(Clients), Cardinality(Clients) <= MaxQueued
  PROVE  Spec => []SleeperHasWaker
<1>1. WakeInv => SleeperHasWaker
  BY DEF WakeInv
<1>2. ASSUME TypeInv, ListInv, PresenterInv, WakeInv, [Next]_vars PROVE WakeInv'
  BY <1>2, WakeStep, NotReadyStep, FrameBetweenStep, ListIssuedStep DEF WakeInv
<1> QED BY <1>1, <1>2, InitWake, InitType, TypeStep, InitLists, ListStep, PresenterStep,
           PTL DEF Spec

-----------------------------------------------------------------------------
(* Order of execution *)

(* Removing the first entry of the second queue. *)
LEMMA RemoveSecondFront ==
  ASSUME NEW S, NEW s \in Seq(S), NEW t \in Seq(S), t # <<>>
  PROVE  LET i == Len(s) + 1 IN
         /\ i \in DOMAIN (s \o t) /\ (s \o t)[i] = Head(t)
         /\ \A j \in 1 .. i - 1 : j \in DOMAIN s /\ (s \o t)[j] = s[j]
         /\ RemoveAt(s \o t, i) = s \o Tail(t)
<1>1. Len(s) \in Nat /\ Len(t) \in Nat \ {0} /\ Len(s \o t) = Len(s) + Len(t)
  BY EmptySeq
<1>2. SubSeq(s \o t, 1, (Len(s) + 1) - 1) = s
  BY <1>1
<1>3. SubSeq(s \o t, (Len(s) + 1) + 1, Len(s \o t)) = Tail(t)
  BY <1>1
<1>4. RemoveAt(s \o t, Len(s) + 1) = s \o Tail(t)
  BY <1>2, <1>3 DEF RemoveAt
<1>5. Len(s) + 1 \in DOMAIN (s \o t) /\ (s \o t)[Len(s) + 1] = Head(t)
      /\ \A j \in 1 .. (Len(s) + 1) - 1 : j \in DOMAIN s /\ (s \o t)[j] = s[j]
  BY <1>1
<1> QED BY <1>4, <1>5

LEMMA RemoveFront ==
  ASSUME NEW S, NEW s \in Seq(S), s # <<>>
  PROVE  /\ 1 \in DOMAIN s /\ s[1] = Head(s) /\ RemoveAt(s, 1) = Tail(s)
<1>1. Len(s) \in Nat \ {0}
  BY EmptySeq
<1>2. SubSeq(s, 1, 1 - 1) = <<>>
  BY <1>1
<1>3. SubSeq(s, 1 + 1, Len(s)) = Tail(s)
  BY <1>1
<1>4. RemoveAt(s, 1) = <<>> \o Tail(s)
  BY <1>2, <1>3 DEF RemoveAt
<1> QED BY <1>1, <1>4, PopRange

(* What was handed to the GPU is still there or has been executed. *)
IssuedCovered == Range(Issued) \subseteq Range(gpuQueue) \cup fenced

LEMMA InFlightFacts ==
  ASSUME TypeInv
  PROVE  /\ Unfinished \in Seq(CmdLists) /\ Unfinished \in Seq(CmdLists \cup Clients)
         /\ Waiting \in Seq(CmdLists \cup Clients)
         /\ Range(Waiting) \subseteq Range(Unreported)
         /\ InFlight \in Seq(CmdLists \cup Clients)
         /\ Range(InFlight) = Range(Unfinished) \cup Range(Waiting)
<1>1. /\ Unfinished \in Seq(CmdLists) /\ submitQueue \in Seq(CmdLists \cup Clients)
      /\ pc[Submitter] = "retire" => submitQueue # <<>>
  BY Queues DEF TypeInv, FrontsOK
<1>2. Unfinished \in Seq(CmdLists \cup Clients)
  BY <1>1
<1>3. pc[Submitter] = "retire" => /\ Tail(submitQueue) \in Seq(CmdLists \cup Clients)
                                  /\ Range(Tail(submitQueue)) \subseteq Range(submitQueue)
  BY <1>1, PopRange
<1>4. Waiting \in Seq(CmdLists \cup Clients)
  BY <1>1, <1>3 DEF Waiting
<1>5. Range(Waiting) \subseteq Range(Unreported)
  <2>1. Head(submitQueue) \in Clients => ~Finishable(Head(submitQueue))
    BY Threading DEF Finishable
  <2> QED BY <1>3, <2>1 DEF Waiting, Unreported
<1>6. InFlight \in Seq(CmdLists \cup Clients)
      /\ Range(InFlight) = Range(Unfinished) \cup Range(Waiting)
  BY <1>2, <1>4, ConcatFacts DEF InFlight
<1> QED BY <1>1, <1>2, <1>4, <1>5, <1>6

LEMMA InFlightDisjoint ==
  ASSUME TypeInv, ListInv
  PROVE  /\ Range(Unfinished) \cap Range(Waiting) = {}
         /\ IsInjective(Unfinished)
         /\ (Recorded \cup Range(recycler)) \cap Range(InFlight) = {}
<1>1. Range(Waiting) \subseteq Range(submitQueue)
  BY InFlightFacts, Queues
<1> QED BY <1>1, InFlightFacts DEF ListInv, OwnersDisjoint, NoDuplicates

(* The lists handed to the GPU are the oldest ones in flight. *)
LEMMA IssuedPrefix ==
  ASSUME TypeInv
  PROVE  /\ DOMAIN Issued \subseteq DOMAIN InFlight
         /\ \A i \in DOMAIN Issued : InFlight[i] = Issued[i]
<1>1. /\ Unfinished \in Seq(CmdLists) /\ Waiting \in Seq(CmdLists \cup Clients)
      /\ Unfinished \in Seq(CmdLists \cup Clients)
  BY InFlightFacts
<1>2. CASE pc[Submitter] = "retire" /\ Finishable(Head(submitQueue))
  <2>1. submitQueue # <<>> /\ Waiting = submitQueue /\ Head(submitQueue) \in CmdLists
        /\ Issued = Append(Unfinished, Head(submitQueue))
    BY <1>2 DEF TypeInv, FrontsOK, Waiting, Finishable, Issued
  <2>2. ASSUME NEW s \in Seq(CmdLists \cup Clients), NEW t \in Seq(CmdLists \cup Clients), t # <<>>
        PROVE  /\ DOMAIN Append(s, Head(t)) \subseteq DOMAIN (s \o t)
               /\ \A i \in DOMAIN Append(s, Head(t)) : (s \o t)[i] = Append(s, Head(t))[i]
    BY <2>2
  <2> QED BY <1>1, <2>1, <2>2 DEF InFlight
<1>3. CASE ~(pc[Submitter] = "retire" /\ Finishable(Head(submitQueue)))
  <2>1. Issued = Unfinished
    BY <1>3 DEF Issued
  <2>2. ASSUME NEW s \in Seq(CmdLists \cup Clients), NEW t \in Seq(CmdLists \cup Clients)
        PROVE  DOMAIN s \subseteq DOMAIN (s \o t) /\ \A i \in DOMAIN s : (s \o t)[i] = s[i]
    BY <2>2
  <2> QED BY <1>1, <2>1, <2>2 DEF InFlight
<1> QED BY <1>2, <1>3

LEMMA IssuedInjective ==
  ASSUME TypeInv, ListInv
  PROVE  IsInjective(Issued)
<1>1. Unfinished \in Seq(CmdLists) /\ IsInjective(Unfinished)
      /\ submitQueue \in Seq(CmdLists \cup Clients)
  BY Queues DEF ListInv, NoDuplicates
<1>2. CASE pc[Submitter] = "retire" /\ Finishable(Head(submitQueue))
  <2>1. submitQueue # <<>> /\ Head(submitQueue) \in CmdLists
    BY <1>2 DEF TypeInv, FrontsOK, Finishable
  <2>2. Head(submitQueue) \notin Range(Unfinished)
    BY <1>1, <2>1, PopRange DEF ListInv, OwnersDisjoint
  <2> QED BY <1>1, <1>2, <2>1, <2>2, PushInjective DEF Issued
<1>3. CASE ~(pc[Submitter] = "retire" /\ Finishable(Head(submitQueue)))
  BY <1>1, <1>3 DEF Issued
<1> QED BY <1>2, <1>3

(* The GPU runs the oldest list that is not executed. *)
LEMMA NextOnGpu ==
  ASSUME TypeInv, ListInv, GpuInOrder, IssuedCovered, gpuQueue # <<>>
  PROVE  \E i \in DOMAIN InFlight :
            /\ i \in DOMAIN Issued /\ InFlight[i] = Issued[i]
            /\ InFlight[i] = Head(gpuQueue) /\ Head(gpuQueue) \in CmdLists \ fenced
            /\ \A j \in 1 .. i - 1 : InFlight[j] \in fenced \cap Range(InFlight)
<1>1. Issued \in Seq(CmdLists) /\ gpuQueue \in Seq(CmdLists) /\ IsInjective(Issued)
  BY IssuedType, IssuedInjective
<1>2. PICK k \in Nat : /\ Len(Issued) = Len(gpuQueue) + k
                       /\ \A i \in 1 .. Len(gpuQueue) : gpuQueue[i] = Issued[i + k]
  BY DEF GpuInOrder, IsTailOf
<1>3. Len(gpuQueue) \in Nat \ {0} /\ DOMAIN Issued = 1 .. Len(Issued) /\ Head(gpuQueue) = gpuQueue[1]
      /\ DOMAIN gpuQueue = 1 .. Len(gpuQueue)
  BY <1>1, EmptySeq
<1>4. 1 + k \in DOMAIN Issued /\ Issued[1 + k] = Head(gpuQueue)
  BY <1>2, <1>3
<1>5. Head(gpuQueue) \in CmdLists \ fenced
  BY <1>1, PopRange DEF ListInv, FencesOK
<1>6. ASSUME NEW j \in 1 .. (1 + k) - 1 PROVE j \in DOMAIN Issued /\ Issued[j] \in fenced
  <2>1. j \in DOMAIN Issued
    BY <1>2, <1>3
  <2>2. Issued[j] \in Range(gpuQueue) \cup fenced
    BY <2>1 DEF IssuedCovered, Range
  <2>3. ASSUME NEW i \in 1 .. Len(gpuQueue), gpuQueue[i] = Issued[j] PROVE FALSE
    <3>1. Issued[i + k] = Issued[j] /\ i + k \in DOMAIN Issued /\ i + k # j
      BY <1>2, <1>3, <2>3
    <3> QED BY <1>1, <2>1, <3>1 DEF IsInjective
  <2>4. Issued[j] \notin Range(gpuQueue)
    BY <1>3, <2>3 DEF Range
  <2> QED BY <2>1, <2>2, <2>4
<1>7. DOMAIN Issued \subseteq DOMAIN InFlight /\ \A i \in DOMAIN Issued : InFlight[i] = Issued[i]
  BY IssuedPrefix
<1>8. ASSUME NEW j \in 1 .. (1 + k) - 1 PROVE InFlight[j] \in fenced \cap Range(InFlight)
  BY <1>6, <1>7, <1>8 DEF Range
<1> QED BY <1>4, <1>5, <1>7, <1>8

(* The list the finish thread gives up is the one the GPU runs. *)
LEMMA LostIsOldest ==
  ASSUME TypeInv, ListInv, GpuInOrder, IssuedCovered, gpuQueue # <<>>,
         Issued # <<>>, Head(Issued) \notin fenced
  PROVE  Head(gpuQueue) = Head(Issued)
<1>1. Issued \in Seq(CmdLists) /\ InFlight \in Seq(CmdLists \cup Clients)
  BY IssuedType, InFlightFacts
<1>2. PICK i \in DOMAIN InFlight :
            /\ i \in DOMAIN Issued /\ InFlight[i] = Issued[i]
            /\ InFlight[i] = Head(gpuQueue)
            /\ \A j \in 1 .. i - 1 : InFlight[j] \in fenced
  BY NextOnGpu
<1>3. 1 \in DOMAIN Issued /\ Issued[1] = Head(Issued) /\ InFlight[1] = Issued[1]
  BY <1>1, IssuedPrefix, EmptySeq
<1>4. i \in Nat \ {0}
  BY <1>1
<1>5. i = 1
  BY <1>2, <1>3, <1>4
<1> QED BY <1>2, <1>3, <1>5

(* Fences are signaled by the GPU and reset when a list is recorded again. *)
LEMMA FenceReset ==
  ASSUME TypeInv, NEW c \in Clients, CreateCommandList(c)
  PROVE  \E l \in Recorded' : fenced' = fenced \ {l}
<1>1. PICK l \in CmdLists : recording' = [recording EXCEPT ![c] = l] /\ fenced' = fenced \ {l}
  BY DEF CreateCommandList, ResetFence
<1>2. recording'[c] = l /\ l # Nobody
  BY <1>1, Threading
<1> QED BY <1>1, <1>2 DEF Recorded

LEMMA FencedStep ==
  [Next]_vars => \/ fenced' = fenced \/ GpuComplete \/ \E c \in Clients : CreateCommandList(c)
  BY ClientFrame DEF MayRecreate, RecreateSwapChain, RecreationFails, Submit, PresentAsync,
     PresentSyncBegin, PresentSyncEnd, StoreStatus, deviceVars

LEMMA CoveredStep ==
  ASSUME TypeInv, ListInv, ListInv', TypeInv', GpuInOrder, IssuedCovered, [Next]_vars
  PROVE  IssuedCovered'
<1>1. /\ Issued \in Seq(CmdLists) /\ gpuQueue \in Seq(CmdLists) /\ IsInjective(Issued)
      /\ Range(Issued) \subseteq Range(gpuQueue) \cup fenced
  BY IssuedType, IssuedInjective DEF IssuedCovered
<1>2. CASE UNCHANGED <<gpuQueue, Issued>> /\ \E c \in Clients : CreateCommandList(c)
  <2>1. PICK l \in Recorded' : fenced' = fenced \ {l}
    BY <1>2, FenceReset
  <2>2. Range(Issued') \subseteq Range(Unfinished') \cup Range(submitQueue')
    <3>1. UNCHANGED <<submitQueue, Unfinished>>
      BY <1>2, Threading DEF CreateCommandList, queueVars, Goto, Unfinished
    <3> QED BY <1>1, <1>2, <3>1, IssuedType DEF Outstanding, Lists
  <2>3. l \notin Range(Issued')
    BY <2>2 DEF ListInv, OwnersDisjoint
  <2> QED BY <1>1, <1>2, <2>1, <2>3 DEF IssuedCovered
<1>3. CASE UNCHANGED <<gpuQueue, Issued>> /\ ~\E c \in Clients : CreateCommandList(c)
  <2>1. fenced \subseteq fenced'
    BY <1>3, FencedStep DEF GpuComplete
  <2> QED BY <1>1, <1>3, <2>1 DEF IssuedCovered
<1>4. CASE IssueCmdList
  <2>1. /\ pc[Submitter] = "inVulkan" /\ pc'[Submitter] = "retire"
        /\ Head(submitQueue) \in CmdLists /\ fenced' = fenced
        /\ UNCHANGED <<submitQueue, finishQueue, pc[Finisher]>>
        /\ \/ submitOk' = TRUE /\ gpuQueue' = Append(gpuQueue, Head(submitQueue))
           \/ submitOk' = FALSE /\ gpuQueue' = gpuQueue
    BY <1>4, Threading DEF IssueCmdList, Goto, queueVars, deviceVars
  <2>2. Issued = Unfinished /\ Unfinished' = Unfinished
    BY <2>1 DEF Issued, Unfinished
  <2>3. CASE submitOk' = TRUE /\ gpuQueue' = Append(gpuQueue, Head(submitQueue))
    <3>1. Issued' = Append(Issued, Head(submitQueue))
      BY <2>1, <2>2, <2>3 DEF Issued, Finishable
    <3>2. /\ Range(Append(Issued, Head(submitQueue))) = Range(Issued) \cup {Head(submitQueue)}
          /\ Range(Append(gpuQueue, Head(submitQueue))) = Range(gpuQueue) \cup {Head(submitQueue)}
      BY <1>1, <2>1, PushRange
    <3> QED BY <1>1, <2>1, <2>3, <3>1, <3>2 DEF IssuedCovered
  <2>4. CASE submitOk' = FALSE /\ gpuQueue' = gpuQueue
    <3>1. Issued' = Issued
      BY <2>2, <2>4 DEF Issued, Finishable
    <3> QED BY <1>1, <2>1, <2>4, <3>1 DEF IssuedCovered
  <2> QED BY <2>1, <2>3, <2>4
<1>5. CASE FenceWait \/ RecycleCommandList
  <2>1. /\ pc[Finisher] \in {"fence", "reset"} /\ fenced' = fenced
        /\ UNCHANGED <<submitQueue, finishQueue, submitOk, pc[Submitter]>>
        /\ \/ pc'[Finisher] = "reset" /\ pc[Finisher] = "fence" /\ gpuQueue' = gpuQueue
           \/ /\ pc'[Finisher] = "retire" /\ pc[Finisher] = "fence"
              /\ gpuQueue # <<>> /\ gpuQueue' = Tail(gpuQueue) /\ Head(finishQueue) \notin fenced
           \/ pc'[Finisher] = "retire" /\ pc[Finisher] = "reset" /\ gpuQueue' = gpuQueue
    BY <1>5, Threading DEF FenceWait, RecycleCommandList, Goto, queueVars, deviceVars, FenceSignaled
  <2>2. CASE pc'[Finisher] = "reset" /\ pc[Finisher] = "fence" /\ gpuQueue' = gpuQueue
    <3>1. Issued' = Issued
      BY <2>1, <2>2 DEF Issued, Unfinished, Finishable
    <3> QED BY <1>1, <2>1, <2>2, <3>1 DEF IssuedCovered
  <2>3. CASE pc'[Finisher] = "retire"
    <3>1. Issued # <<>> /\ Head(Issued) = Head(finishQueue) /\ Issued' = Tail(Issued)
      BY <2>1, <2>3, IssuedPop
    <3>2. /\ Range(Issued) = Range(Tail(Issued)) \cup {Head(Issued)}
          /\ Head(Issued) \notin Range(Tail(Issued))
      BY <1>1, <3>1, PopRange, PopInjective
    <3>3. CASE gpuQueue' = gpuQueue
      BY <1>1, <2>1, <3>1, <3>2, <3>3 DEF IssuedCovered
    <3>4. CASE gpuQueue # <<>> /\ gpuQueue' = Tail(gpuQueue) /\ Head(finishQueue) \notin fenced
      <4>1. Head(gpuQueue) = Head(Issued)
        BY <3>1, <3>4, LostIsOldest
      <4>2. Range(gpuQueue) = Range(Tail(gpuQueue)) \cup {Head(gpuQueue)}
        BY <1>1, <3>4, PopRange
      <4> QED BY <1>1, <2>1, <3>1, <3>2, <3>4, <4>1, <4>2 DEF IssuedCovered
    <3> QED BY <2>1, <2>3, <3>3, <3>4
  <2> QED BY <2>1, <2>2, <2>3
<1>6. CASE GpuComplete
  <2>1. /\ gpuQueue # <<>> /\ gpuQueue' = Tail(gpuQueue) /\ fenced' = fenced \cup {Head(gpuQueue)}
        /\ UNCHANGED <<submitQueue, finishQueue, submitOk, pc>>
    BY <1>6 DEF GpuComplete, queueVars
  <2>2. Issued' = Issued
    BY <2>1 DEF Issued, Unfinished, Finishable
  <2>3. Range(gpuQueue) = Range(Tail(gpuQueue)) \cup {Head(gpuQueue)}
    BY <1>1, <2>1, PopRange
  <2> QED BY <1>1, <2>1, <2>2, <2>3 DEF IssuedCovered
<1> QED BY <1>2, <1>3, <1>4, <1>5, <1>6, IssuedFrame

(* The executed lists that have not been retired. *)
Executed == fenced \cap Range(InFlight)

(* Steps the queue takes for itself: nothing in flight, no fence. *)
LEMMA InFlightFrame ==
  ASSUME TypeInv, [Next]_vars
  PROVE  \/ UNCHANGED <<Unfinished, Waiting, failures>> /\ (UNCHANGED fenced \/ \E c \in Clients : CreateCommandList(c))
         \/ \E c \in Clients : Submit(c) \/ PresentAsync(c)
         \/ IssueCmdList \/ StoreStatus \/ SubmitterRetire \/ FenceWait
         \/ RecycleCommandList \/ GpuComplete
<1>1. UNCHANGED failures \/ (\E c \in Clients : Submit(c)) \/ IssueCmdList \/ FenceWait \/ FinisherRetire
  BY CounterFrame
<1>2. CASE UNCHANGED <<submitQueue, finishQueue, gpuQueue, submitOk, pending,
                       pc[Submitter], pc[Finisher]>>
  BY <1>1, <1>2, FencedStep DEF Waiting, Unfinished, Finishable, FinisherRetire
<1>3. CASE SubmitterTake \/ SubmitterLock \/ IssuePresent
  <2>1. /\ pc[Submitter] # "retire" /\ pc'[Submitter] # "retire"
        /\ UNCHANGED <<submitQueue, finishQueue, pc[Finisher], failures, fenced>>
    BY <1>3, Threading DEF SubmitterTake, SubmitterLock, IssuePresent, Goto, queueVars,
                           deviceVars, allButPc
  <2> QED BY <2>1 DEF Waiting, Unfinished
<1>4. CASE FinisherTake \/ FinisherRetire
  <2>1. UNCHANGED <<submitQueue, submitOk, pc[Submitter], failures, fenced>>
    BY <1>4, Threading DEF FinisherTake, FinisherRetire, Goto, allButPc, queueVars, deviceVars
  <2>2. Unfinished' = Unfinished
    BY <1>4, Threading DEF FinisherTake, FinisherRetire, Goto, allButPc, queueVars, Unfinished
  <2> QED BY <2>1, <2>2 DEF Waiting, Finishable
<1> QED BY <1>2, <1>3, <1>4, WorkFrame DEF SubmitterStep, FinisherStep

LEMMA AcceptStep ==
  ASSUME TypeInv, ListInv, PresenterInv, NEW c \in Clients, Submit(c) \/ PresentAsync(c)
  PROVE  \E e \in CmdLists \cup Clients :
            /\ e \notin Range(InFlight) /\ InFlight' = Append(InFlight, e)
            /\ Executed' = Executed /\ failures' = failures
<1> DEFINE e == IF Submit(c) THEN recording[c] ELSE c
<1>1. /\ e \in CmdLists \cup Clients /\ submitQueue' = Append(submitQueue, e)
      /\ UNCHANGED <<finishQueue, submitOk, pc[Submitter], pc[Finisher], fenced, failures>>
  BY Threading DEF Submit, PresentAsync, Goto, TypeInv, RecordingOK, deviceVars
<1>2. e \notin Range(InFlight) /\ e \notin fenced
  <2>1. CASE Submit(c)
    <3>1. e = recording[c] /\ e # Nobody /\ e \in Recorded
      BY <2>1, Threading DEF Submit, TypeInv, RecordingOK, Recorded
    <3> QED BY <3>1, InFlightDisjoint DEF ListInv, FencesOK
  <2>2. CASE ~Submit(c)
    <3>1. e = c /\ PresentAsync(c) /\ pc[c] = "present" /\ c \notin CmdLists
      BY <2>2, Threading DEF PresentAsync
    <3>2. c \notin Range(Unreported)
      BY <3>1 DEF PresenterInv
    <3>3. c \notin Range(Unfinished)
      BY <3>1, InFlightFacts, SeqRange
    <3> QED BY <3>1, <3>2, <3>3, InFlightFacts, Threading
  <2> QED BY <2>1, <2>2
<1> HIDE DEF e
<1>3. Waiting' = Append(Waiting, e)
  <2>1. /\ submitQueue \in Seq(CmdLists \cup Clients)
        /\ pc[Submitter] = "retire" => submitQueue # <<>>
    BY Queues DEF TypeInv, FrontsOK
  <2>2. submitQueue # <<>> => /\ Head(submitQueue') = Head(submitQueue)
                             /\ Tail(submitQueue') = Append(Tail(submitQueue), e)
    BY <1>1, <2>1, PushRange, PushThenPop
  <2> QED BY <1>1, <2>1, <2>2 DEF Waiting, Finishable
<1>4. Unfinished' = Unfinished
  BY <1>1 DEF Unfinished
<1>5. InFlight' = Append(InFlight, e)
  BY <1>1, <1>3, <1>4, InFlightFacts, ConcatPush DEF InFlight
<1>6. Range(InFlight') = Range(InFlight) \cup {e}
  <2>1. InFlight \in Seq(CmdLists \cup Clients) /\ e \in CmdLists \cup Clients
    BY <1>1, InFlightFacts
  <2>2. Range(Append(InFlight, e)) = Range(InFlight) \cup {e}
    BY <2>1, PushRange
  <2> QED BY <1>5, <2>2
<1> QED BY <1>1, <1>2, <1>5, <1>6 DEF Executed

(* The entry behind the unfinished lists leaves. *)
LEMMA WaitingFrontLeaves ==
  ASSUME TypeInv, ListInv, Waiting # <<>>, Waiting' = Tail(Waiting), Unfinished' = Unfinished,
         fenced' = fenced, Head(Waiting) \notin fenced
  PROVE  /\ \E i \in DOMAIN InFlight :
               /\ InFlight[i] = Head(Waiting)
               /\ \A j \in 1 .. i - 1 : InFlight[j] \in CmdLists
               /\ InFlight' = RemoveAt(InFlight, i)
         /\ Executed' = Executed
<1>1. /\ Unfinished \in Seq(CmdLists) /\ Unfinished \in Seq(CmdLists \cup Clients)
      /\ Waiting \in Seq(CmdLists \cup Clients)
  BY InFlightFacts
<1> DEFINE i == Len(Unfinished) + 1
<1>2. /\ i \in DOMAIN InFlight /\ InFlight[i] = Head(Waiting)
      /\ \A j \in 1 .. i - 1 : j \in DOMAIN Unfinished /\ InFlight[j] = Unfinished[j]
      /\ RemoveAt(InFlight, i) = Unfinished \o Tail(Waiting)
  BY <1>1, RemoveSecondFront DEF InFlight
<1>3. \A j \in DOMAIN Unfinished : Unfinished[j] \in CmdLists
  BY <1>1
<1>4. InFlight' = RemoveAt(InFlight, i)
  BY <1>2 DEF InFlight
<1>5. Range(InFlight) = Range(InFlight') \cup {Head(Waiting)}
  <2>1. Range(Waiting) = Range(Tail(Waiting)) \cup {Head(Waiting)}
        /\ Tail(Waiting) \in Seq(CmdLists \cup Clients)
    BY <1>1, PopRange
  <2>2. Range(Unfinished \o Tail(Waiting)) = Range(Unfinished) \cup Range(Tail(Waiting))
    <3>1. ASSUME NEW t \in Seq(CmdLists \cup Clients)
          PROVE  Range(Unfinished \o t) = Range(Unfinished) \cup Range(t)
      BY <1>1, ConcatFacts
    <3> QED BY <2>1, <3>1
  <2> QED BY <1>2, <1>4, <2>1, <2>2, InFlightFacts
<1>6. Executed' = Executed
  BY <1>5 DEF Executed
<1> QED BY <1>2, <1>3, <1>4, <1>6

LEMMA OrderStep ==
  ASSUME TypeInv, ListInv, ListInv', PresenterInv, GpuInOrder, IssuedCovered, [Next]_vars
  PROVE  \/ UNCHANGED <<InFlight, Executed, failures>>
         \/ Order!Next
<1>1. /\ Unfinished \in Seq(CmdLists) /\ Unfinished \in Seq(CmdLists \cup Clients)
      /\ Waiting \in Seq(CmdLists \cup Clients) /\ InFlight \in Seq(CmdLists \cup Clients)
  BY InFlightFacts
<1>2. CASE UNCHANGED <<Unfinished, Waiting, failures>>
           /\ (UNCHANGED fenced \/ \E c \in Clients : CreateCommandList(c))
  <2>1. UNCHANGED InFlight
    BY <1>2 DEF InFlight
  <2>2. UNCHANGED Executed
    <3>1. CASE UNCHANGED fenced
      BY <2>1, <3>1 DEF Executed
    <3>2. ASSUME NEW c \in Clients, CreateCommandList(c) PROVE UNCHANGED Executed
      <4>1. PICK l \in Recorded' : fenced' = fenced \ {l}
        BY <3>2, FenceReset
      <4>2. l \notin Range(InFlight')
        <5>1. UNCHANGED <<submitQueue, Unfinished>>
          BY <3>2, Threading DEF CreateCommandList, queueVars, Goto, Unfinished
        <5>2. Range(InFlight) \subseteq Range(Unfinished') \cup Range(submitQueue')
          BY <5>1, InFlightFacts, Queues
        <5> QED BY <2>1, <4>1, <5>2 DEF ListInv, OwnersDisjoint
      <4> QED BY <2>1, <4>1, <4>2 DEF Executed
    <3> QED BY <1>2, <3>1, <3>2
  <2> QED BY <1>2, <2>1, <2>2
<1>3. ASSUME NEW c \in Clients, Submit(c) \/ PresentAsync(c) PROVE Order!Next
  <2>1. PICK e \in CmdLists \cup Clients :
            /\ e \notin Range(InFlight) /\ InFlight' = Append(InFlight, e)
            /\ Executed' = Executed /\ failures' = failures
    BY <1>3, AcceptStep
  <2>2. Order!Accept(e)
    BY <2>1 DEF Order!Accept, Order!Range, Range, Executed
  <2> QED BY <2>2 DEF Order!Next
<1>4. CASE IssueCmdList
  <2>1. /\ pc[Submitter] = "inVulkan" /\ pc'[Submitter] = "retire"
        /\ Head(submitQueue) \in CmdLists /\ submitQueue # <<>>
        /\ UNCHANGED <<submitQueue, finishQueue, fenced, pc[Finisher]>>
        /\ \/ submitOk' = TRUE /\ UNCHANGED failures
           \/ submitOk' = FALSE /\ failures' = failures + 1
    BY <1>4, Threading DEF IssueCmdList, Goto, queueVars, deviceVars, TypeInv, FrontsOK
  <2>2. Unfinished' = Unfinished /\ Waiting = submitQueue
    BY <2>1 DEF Unfinished, Waiting
  <2>3. CASE submitOk' = TRUE /\ UNCHANGED failures
    <3>1. Waiting' = Waiting
      BY <2>1, <2>2, <2>3 DEF Waiting, Finishable
    <3> QED BY <2>1, <2>2, <2>3, <3>1 DEF InFlight, Executed
  <2>4. CASE submitOk' = FALSE /\ failures' = failures + 1
    <3>1. Waiting' = Tail(Waiting)
      BY <2>1, <2>2, <2>4 DEF Waiting, Finishable
    <3>2. Head(Waiting) \notin fenced
      <4>1. Head(submitQueue) \in Range(Unissued)
        BY <1>1, <2>1, <2>2, PopRange DEF Unissued
      <4> QED BY <2>2, <4>1 DEF ListInv, FencesOK
    <3>3. /\ \E i \in DOMAIN InFlight :
                /\ InFlight[i] = Head(Waiting)
                /\ \A j \in 1 .. i - 1 : InFlight[j] \in CmdLists
                /\ InFlight' = RemoveAt(InFlight, i)
          /\ Executed' = Executed
      BY <2>1, <2>2, <3>1, <3>2, WaitingFrontLeaves
    <3>4. Order!GiveUp
      BY <2>1, <2>2, <2>4, <3>2, <3>3 DEF Order!GiveUp, Order!RemoveAt, RemoveAt, Executed
    <3> QED BY <3>4 DEF Order!Next
  <2> QED BY <2>1, <2>3, <2>4
<1>5. CASE StoreStatus
  <2>1. /\ pc[Submitter] = "store" /\ pc'[Submitter] = "retire" /\ submitQueue # <<>>
        /\ Head(submitQueue) \in Clients
        /\ UNCHANGED <<submitQueue, finishQueue, fenced, failures, pc[Finisher]>>
    BY <1>5, Threading DEF StoreStatus, Goto, queueVars, deviceVars, TypeInv, FrontsOK
  <2>2. Head(submitQueue) \notin CmdLists /\ Head(submitQueue) \notin fenced
    BY <2>1, Threading
  <2>3. Unfinished' = Unfinished /\ Waiting = submitQueue /\ Waiting' = Tail(Waiting)
    BY <2>1, <2>2 DEF Unfinished, Waiting, Finishable
  <2>4. /\ \E i \in DOMAIN InFlight :
              /\ InFlight[i] = Head(Waiting)
              /\ \A j \in 1 .. i - 1 : InFlight[j] \in CmdLists
              /\ InFlight' = RemoveAt(InFlight, i)
        /\ Executed' = Executed
    BY <2>1, <2>2, <2>3, WaitingFrontLeaves
  <2>5. Order!Report
    BY <2>1, <2>3, <2>4 DEF Order!Report, Order!RemoveAt, RemoveAt, Executed
  <2> QED BY <2>5 DEF Order!Next
<1>6. CASE SubmitterRetire
  <2>1. /\ pc[Submitter] = "retire" /\ pc'[Submitter] = "wait" /\ submitQueue # <<>>
        /\ submitQueue' = Tail(submitQueue)
        /\ UNCHANGED <<fenced, failures>>
    BY <1>6, Threading DEF SubmitterRetire, Goto, deviceVars, TypeInv, FrontsOK
  <2>2. Waiting' = Tail(submitQueue) /\ Unfinished' = Issued
    BY <1>6, <2>1, RetireKeepsIssued DEF Waiting
  <2>3. CASE Finishable(Head(submitQueue))
    <3>1. Waiting = submitQueue /\ Issued = Append(Unfinished, Head(submitQueue))
      BY <2>1, <2>3 DEF Waiting, Issued
    <3>2. Append(Unfinished, Head(Waiting)) \o Tail(Waiting) = Unfinished \o Waiting
      BY <1>1, <2>1, <3>1, ConcatMove
    <3>3. InFlight' = InFlight
      BY <2>2, <3>1, <3>2 DEF InFlight
    <3> QED BY <2>1, <3>3 DEF Executed
  <2>4. CASE ~Finishable(Head(submitQueue))
    <3>1. Waiting = Tail(submitQueue) /\ Issued = Unfinished
      BY <2>1, <2>4 DEF Waiting, Issued
    <3>2. InFlight' = InFlight
      BY <2>2, <3>1 DEF InFlight
    <3> QED BY <2>1, <3>2 DEF Executed
  <2> QED BY <2>3, <2>4
<1>7. CASE FenceWait \/ RecycleCommandList
  <2>1. /\ finishQueue # <<>> /\ finishQueue \in Seq(CmdLists)
        /\ UNCHANGED <<submitQueue, finishQueue, fenced, submitOk, pc[Submitter]>>
        /\ \/ /\ pc[Finisher] = "fence" /\ pc'[Finisher] = "reset" /\ UNCHANGED failures
           \/ /\ pc[Finisher] = "fence" /\ pc'[Finisher] = "retire"
              /\ Head(finishQueue) \notin fenced /\ failures' = failures + 1
           \/ /\ pc[Finisher] = "reset" /\ pc'[Finisher] = "retire"
              /\ Head(finishQueue) \in fenced /\ UNCHANGED failures
    BY <1>7, Threading, Queues DEF FenceWait, RecycleCommandList, Goto, queueVars, deviceVars,
        FenceSignaled, TypeInv, FrontsOK, ListInv, FencesOK
  <2>2. Waiting' = Waiting /\ Unfinished = finishQueue
    BY <2>1 DEF Waiting, Finishable, Unfinished
  <2>3. CASE pc'[Finisher] = "reset" /\ UNCHANGED failures
    BY <2>1, <2>2, <2>3 DEF Unfinished, InFlight, Executed
  <2>4. CASE pc'[Finisher] = "retire"
    <3>1. Unfinished' = Tail(Unfinished)
      BY <2>1, <2>2, <2>4 DEF Unfinished
    <3>2. /\ InFlight # <<>> /\ Head(InFlight) = Head(finishQueue) /\ InFlight' = Tail(InFlight)
          /\ Head(finishQueue) \in CmdLists
      BY <1>1, <2>1, <2>2, <3>1, ConcatPop, PopRange DEF InFlight
    <3>3. /\ Head(InFlight) \notin Range(InFlight')
          /\ Range(InFlight) = Range(InFlight') \cup {Head(InFlight)}
      <4>1. /\ Tail(Unfinished) \in Seq(CmdLists \cup Clients)
            /\ Head(Unfinished) \notin Range(Tail(Unfinished))
            /\ Head(Unfinished) \in Range(Unfinished)
        BY <1>1, <2>1, <2>2, PopRange, PopInjective, InFlightDisjoint
      <4>2. ASSUME NEW t \in Seq(CmdLists \cup Clients)
            PROVE  Range(t \o Waiting) = Range(t) \cup Range(Waiting)
        BY <1>1, ConcatFacts
      <4>3. Range(InFlight') = Range(Tail(Unfinished)) \cup Range(Waiting)
        BY <2>2, <3>1, <4>1, <4>2 DEF InFlight
      <4>4. Head(InFlight) \notin Range(InFlight')
        BY <2>2, <3>2, <4>1, <4>3, InFlightDisjoint
      <4>5. Range(InFlight) = Range(Tail(InFlight)) \cup {Head(InFlight)}
        BY <1>1, <3>2, PopRange
      <4> QED BY <3>2, <4>4, <4>5
    <3>4. CASE Head(finishQueue) \in fenced /\ UNCHANGED failures
      <4>1. Head(InFlight) \in Executed /\ Executed' = Executed \ {Head(InFlight)}
        BY <2>1, <3>2, <3>3, <3>4 DEF Executed
      <4>2. Order!Retire
        BY <3>2, <3>4, <4>1 DEF Order!Retire, Executed
      <4> QED BY <4>2 DEF Order!Next
    <3>5. CASE Head(finishQueue) \notin fenced /\ failures' = failures + 1
      <4>1. Executed' = Executed
        BY <2>1, <3>2, <3>3, <3>5 DEF Executed
      <4>2. 1 \in DOMAIN InFlight /\ InFlight[1] = Head(InFlight)
            /\ RemoveAt(InFlight, 1) = Tail(InFlight)
        BY <1>1, <3>2, RemoveFront
      <4>3. \A j \in 1 .. 1 - 1 : InFlight[j] \in CmdLists
        OBVIOUS
      <4>4. Order!GiveUp
        BY <3>2, <3>5, <4>1, <4>2, <4>3 DEF Order!GiveUp, Order!RemoveAt, RemoveAt, Executed
      <4> QED BY <4>4 DEF Order!Next
    <3> QED BY <2>1, <2>4, <3>4, <3>5
  <2> QED BY <2>1, <2>3, <2>4
<1>8. CASE GpuComplete
  <2>1. /\ gpuQueue # <<>> /\ fenced' = fenced \cup {Head(gpuQueue)}
        /\ UNCHANGED <<submitQueue, finishQueue, submitOk, pc, failures>>
    BY <1>8 DEF GpuComplete, queueVars
  <2>2. InFlight' = InFlight
    BY <2>1 DEF InFlight, Unfinished, Waiting, Finishable
  <2>3. PICK i \in DOMAIN InFlight :
            /\ InFlight[i] = Head(gpuQueue) /\ Head(gpuQueue) \in CmdLists \ fenced
            /\ \A j \in 1 .. i - 1 : InFlight[j] \in fenced \cap Range(InFlight)
    BY <2>1, NextOnGpu
  <2>4. InFlight[i] \in Range(InFlight)
    BY DEF Range
  <2>5. Executed' = Executed \cup {InFlight[i]}
    BY <2>1, <2>2, <2>3, <2>4 DEF Executed
  <2>6. Order!Execute
    BY <2>1, <2>2, <2>3, <2>5 DEF Order!Execute, Executed
  <2> QED BY <2>6 DEF Order!Next
<1> QED BY <1>2, <1>3, <1>4, <1>5, <1>6, <1>7, <1>8, InFlightFrame

LEMMA InitOrder == Init => IssuedCovered /\ Order!Init
<1> SUFFICES ASSUME Init PROVE IssuedCovered /\ Order!Init
  OBVIOUS
<1>1. /\ submitQueue = <<>> /\ finishQueue = <<>> /\ fenced = {} /\ failures = 0
      /\ pc[Submitter] = "wait" /\ pc[Finisher] = "wait"
  BY IdentitiesAssumption DEF Init, Threads, Workers
<1>2. Unfinished = <<>> /\ Waiting = <<>> /\ Issued = <<>>
  BY <1>1 DEF Unfinished, Waiting, Issued
<1>3. InFlight = <<>>
  BY <1>2 DEF InFlight
<1>4. IssuedCovered
  BY <1>2 DEF IssuedCovered, Range
<1> QED BY <1>1, <1>3, <1>4 DEF Order!Init

(* The queue implements its abstract specification: lists are executed and
   retired, and presents reported, in the order in which they were accepted. *)
THEOREM KeepsOrder == Spec => ListsInOrder
<1>1. ASSUME TypeInv, ListInv, ListInv', PresenterInv, GpuInOrder, IssuedCovered, [Next]_vars
      PROVE  [Order!Next]_(Order!vars)
  BY <1>1, OrderStep DEF Order!vars, Executed
<1>2. ASSUME TypeInv, TypeInv', ListInv, ListInv', WorkInv, IssuedCovered, [Next]_vars
      PROVE  IssuedCovered'
  BY <1>2, CoveredStep DEF WorkInv
<1>3. ASSUME TypeInv, ListInv, WorkInv, [Next]_vars PROVE WorkInv'
  BY <1>3, GpuStep, PendingStep, IdleStep DEF WorkInv
<1>4. WorkInv => GpuInOrder
  BY DEF WorkInv
<1> QED BY <1>1, <1>2, <1>3, <1>4, InitOrder, InitWork, InitType, TypeStep, InitLists,
           ListStep, PresenterStep, PTL DEF Spec, ListsInOrder, Order!Spec
=============================================================================
