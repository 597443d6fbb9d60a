----------------------- MODULE D3D9BufferLock_proofs -------------------------
(***************************************************************************)
(* Machine-checked proofs about the locks of a static D3D9 buffer.          *)
(***************************************************************************)
EXTENDS D3D9BufferLock, TLAPS

(* What the types of commands, ranges and contents give.                     *)
LEMMA CommandFields ==
  ASSUME NEW c \in Command
  PROVE  /\ c.op \in {"copy", "draw", "process"}
         /\ c.op = "copy" => c.range \in Range
         /\ c.op # "copy" => c.region \in Region /\ c.version \in 0 .. MaxVersion
BY DEF Command

LEMMA Commands ==
  /\ \A range \in Range : /\ Copy(range) \in Command
                          /\ Copy(range).op = "copy" /\ Copy(range).range = range
  /\ \A r \in Region, v \in 0 .. MaxVersion :
        /\ Draw(r, v) \in Command /\ Draw(r, v).op = "draw"
        /\ Draw(r, v).region = r /\ Draw(r, v).version = v
        /\ Process(r, v) \in Command /\ Process(r, v).op = "process"
        /\ Process(r, v).region = r /\ Process(r, v).version = v
BY DEF Command, Copy, Draw, Process

LEMMA Ranges ==
  /\ Whole \in Range /\ Empty \in Range /\ Size \in Nat /\ 0 < Size
  /\ \A range \in Range : /\ range.min \in Nat /\ range.max \in Nat
                          /\ range.min <= Size /\ range.max <= Size
  /\ Whole.min = 0 /\ Whole.max = Size /\ Empty.min = 0 /\ Empty.max = 0
BY BufferAssumption DEF Range, Whole, Empty

LEMMA ConjoinFields ==
  ASSUME NEW range \in Range, NEW other \in Range
  PROVE  /\ Conjoin(range, other) \in Range
         /\ IsDegenerate(range) => Conjoin(range, other) = other
         /\ ~IsDegenerate(range) =>
               /\ Conjoin(range, other).min <= range.min /\ range.max <= Conjoin(range, other).max
               /\ Conjoin(range, other).min <= other.min /\ other.max <= Conjoin(range, other).max
               /\ Conjoin(range, other).min \in {range.min, other.min}
               /\ Conjoin(range, other).max \in {range.max, other.max}
BY Ranges DEF Conjoin, Range, Least, Greatest

LEMMA RequestedFields ==
  ASSUME NEW offset \in 0 .. Size, NEW size \in 0 .. Size
  PROVE  /\ Requested(offset, size) \in Range
         /\ Requested(offset, size).min <= Requested(offset, size).max
         /\ ~managed => Requested(offset, size) = Whole
<1>1. CASE RespectBounds(size)
  <2>1. offset + Least(size, Size - offset) \in 0 .. Size /\ offset <= offset + Least(size, Size - offset)
    BY Ranges DEF Least
  <2>2. Requested(offset, size) = [min |-> offset, max |-> offset + Least(size, Size - offset)]
    BY <1>1 DEF Requested
  <2> QED BY <1>1, <2>1, <2>2 DEF Range, RespectBounds
<1>2. CASE ~RespectBounds(size)
  BY <1>2, Ranges DEF Requested
<1> QED BY <1>1, <1>2

(* The queue of commands grows at its end and shrinks at its head.           *)
LEMMA GpuGrows ==
  ASSUME NEW c \in Command, gpu \in Seq(Command), gpu' = Append(gpu, c)
  PROVE  /\ gpu' \in Seq(Command)
         /\ Len(gpu) \in Nat /\ Len(gpu') = Len(gpu) + 1
         /\ DOMAIN gpu = 1 .. Len(gpu) /\ DOMAIN gpu' = 1 .. Len(gpu) + 1
         /\ \A i \in 1 .. Len(gpu) : gpu'[i] = gpu[i]
         /\ gpu'[Len(gpu) + 1] = c
OBVIOUS

LEMMA GpuShrinks ==
  ASSUME gpu \in Seq(Command), gpu # <<>>, gpu' = Tail(gpu)
  PROVE  /\ gpu' \in Seq(Command)
         /\ Len(gpu) \in Nat \ {0} /\ Len(gpu') = Len(gpu) - 1
         /\ DOMAIN gpu = 1 .. Len(gpu) /\ DOMAIN gpu' = 1 .. Len(gpu) - 1
         /\ \A i \in 1 .. Len(gpu) - 1 : gpu'[i] = gpu[i + 1]
         /\ Head(gpu) = gpu[1] /\ Head(gpu) \in Command
OBVIOUS
-----------------------------------------------------------------------------
LEMMA TypeStep == TypeOK /\ [Next]_vars => TypeOK'
<1> SUFFICES ASSUME TypeOK, [Next]_vars PROVE TypeOK'
  OBVIOUS
<1> USE DEF TypeOK
<1>1. ASSUME NEW offset \in 0 .. Size, NEW size \in 0 .. Size, NEW readonly \in BOOLEAN,
             NEW doNotWait \in BOOLEAN, LockBuffer(offset, size, readonly, doNotWait)
      PROVE  TypeOK'
  <2>1. lockRange' \in Range
    BY <1>1, RequestedFields, ConjoinFields DEF LockBuffer
  <2>2. UNCHANGED <<managed, dataVars, gpu, inUse>> /\ readLocked' = FALSE /\ lockCount < MaxLocks
    BY <1>1 DEF LockBuffer
  <2>3. CASE LockSucceeds(offset, size, readonly, doNotWait)
    <3>1. dirtyRange' \in Range /\ readOnly' \in BOOLEAN
      BY <2>3, Ranges DEF LockSucceeds
    <3>2. lockCount' \in 0 .. MaxLocks
      BY <2>2, <2>3, BufferAssumption DEF LockSucceeds
    <3>3. held' \subseteq [range : Range, readonly : BOOLEAN]
      BY <2>3, RequestedFields DEF LockSucceeds
    <3> QED BY <2>1, <2>2, <3>1, <3>2, <3>3 DEF dataVars, historyVars
  <2>4. CASE StillDrawing(size, readonly, doNotWait)
    BY <2>1, <2>2, <2>4 DEF StillDrawing, dataVars, historyVars
  <2> QED BY <1>1, <2>3, <2>4 DEF LockBuffer
<1>2. ASSUME NEW r \in Region, Write(r) PROVE TypeOK'
  <2>1. clock' \in 0 .. MaxVersion
    BY <1>2, BufferAssumption DEF Write
  <2>2. staging' \in Contents /\ written' \in Contents
    BY <1>2, <2>1 DEF Write, Contents
  <2>3. overtaken' \subseteq Region
    BY <1>2 DEF Write
  <2> QED BY <1>2, <2>1, <2>2, <2>3 DEF Write, lockVars
<1>3. ASSUME NEW r \in Region, DrawPrimitive(r) PROVE TypeOK'
  <2>1. PICK v \in 0 .. MaxVersion : gpu' = Append(gpu, Draw(r, v))
    BY <1>3 DEF DrawPrimitive
  <2>2. gpu' \in Seq(Command)
    BY <2>1, Commands, GpuGrows
  <2> QED BY <1>3, <2>2 DEF DrawPrimitive, lockVars, dataVars, historyVars
<1>4. ASSUME NEW r \in Region, ProcessVertices(r) PROVE TypeOK'
  <2>1. clock' \in 0 .. MaxVersion
    BY <1>4, BufferAssumption DEF ProcessVertices
  <2>2. gpu' \in Seq(Command)
    BY <1>4, <2>1, Commands, GpuGrows DEF ProcessVertices
  <2>3. written' \in Contents /\ overtaken' \subseteq Region
    BY <1>4, <2>1 DEF ProcessVertices, Contents
  <2> QED BY <1>4, <2>1, <2>2, <2>3 DEF ProcessVertices
<1>5. CASE UnlockInner
  <2>1. lockCount' \in 0 .. MaxLocks
    BY <1>5, BufferAssumption DEF UnlockInner
  <2> QED BY <1>5, <2>1 DEF UnlockInner, dataVars, historyVars
<1>6. CASE UnlockLast
  <2>5. /\ lockCount' = 0 /\ held' = {} /\ readOnly' = FALSE
        /\ UNCHANGED <<managed, readLocked, staging, real, written, overtaken, clock>>
    BY <1>6 DEF UnlockLast, dataVars, historyVars
  <2>0. /\ lockCount' \in 0 .. MaxLocks /\ held' \subseteq [range : Range, readonly : BOOLEAN]
        /\ readOnly' \in BOOLEAN
    <3>1. 0 \in 0 .. MaxLocks
      BY BufferAssumption
    <3> QED BY <2>5, <3>1
  <2>1. CASE KeepRange
    BY <2>5, <2>0, <2>1 DEF KeepRange
  <2>2. CASE Upload
    <3>1. gpu' \in Seq(Command) /\ inUse' \in BOOLEAN
      BY <2>2, Commands, GpuGrows DEF Upload
    <3>2. dirtyRange' \in Range /\ lockRange' \in Range
      BY <2>2, ConjoinFields, Ranges DEF Upload
    <3> QED BY <2>5, <2>0, <3>1, <3>2
  <2> QED BY <1>6, <2>1, <2>2 DEF UnlockLast
<1>7. CASE GpuExecutes
  <2>1. gpu' \in Seq(Command) /\ Head(gpu) \in Command
    BY <1>7, GpuShrinks DEF GpuExecutes
  <2>2. real' \in Contents /\ staging' \in Contents
    <3>1. Execute(Head(gpu))
      BY <1>7 DEF GpuExecutes
    <3>2. CASE Head(gpu).op = "process"
      <4> DEFINE r == Head(gpu).region
                 v == Head(gpu).version
      <4>1. v \in 0 .. MaxVersion
        BY <2>1, <3>2, CommandFields
      <4>2. /\ real' = [real EXCEPT ![r] = v] /\ staging' = [staging EXCEPT ![r] = v]
        BY <3>1, <3>2 DEF Execute
      <4> HIDE DEF r, v
      <4> QED BY <4>1, <4>2 DEF Contents
    <3>3. CASE Head(gpu).op # "process"
      BY <3>1, <3>3 DEF Execute
    <3> QED BY <3>2, <3>3
  <2> QED BY <1>7, <2>1, <2>2 DEF GpuExecutes, lockVars, historyVars
<1>8. CASE Retire
  BY <1>8 DEF Retire, lockVars, dataVars, historyVars
<1>9. CASE UNCHANGED vars
  BY <1>9 DEF vars
<1> QED BY <1>1, <1>2, <1>3, <1>4, <1>5, <1>6, <1>7, <1>8, <1>9 DEF Next

LEMMA TypeInit == Init => TypeOK
<1> SUFFICES ASSUME Init PROVE TypeOK
  OBVIOUS
<1>1. /\ managed \in BOOLEAN /\ readLocked \in BOOLEAN /\ readOnly \in BOOLEAN
      /\ inUse \in BOOLEAN
  BY BufferAssumption DEF Init
<1>2. lockRange \in Range /\ dirtyRange \in Range
  BY Ranges DEF Init
<1>3. /\ lockCount \in 0 .. MaxLocks /\ clock \in 0 .. MaxVersion
      /\ staging \in Contents /\ real \in Contents /\ written \in Contents
      /\ overtaken \subseteq Region
  BY BufferAssumption DEF Init, Contents
<1>4. held \subseteq [range : Range, readonly : BOOLEAN] /\ gpu \in Seq(Command)
  BY DEF Init
<1> QED BY <1>1, <1>2, <1>3, <1>4 DEF TypeOK

(* No range leaves the buffer, and commands carry regions and versions only. *)
THEOREM TypeCorrect == Spec => []TypeOK
BY TypeInit, TypeStep, PTL DEF Spec
-----------------------------------------------------------------------------
(* The strengthening of WriteLockExclusive: the dirty range covers every     *)
(* upload that is pending, the lock range covers every lock that is held,    *)
(* and the staging buffer counts as used while a command will access it.     *)
Ordered ==
    /\ lockRange.min <= lockRange.max
    /\ \A i \in DOMAIN gpu : gpu[i].op = "copy" => gpu[i].range.min < gpu[i].range.max

DirtyCovers ==
    \A i \in DOMAIN gpu : gpu[i].op = "copy" =>
        dirtyRange.min <= gpu[i].range.min /\ gpu[i].range.max <= dirtyRange.max

LockCovers ==
    /\ lockCount = 0 => held = {}
    /\ \A lock \in held, r \in Region : Within(r, lock.range) => Within(r, lockRange)
    /\ \A lock \in held : ~managed => lock.range = Whole

UsesTracked == ~inUse => \A i \in DOMAIN gpu : gpu[i].op = "draw"

LockInv == Ordered /\ DirtyCovers /\ LockCovers /\ UsesTracked /\ WriteLockExclusive

(* Everything but the commands is the same, or only the ranges grow.         *)
LEMMA SameCommands ==
  ASSUME TypeOK, LockInv, UNCHANGED <<managed, gpu, lockVars>>, UsesTracked'
  PROVE  LockInv'
<1>1. Ordered' /\ DirtyCovers'
  BY DEF LockInv, Ordered, DirtyCovers, lockVars
<1>2. LockCovers' /\ WriteLockExclusive'
  BY DEF LockInv, LockCovers, WriteLockExclusive, lockVars
<1> QED BY <1>1, <1>2 DEF LockInv

(* A command that is not a copy, emitted while no lock is held.              *)
LEMMA CommandEmitted ==
  ASSUME TypeOK, LockInv, NEW c \in Command, c.op # "copy", gpu' = Append(gpu, c),
         lockCount = 0, UNCHANGED <<managed, lockRange, dirtyRange, lockCount, held>>,
         c.op = "process" => inUse', inUse => inUse'
  PROVE  LockInv'
<1> gpu \in Seq(Command)
  BY DEF TypeOK
<1>1. held' = {}
  BY DEF LockInv, LockCovers
<1>2. Ordered' /\ DirtyCovers'
  BY GpuGrows DEF LockInv, Ordered, DirtyCovers
<1>3. LockCovers' /\ WriteLockExclusive'
  BY <1>1 DEF LockCovers, WriteLockExclusive
<1>4. UsesTracked'
  BY GpuGrows, CommandFields DEF LockInv, UsesTracked
<1> QED BY <1>2, <1>3, <1>4 DEF LockInv

LEMMA UploadKeepsLockInv ==
  ASSUME TypeOK, LockInv, Upload, ~IsDegenerate(lockRange), held' = {}, managed' = managed
  PROVE  LockInv'
<1> gpu \in Seq(Command) /\ lockRange \in Range /\ dirtyRange \in Range
  BY DEF TypeOK
<1> DEFINE c == Copy(lockRange)
<1>1. /\ c \in Command /\ c.op = "copy" /\ c.range = lockRange
  BY Commands
<1>2. gpu' = Append(gpu, c) /\ inUse' = TRUE /\ lockRange' = Empty
      /\ dirtyRange' = Conjoin(dirtyRange, lockRange)
  BY DEF Upload
<1> HIDE DEF c
<1>3. lockRange.min < lockRange.max
  BY Ranges DEF LockInv, Ordered, IsDegenerate
<1>4. Ordered'
  BY <1>1, <1>2, <1>3, GpuGrows, Ranges DEF LockInv, Ordered
<1>5. DirtyCovers'
  <2> SUFFICES ASSUME NEW i \in DOMAIN gpu', gpu'[i].op = "copy"
               PROVE  dirtyRange'.min <= gpu'[i].range.min /\ gpu'[i].range.max <= dirtyRange'.max
    BY DEF DirtyCovers
  <2>1. CASE i = Len(gpu) + 1
    <3>1. gpu'[i].range = lockRange
      BY <1>1, <1>2, <2>1, GpuGrows
    <3> QED BY <1>2, <3>1, ConjoinFields, Ranges
  <2>2. CASE i \in 1 .. Len(gpu)
    <3>1. gpu'[i] = gpu[i] /\ i \in DOMAIN gpu
      BY <1>1, <1>2, <2>2, GpuGrows
    <3>2. /\ dirtyRange.min <= gpu[i].range.min /\ gpu[i].range.max <= dirtyRange.max
          /\ gpu[i].range.min < gpu[i].range.max /\ gpu[i].range \in Range
      BY <3>1, CommandFields DEF LockInv, Ordered, DirtyCovers
    <3>3. ~IsDegenerate(dirtyRange)
      BY <3>2, Ranges DEF IsDegenerate
    <3> QED BY <1>2, <3>1, <3>2, <3>3, ConjoinFields, Ranges
  <2> QED BY <1>1, <1>2, <2>1, <2>2, GpuGrows
<1>6. LockCovers' /\ WriteLockExclusive' /\ UsesTracked'
  BY <1>2 DEF LockCovers, WriteLockExclusive, UsesTracked
<1> QED BY <1>4, <1>5, <1>6 DEF LockInv

(* The lock itself: it grows the lock range, and what it hands out for       *)
(* writing meets no upload, because it waited or the ranges are apart.       *)
LEMMA LockGrows ==
  ASSUME TypeOK, LockInv, NEW offset \in 0 .. Size, NEW size \in 0 .. Size,
         lockRange' = Conjoin(lockRange, Requested(offset, size))
  PROVE  /\ lockRange' \in Range /\ lockRange'.min <= lockRange'.max
         /\ \A r \in Region : Within(r, lockRange) => Within(r, lockRange')
         /\ \A r \in Region : Within(r, Requested(offset, size)) => Within(r, lockRange')
<1> DEFINE q == Requested(offset, size)
<1>1. /\ q \in Range /\ q.min <= q.max /\ lockRange \in Range /\ lockRange.min <= lockRange.max
  BY RequestedFields DEF TypeOK, LockInv, Ordered
<1> HIDE DEF q
<1>2. lockRange' = Conjoin(lockRange, q)
  BY DEF q
<1>3. lockRange' \in Range /\ lockRange'.min <= lockRange'.max
  BY <1>1, <1>2, ConjoinFields, Ranges
<1>4. \A r \in Region : Within(r, lockRange) \/ Within(r, q) => Within(r, lockRange')
  BY <1>1, <1>2, <1>3, ConjoinFields, Ranges DEF Within, Region, IsDegenerate
<1> QED BY <1>3, <1>4 DEF q

LEMMA LockApart ==
  ASSUME TypeOK, LockInv, NEW r \in Region,
         lockRange' \in Range, Within(r, lockRange'), ~Overlaps(dirtyRange, lockRange'),
         NEW i \in DOMAIN gpu, gpu[i].op = "copy"
  PROVE  ~Within(r, gpu[i].range)
<1>1. /\ dirtyRange \in Range /\ gpu[i].range \in Range
      /\ dirtyRange.min <= gpu[i].range.min /\ gpu[i].range.max <= dirtyRange.max
      /\ gpu[i].range.min < gpu[i].range.max
  BY CommandFields DEF TypeOK, LockInv, Ordered, DirtyCovers
<1> DEFINE lr == lockRange'
<1>2. lr \in Range /\ lr.min <= r /\ r < lr.max /\ r \in Nat
      /\ (dirtyRange.min = dirtyRange.max \/ ~(lr.max > dirtyRange.min) \/ ~(lr.min < dirtyRange.max))
  BY DEF Within, Overlaps, IsDegenerate, Region
<1> HIDE DEF lr
<1> QED BY <1>1, <1>2, Ranges DEF Within

LEMMA LockKeepsLockInv ==
  ASSUME TypeOK, LockInv, NEW offset \in 0 .. Size, NEW size \in 0 .. Size,
         NEW readonly \in BOOLEAN, NEW doNotWait \in BOOLEAN,
         LockBuffer(offset, size, readonly, doNotWait)
  PROVE  LockInv'
<1> DEFINE new == [range |-> Requested(offset, size), readonly |-> readonly]
<1>1. /\ lockRange' = Conjoin(lockRange, Requested(offset, size))
      /\ gpu' = gpu /\ inUse' = inUse /\ managed' = managed
  BY DEF LockBuffer
<1>2. /\ lockRange' \in Range /\ lockRange'.min <= lockRange'.max
      /\ \A r \in Region : Within(r, lockRange) => Within(r, lockRange')
      /\ \A r \in Region : Within(r, Requested(offset, size)) => Within(r, lockRange')
  BY <1>1, LockGrows
<1>3. Ordered' /\ UsesTracked'
  BY <1>1, <1>2 DEF LockInv, Ordered, UsesTracked
<1>4. CASE LockSucceeds(offset, size, readonly, doNotWait)
  <2>1. DirtyCovers'
    <3>1. CASE dirtyRange' = dirtyRange
      BY <1>1, <3>1 DEF LockInv, DirtyCovers
    <3>2. CASE ~inUse
      BY <1>1, <3>2 DEF LockInv, DirtyCovers, UsesTracked
    <3> QED BY <1>4, <3>1, <3>2 DEF LockSucceeds
  <2>2. held' = held \cup {new} /\ lockCount' = lockCount + 1 /\ lockCount \in Nat
    BY <1>4 DEF LockSucceeds, TypeOK
  <2>3. new.range = Requested(offset, size) /\ new.readonly = readonly
    OBVIOUS
  <2> HIDE DEF new
  <2>4. LockCovers'
    <3>1. lockCount' # 0
      BY <2>2
    <3>2. \A lock \in held', r \in Region : Within(r, lock.range) => Within(r, lockRange')
      BY <1>2, <2>2, <2>3 DEF LockInv, LockCovers
    <3>3. \A lock \in held' : ~managed => lock.range = Whole
      BY <2>2, <2>3, RequestedFields DEF LockInv, LockCovers
    <3> QED BY <1>1, <3>1, <3>2, <3>3 DEF LockCovers
  <2>5. WriteLockExclusive'
    <3> SUFFICES ASSUME NEW lock \in held', ~lock.readonly, NEW i \in DOMAIN gpu
                 PROVE  /\ gpu[i].op = "copy" =>
                              \A r \in Region : ~(Within(r, lock.range) /\ Within(r, gpu[i].range))
                        /\ gpu[i].op = "process" => managed
      BY <1>1 DEF WriteLockExclusive
    <3>1. CASE lock \in held
      BY <3>1 DEF LockInv, WriteLockExclusive
    <3>2. CASE lock = new /\ ~inUse
      BY <3>2 DEF LockInv, UsesTracked
    <3>3. CASE lock = new /\ SkipsWait(size, readonly)
      <4>1. RespectBounds(size) /\ ~Overlaps(dirtyRange, lockRange')
        BY <2>3, <3>3 DEF SkipsWait
      <4>2. managed
        BY <4>1 DEF RespectBounds
      <4>3. ASSUME gpu[i].op = "copy", NEW r \in Region, Within(r, lock.range)
            PROVE  ~Within(r, gpu[i].range)
        BY <1>2, <2>3, <3>3, <4>1, <4>3, LockApart
      <4> QED BY <4>2, <4>3
    <3> QED BY <1>4, <2>2, <3>1, <3>2, <3>3 DEF LockSucceeds
  <2> QED BY <1>3, <2>1, <2>4, <2>5 DEF LockInv
<1>5. CASE StillDrawing(size, readonly, doNotWait)
  <2>1. UNCHANGED <<dirtyRange, lockCount, held>>
    BY <1>5 DEF StillDrawing
  <2>2. DirtyCovers' /\ WriteLockExclusive'
    BY <1>1, <2>1 DEF LockInv, DirtyCovers, WriteLockExclusive
  <2>3. LockCovers'
    BY <1>1, <1>2, <2>1 DEF LockInv, LockCovers
  <2> QED BY <1>3, <2>2, <2>3 DEF LockInv
<1> QED BY <1>4, <1>5 DEF LockBuffer

LEMMA GpuKeepsLockInv ==
  ASSUME TypeOK, LockInv, GpuExecutes
  PROVE  LockInv'
<1> gpu \in Seq(Command) /\ gpu # <<>> /\ gpu' = Tail(gpu)
  BY DEF TypeOK, GpuExecutes
<1>1. UNCHANGED <<managed, lockRange, dirtyRange, lockCount, held, inUse>>
  BY DEF GpuExecutes, lockVars
<1>2. \A i \in DOMAIN gpu' : i + 1 \in DOMAIN gpu /\ gpu'[i] = gpu[i + 1]
  BY GpuShrinks
<1>3. Ordered' /\ DirtyCovers' /\ UsesTracked'
  BY <1>1, <1>2 DEF LockInv, Ordered, DirtyCovers, UsesTracked
<1>4. LockCovers'
  BY <1>1 DEF LockInv, LockCovers
<1>5. WriteLockExclusive'
  BY <1>1, <1>2 DEF LockInv, WriteLockExclusive
<1> QED BY <1>3, <1>4, <1>5 DEF LockInv

LEMMA LockInvStep == TypeOK /\ LockInv /\ [Next]_vars => LockInv'
<1> SUFFICES ASSUME TypeOK, LockInv, [Next]_vars PROVE LockInv'
  OBVIOUS
<1> gpu \in Seq(Command)
  BY DEF TypeOK
<1>1. ASSUME NEW offset \in 0 .. Size, NEW size \in 0 .. Size, NEW readonly \in BOOLEAN,
             NEW doNotWait \in BOOLEAN, LockBuffer(offset, size, readonly, doNotWait)
      PROVE  LockInv'
  BY <1>1, LockKeepsLockInv
<1>2. ASSUME NEW r \in Region, Write(r) PROVE LockInv'
  <2>1. UNCHANGED <<managed, gpu, lockVars, inUse>>
    BY <1>2 DEF Write
  <2>2. UsesTracked'
    BY <2>1 DEF LockInv, UsesTracked
  <2> QED BY <2>1, <2>2, SameCommands
<1>3. ASSUME NEW r \in Region, DrawPrimitive(r) PROVE LockInv'
  <2>1. PICK v \in 0 .. MaxVersion : gpu' = Append(gpu, Draw(r, v))
    BY <1>3 DEF DrawPrimitive
  <2>2. Draw(r, v) \in Command /\ Draw(r, v).op = "draw"
    BY Commands
  <2> QED BY <1>3, <2>1, <2>2, CommandEmitted DEF DrawPrimitive, lockVars
<1>4. ASSUME NEW r \in Region, ProcessVertices(r) PROVE LockInv'
  <2>1. Process(r, clock') \in Command /\ Process(r, clock').op = "process"
    BY <1>4, TypeStep, Commands DEF ProcessVertices, TypeOK
  <2> QED BY <1>4, <2>1, CommandEmitted DEF ProcessVertices
<1>5. CASE UnlockInner
  <2>1. UNCHANGED <<managed, gpu, lockRange, dirtyRange, held, inUse>> /\ lockCount' # 0
    BY <1>5 DEF UnlockInner, TypeOK
  <2>2. Ordered' /\ DirtyCovers' /\ UsesTracked' /\ WriteLockExclusive'
    BY <2>1 DEF LockInv, Ordered, DirtyCovers, UsesTracked, WriteLockExclusive
  <2> QED BY <2>1, <2>2 DEF LockInv, LockCovers
<1>6. CASE UnlockLast
  <2>1. held' = {} /\ managed' = managed
    BY <1>6 DEF UnlockLast
  <2>2. CASE KeepRange
    <3>1. Ordered' /\ DirtyCovers' /\ UsesTracked'
      BY <2>2 DEF KeepRange, LockInv, Ordered, DirtyCovers, UsesTracked
    <3> QED BY <2>1, <3>1 DEF LockInv, LockCovers, WriteLockExclusive
  <2>3. CASE ~IsDegenerate(lockRange) /\ Upload
    BY <2>1, <2>3, UploadKeepsLockInv
  <2> QED BY <1>6, <2>2, <2>3 DEF UnlockLast
<1>7. CASE GpuExecutes
  BY <1>7, GpuKeepsLockInv
<1>8. CASE Retire
  <2>1. UsesTracked'
    BY <1>8 DEF Retire, UsesTracked
  <2> QED BY <1>8, <2>1, SameCommands DEF Retire
<1>9. CASE UNCHANGED vars
  <2>1. UNCHANGED <<managed, gpu, lockVars, inUse>>
    BY <1>9 DEF vars, lockVars
  <2>2. UsesTracked'
    BY <2>1 DEF LockInv, UsesTracked
  <2> QED BY <2>1, <2>2, SameCommands
<1> QED BY <1>1, <1>2, <1>3, <1>4, <1>5, <1>6, <1>7, <1>8, <1>9 DEF Next

LEMMA LockInvAlways == Spec => [](TypeOK /\ LockInv)
<1>1. Init => LockInv
  BY Ranges DEF Init, LockInv, Ordered, DirtyCovers, LockCovers, UsesTracked, WriteLockExclusive
<1>2. LockInv /\ TypeOK /\ [Next]_vars => LockInv'
  BY LockInvStep
<1> QED BY TypeCorrect, <1>1, <1>2, PTL DEF Spec

(* A lock that skips the wait because the ranges are apart never lets the    *)
(* application write what a pending upload has yet to read.                 *)
THEOREM WriteLocksAreExclusive == Spec => []WriteLockExclusive
<1>1. LockInv => WriteLockExclusive
  BY DEF LockInv
<1> QED BY LockInvAlways, <1>1, PTL
-----------------------------------------------------------------------------
(* What region r holds when the commands before the n-th have been executed: *)
(* the result of the last ProcessVertices of r among them; if there is none, *)
(* what the staging buffer holds now, when one of them is a copy; and what   *)
(* the real buffer holds now otherwise.                                     *)
Last(r, n, v) ==
    \E j \in DOMAIN gpu :
        /\ j < n /\ Processes(j, r) /\ gpu[j].version = v
        /\ \A k \in DOMAIN gpu : j < k /\ k < n => ~Processes(k, r)

NoneBefore(r, n) == \A j \in DOMAIN gpu : j < n => ~Processes(j, r)

CopyBefore(n) == \E j \in DOMAIN gpu : j < n /\ gpu[j].op = "copy"

Holds(r, n, v) ==
    \/ Last(r, n, v)
    \/ NoneBefore(r, n) /\ CopyBefore(n) /\ staging[r] = v
    \/ NoneBefore(r, n) /\ ~CopyBefore(n) /\ real[r] = v

Version == 0 .. MaxVersion

DrawsHold ==
    ~managed => \A i \in DOMAIN gpu, r \in Region, v \in Version :
        gpu[i].op = "draw" /\ gpu[i].region = r /\ gpu[i].version = v => Holds(r, i, v)

DataInv == DrawsHold /\ NothingForgotten

(* Behind the last command, this is what a region will hold in the end.      *)
EndOK ==
    \A r \in Region, v \in Version, n \in Nat : n = Len(gpu) + 1 =>
        /\ Result(r, v) <=> Last(r, n, v)
        /\ Processing(r) <=> ~NoneBefore(r, n)
        /\ Copying <=> CopyBefore(n)
        /\ Settles(r, v) <=> Holds(r, n, v)

LEMMA EndHolds == ASSUME gpu \in Seq(Command) PROVE EndOK
<1> SUFFICES ASSUME NEW r \in Region, NEW v \in Version, NEW n \in Nat, n = Len(gpu) + 1
             PROVE  /\ Result(r, v) <=> Last(r, n, v)
                    /\ Processing(r) <=> ~NoneBefore(r, n)
                    /\ Copying <=> CopyBefore(n)
                    /\ Settles(r, v) <=> Holds(r, n, v)
  BY DEF EndOK
<1>1. Len(gpu) \in Nat /\ DOMAIN gpu = 1 .. Len(gpu) /\ \A j \in DOMAIN gpu : j < n
  OBVIOUS
<1>2. Result(r, v) <=> Last(r, n, v)
  BY <1>1 DEF Result, Last
<1>3. Processing(r) <=> ~NoneBefore(r, n)
  BY <1>1 DEF Processing, NoneBefore
<1>4. Copying <=> CopyBefore(n)
  BY <1>1 DEF Copying, CopyBefore
<1> QED BY <1>2, <1>3, <1>4 DEF Settles, Holds

LEMMA EndBoth == (TypeOK => EndOK) /\ (TypeOK' => EndOK')
<1>1. TypeOK => EndOK
  BY EndHolds DEF TypeOK
<1> QED BY <1>1, PTL

LEMMA BeforeGrows ==
  ASSUME NEW c \in Command, gpu \in Seq(Command), gpu' = Append(gpu, c),
         NEW r \in Region, NEW v \in Version, NEW n \in 1 .. Len(gpu) + 1
  PROVE  /\ Last(r, n, v)' <=> Last(r, n, v)
         /\ NoneBefore(r, n)' <=> NoneBefore(r, n)
         /\ CopyBefore(n)' <=> CopyBefore(n)
<1>1. /\ Len(gpu) \in Nat /\ DOMAIN gpu = 1 .. Len(gpu) /\ DOMAIN gpu' = 1 .. Len(gpu) + 1
      /\ \A i \in 1 .. Len(gpu) : gpu'[i] = gpu[i]
  BY GpuGrows
<1>2. \A j : j \in DOMAIN gpu' /\ j < n <=> j \in DOMAIN gpu /\ j < n
  BY <1>1
<1>3. \A j \in DOMAIN gpu : gpu'[j] = gpu[j]
  BY <1>1
<1>4. CopyBefore(n)' <=> CopyBefore(n)
  BY <1>2, <1>3 DEF CopyBefore
<1>5. NoneBefore(r, n)' <=> NoneBefore(r, n)
  BY <1>2, <1>3 DEF NoneBefore, Processes
<1>6. Last(r, n, v) => Last(r, n, v)'
  BY <1>2, <1>3 DEF Last, Processes
<1>7. Last(r, n, v)' => Last(r, n, v)
  BY <1>2, <1>3 DEF Last, Processes
<1> QED BY <1>4, <1>5, <1>6, <1>7

LEMMA EndGrows ==
  ASSUME NEW c \in Command, gpu \in Seq(Command), gpu' = Append(gpu, c),
         NEW r \in Region, NEW v \in Version, NEW n \in Nat, n = Len(gpu') + 1
  PROVE  /\ c.op = "process" /\ c.region = r /\ c.version = v => Last(r, n, v)'
         /\ ~(c.op = "process" /\ c.region = r) =>
               /\ Last(r, Len(gpu) + 1, v) => Last(r, n, v)'
               /\ NoneBefore(r, Len(gpu) + 1) => NoneBefore(r, n)'
         /\ CopyBefore(n)' <=> c.op = "copy" \/ CopyBefore(Len(gpu) + 1)
<1>1. /\ Len(gpu) \in Nat /\ n = Len(gpu) + 2
      /\ DOMAIN gpu = 1 .. Len(gpu) /\ DOMAIN gpu' = 1 .. Len(gpu) + 1
      /\ \A i \in 1 .. Len(gpu) : gpu'[i] = gpu[i]
      /\ gpu'[Len(gpu) + 1] = c
  BY GpuGrows
<1>2. c.op = "process" /\ c.region = r /\ c.version = v => Last(r, n, v)'
  <2> SUFFICES ASSUME c.op = "process", c.region = r, c.version = v PROVE Last(r, n, v)'
    OBVIOUS
  <2>1. Len(gpu) + 1 \in DOMAIN gpu' /\ Len(gpu) + 1 < n
    BY <1>1
  <2>2. \A k \in DOMAIN gpu' : ~(Len(gpu) + 1 < k)
    BY <1>1
  <2> QED BY <1>1, <2>1, <2>2 DEF Last, Processes
<1>3. ASSUME ~(c.op = "process" /\ c.region = r), Last(r, Len(gpu) + 1, v)
      PROVE  Last(r, n, v)'
  <2>1. PICK j \in 1 .. Len(gpu) :
            /\ gpu[j].op = "process" /\ gpu[j].region = r /\ gpu[j].version = v
            /\ \A k \in 1 .. Len(gpu) :
                  j < k => ~(gpu[k].op = "process" /\ gpu[k].region = r)
    BY <1>1, <1>3 DEF Last, Processes
  <2>2. j \in DOMAIN gpu' /\ j < n /\ gpu'[j] = gpu[j]
    BY <1>1
  <2>3. \A k \in DOMAIN gpu' : j < k => ~(gpu'[k].op = "process" /\ gpu'[k].region = r)
    BY <1>1, <1>3, <2>1
  <2> QED BY <2>1, <2>2, <2>3 DEF Last, Processes
<1>4. ASSUME ~(c.op = "process" /\ c.region = r), NoneBefore(r, Len(gpu) + 1)
      PROVE  NoneBefore(r, n)'
  BY <1>1, <1>4 DEF NoneBefore, Processes
<1>5. CopyBefore(n)' <=> c.op = "copy" \/ CopyBefore(Len(gpu) + 1)
  BY <1>1 DEF CopyBefore
<1> QED BY <1>2, <1>3, <1>4, <1>5

LEMMA BeforeShrinks ==
  ASSUME gpu \in Seq(Command), gpu # <<>>, gpu' = Tail(gpu),
         NEW r \in Region, NEW v \in Version, NEW n \in 1 .. Len(gpu)
  PROVE  /\ Last(r, n + 1, v) => \/ Last(r, n, v)'
                                 \/ Processes(1, r) /\ gpu[1].version = v /\ NoneBefore(r, n)'
         /\ NoneBefore(r, n + 1) => NoneBefore(r, n)' /\ ~Processes(1, r)
         /\ CopyBefore(n)' => CopyBefore(n + 1)
         /\ CopyBefore(n + 1) => CopyBefore(n)' \/ gpu[1].op = "copy"
         /\ gpu[1].op = "copy" => CopyBefore(n + 1)
<1>1. /\ Len(gpu) \in Nat \ {0} /\ DOMAIN gpu = 1 .. Len(gpu) /\ DOMAIN gpu' = 1 .. Len(gpu) - 1
      /\ \A i \in 1 .. Len(gpu) - 1 : gpu'[i] = gpu[i + 1]
  BY GpuShrinks
<1>2. \A j \in DOMAIN gpu' : j + 1 \in DOMAIN gpu /\ gpu'[j] = gpu[j + 1]
  BY <1>1
<1>3. \A j \in DOMAIN gpu : j # 1 => j - 1 \in DOMAIN gpu' /\ gpu'[j - 1] = gpu[j]
  BY <1>1
<1>4. ASSUME Last(r, n + 1, v)
      PROVE  Last(r, n, v)' \/ (Processes(1, r) /\ gpu[1].version = v /\ NoneBefore(r, n)')
  <2>1. PICK j \in DOMAIN gpu :
            /\ j < n + 1 /\ Processes(j, r) /\ gpu[j].version = v
            /\ \A k \in DOMAIN gpu : j < k /\ k < n + 1 => ~Processes(k, r)
    BY <1>4 DEF Last
  <2>2. CASE j = 1
    <3>1. \A k \in DOMAIN gpu' : k < n => ~(gpu'[k].op = "process" /\ gpu'[k].region = r)
      BY <1>1, <1>2, <2>1, <2>2 DEF Processes
    <3> QED BY <2>1, <2>2, <3>1 DEF NoneBefore, Processes
  <2>3. CASE j # 1
    <3>1. j - 1 \in DOMAIN gpu' /\ j - 1 < n /\ gpu'[j - 1] = gpu[j]
      BY <1>1, <1>3, <2>1, <2>3
    <3>2. \A k \in DOMAIN gpu' :
             j - 1 < k /\ k < n => ~(gpu'[k].op = "process" /\ gpu'[k].region = r)
      BY <1>1, <1>2, <2>1 DEF Processes
    <3> QED BY <2>1, <3>1, <3>2 DEF Last, Processes
  <2> QED BY <2>2, <2>3
<1>5. ASSUME NoneBefore(r, n + 1) PROVE NoneBefore(r, n)' /\ ~Processes(1, r)
  <2>1. 1 \in DOMAIN gpu /\ 1 < n + 1
    BY <1>1
  <2>2. \A j \in DOMAIN gpu' : j < n => ~(gpu'[j].op = "process" /\ gpu'[j].region = r)
    BY <1>1, <1>2, <1>5 DEF NoneBefore, Processes
  <2> QED BY <1>5, <2>1, <2>2 DEF NoneBefore, Processes
<1>6. CopyBefore(n)' => CopyBefore(n + 1)
  BY <1>1, <1>2 DEF CopyBefore
<1>7. CopyBefore(n + 1) => CopyBefore(n)' \/ gpu[1].op = "copy"
  <2> SUFFICES ASSUME NEW j \in DOMAIN gpu, j < n + 1, gpu[j].op = "copy", gpu[1].op # "copy"
               PROVE  CopyBefore(n)'
    BY DEF CopyBefore
  <2>1. j - 1 \in DOMAIN gpu' /\ gpu'[j - 1] = gpu[j] /\ j - 1 < n
    BY <1>1, <1>3
  <2> QED BY <2>1 DEF CopyBefore
<1>8. gpu[1].op = "copy" => CopyBefore(n + 1)
  BY <1>1 DEF CopyBefore
<1> QED BY <1>4, <1>5, <1>6, <1>7, <1>8

LEMMA HoldsShrinks ==
  ASSUME TypeOK, GpuExecutes, NEW r \in Region, NEW v \in Version, NEW n \in 1 .. Len(gpu),
         Holds(r, n + 1, v)
  PROVE  Holds(r, n, v)'
<1>1. gpu \in Seq(Command) /\ gpu # <<>> /\ gpu' = Tail(gpu) /\ Execute(gpu[1])
  BY GpuShrinks DEF TypeOK, GpuExecutes
<1>2. gpu[1] \in Command
  BY <1>1, GpuShrinks
<1>3. CASE gpu[1].op = "copy"
  <2>1. real' = staging /\ staging' = staging /\ ~Processes(1, r)
    BY <1>1, <1>3 DEF Execute, Processes
  <2> QED BY <1>1, <1>3, <2>1, BeforeShrinks DEF Holds
<1>4. CASE gpu[1].op = "draw"
  <2>1. real' = real /\ staging' = staging /\ ~Processes(1, r)
    BY <1>1, <1>4 DEF Execute, Processes
  <2> QED BY <1>1, <1>4, <2>1, BeforeShrinks DEF Holds
<1>5. CASE gpu[1].op = "process"
  <2> DEFINE q == gpu[1].region
             w == gpu[1].version
  <2>1. q \in Region /\ w \in Version
    BY <1>2, <1>5, CommandFields DEF Version
  <2>2. real' = [real EXCEPT ![q] = w] /\ staging' = [staging EXCEPT ![q] = w]
    BY <1>1, <1>5 DEF Execute
  <2>3. Processes(1, r) <=> q = r
    BY <1>5 DEF Processes
  <2> HIDE DEF q, w
  <2>4. /\ q = r => real'[r] = w /\ staging'[r] = w
        /\ q # r => real'[r] = real[r] /\ staging'[r] = staging[r]
    BY <2>1, <2>2 DEF TypeOK, Contents
  <2>5. CASE Last(r, n + 1, v)
    <3>1. CASE Last(r, n, v)'
      BY <3>1 DEF Holds
    <3>2. CASE Processes(1, r) /\ gpu[1].version = v /\ NoneBefore(r, n)'
      <4>1. real'[r] = v /\ staging'[r] = v
        BY <2>3, <2>4, <3>2 DEF w
      <4> QED BY <3>2, <4>1 DEF Holds
    <3> QED BY <1>1, <2>5, <3>1, <3>2, BeforeShrinks
  <2>6. CASE NoneBefore(r, n + 1)
    <3>1. NoneBefore(r, n)' /\ q # r
      BY <1>1, <2>3, <2>6, BeforeShrinks
    <3>2. CopyBefore(n)' <=> CopyBefore(n + 1)
      BY <1>1, <1>5, BeforeShrinks
    <3>3. Last(r, n + 1, v) => FALSE
      BY <2>6 DEF Last, NoneBefore
    <3> QED BY <2>4, <3>1, <3>2, <3>3 DEF Holds
  <2> QED BY <2>5, <2>6 DEF Holds
<1> QED BY <1>2, <1>3, <1>4, <1>5, CommandFields

(* The commands and the data stay the same, and the lock range grows.        *)
LEMMA SameData ==
  ASSUME DataInv, UNCHANGED <<managed, gpu, staging, real, written, overtaken>>,
         \A r \in Region : Within(r, lockRange) => Within(r, lockRange')
  PROVE  DataInv'
<1>1. \A r, n, v : Last(r, n, v)' <=> Last(r, n, v)
  BY DEF Last, Processes
<1>2. \A r, n, v : Holds(r, n, v)' <=> Holds(r, n, v)
  BY <1>1 DEF Holds, NoneBefore, CopyBefore, Processes
<1>3. DrawsHold'
  BY <1>2 DEF DataInv, DrawsHold
<1>4. \A r, v : (Keeps(r, v)' <=> Keeps(r, v)) /\ (Settles(r, v)' <=> Settles(r, v))
  BY DEF Keeps, Settles, Result, Processing, Processes, Copying
<1>5. NothingForgotten'
  BY <1>4 DEF DataInv, NothingForgotten
<1> QED BY <1>3, <1>5 DEF DataInv

(* A command is emitted: what the regions hold in the end.                   *)
LEMMA CommandSettles ==
  ASSUME NEW c \in Command, gpu \in Seq(Command), gpu' = Append(gpu, c),
         UNCHANGED <<staging, real>>, NEW r \in Region, NEW v \in Version
  PROVE  /\ c.op = "process" /\ c.region = r /\ c.version = v => Keeps(r, v)' /\ Settles(r, v)'
         /\ ~(c.op = "process" /\ c.region = r) =>
               /\ Keeps(r, v) => Keeps(r, v)'
               /\ c.op = "copy" /\ Keeps(r, v) => Settles(r, v)'
               /\ c.op # "copy" /\ Settles(r, v) => Settles(r, v)'
<1>1. /\ Len(gpu) \in Nat /\ Len(gpu) + 1 \in Nat
      /\ DOMAIN gpu = 1 .. Len(gpu) /\ DOMAIN gpu' = 1 .. Len(gpu) + 1
      /\ \A i \in 1 .. Len(gpu) : gpu'[i] = gpu[i]
      /\ gpu'[Len(gpu) + 1] = c
  BY GpuGrows
<1> DEFINE m == Len(gpu)
           process == c.op = "process" /\ c.region = r
<1>2. Processing(r)' <=> Processing(r) \/ process
  BY <1>1 DEF Processing, Processes
<1>3. Copying' <=> Copying \/ c.op = "copy"
  BY <1>1 DEF Copying
<1>4. ASSUME process, c.version = v PROVE Result(r, v)'
  <2>1. m + 1 \in DOMAIN gpu' /\ \A j \in DOMAIN gpu' : j <= m + 1
    BY <1>1
  <2> QED BY <1>1, <1>4, <2>1 DEF Result, Processes
<1>5. ASSUME ~process, Result(r, v) PROVE Result(r, v)'
  <2>1. PICK i \in 1 .. m :
           /\ gpu[i].op = "process" /\ gpu[i].region = r /\ gpu[i].version = v
           /\ \A j \in 1 .. m : gpu[j].op = "process" /\ gpu[j].region = r => j <= i
    BY <1>1, <1>5 DEF Result, Processes
  <2>2. i \in DOMAIN gpu' /\ gpu'[i] = gpu[i]
    BY <1>1
  <2>3. ASSUME NEW j \in DOMAIN gpu', gpu'[j].op = "process", gpu'[j].region = r PROVE j <= i
    BY <1>1, <1>5, <2>1, <2>3
  <2> QED BY <2>1, <2>2, <2>3 DEF Result, Processes
<1> HIDE DEF process
<1>6. ASSUME process, c.version = v PROVE Keeps(r, v)' /\ Settles(r, v)'
  BY <1>4, <1>6 DEF Keeps, Settles
<1>7. ASSUME ~process, Keeps(r, v) PROVE Keeps(r, v)'
  BY <1>2, <1>5, <1>7 DEF Keeps
<1>8. ASSUME ~process, c.op = "copy", Keeps(r, v) PROVE Settles(r, v)'
  BY <1>2, <1>3, <1>5, <1>8 DEF Keeps, Settles
<1>9. ASSUME ~process, c.op # "copy", Settles(r, v) PROVE Settles(r, v)'
  BY <1>2, <1>3, <1>5, <1>9 DEF Settles
<1> QED BY <1>6, <1>7, <1>8, <1>9 DEF process

(* Draws emitted before still find their version; a new one has its own.     *)
LEMMA CommandKeepsDraws ==
  ASSUME TypeOK, DataInv, NEW c \in Command, gpu' = Append(gpu, c),
         UNCHANGED <<managed, staging, real>>,
         c.op = "draw" => Settles(c.region, c.version)
  PROVE  DrawsHold'
<1> gpu \in Seq(Command)
  BY DEF TypeOK
<1> DEFINE m == Len(gpu)
<1>1. /\ m \in Nat /\ m + 1 \in Nat
      /\ DOMAIN gpu = 1 .. m /\ DOMAIN gpu' = 1 .. m + 1
      /\ \A i \in 1 .. m : gpu'[i] = gpu[i]
      /\ gpu'[m + 1] = c
  BY GpuGrows
<1> HIDE DEF m
<1>2. ASSUME NEW r \in Region, NEW v \in Version, NEW i \in 1 .. m + 1, Holds(r, i, v)
      PROVE  Holds(r, i, v)'
  <2>1. /\ Last(r, i, v)' <=> Last(r, i, v)
        /\ NoneBefore(r, i)' <=> NoneBefore(r, i)
        /\ CopyBefore(i)' <=> CopyBefore(i)
    BY <1>2, BeforeGrows DEF m
  <2> QED BY <1>2, <2>1 DEF Holds
<1> SUFFICES ASSUME ~managed, NEW i \in DOMAIN gpu', NEW r \in Region, NEW v \in Version,
                    gpu'[i].op = "draw", gpu'[i].region = r, gpu'[i].version = v
             PROVE  Holds(r, i, v)'
  BY DEF DrawsHold
<1>3. CASE i = m + 1
  <2>1. Settles(r, v)
    BY <1>1, <1>3
  <2>2. Holds(r, m + 1, v)
    BY <1>1, <2>1, EndBoth DEF EndOK, m
  <2> QED BY <1>1, <1>2, <1>3, <2>2
<1>4. CASE i \in 1 .. m
  <2>1. gpu[i].op = "draw" /\ gpu[i].region = r /\ gpu[i].version = v
    BY <1>1, <1>4
  <2>2. Holds(r, i, v)
    BY <1>1, <1>4, <2>1 DEF DataInv, DrawsHold
  <2> QED BY <1>1, <1>2, <1>4, <2>2
<1> QED BY <1>1, <1>3, <1>4

(* Outside the managed pools the application writes only when no copy and no *)
(* copy-back is pending.                                                    *)
LEMMA WritesAlone ==
  ASSUME TypeOK, LockInv, ~managed, NEW r \in Region, Write(r)
  PROVE  \A i \in DOMAIN gpu : gpu[i].op = "draw"
<1>1. PICK lock \in held : ~lock.readonly
  BY DEF Write
<1>2. lock.range = Whole
  BY DEF LockInv, LockCovers
<1> SUFFICES ASSUME NEW i \in DOMAIN gpu PROVE gpu[i].op = "draw"
  OBVIOUS
<1>3. gpu[i] \in Command
  BY DEF TypeOK
<1>4. gpu[i].op # "process"
  BY <1>1 DEF LockInv, WriteLockExclusive
<1>5. ASSUME gpu[i].op = "copy" PROVE FALSE
  <2>1. gpu[i].range \in Range /\ gpu[i].range.min < gpu[i].range.max
    BY <1>3, <1>5, CommandFields DEF LockInv, Ordered
  <2>2. gpu[i].range.min \in Region
    BY <2>1, Ranges DEF Region
  <2>3. Within(gpu[i].range.min, lock.range) /\ Within(gpu[i].range.min, gpu[i].range)
    BY <1>2, <2>1, <2>2, Ranges DEF Within, Region
  <2> QED BY <1>1, <1>5, <2>2, <2>3 DEF LockInv, WriteLockExclusive
<1> QED BY <1>3, <1>4, <1>5, CommandFields

LEMMA WriteKeepsData ==
  ASSUME TypeOK, LockInv, DataInv, NEW r \in Region, Write(r)
  PROVE  DataInv'
<1>1. /\ UNCHANGED <<managed, gpu, real, lockRange>>
      /\ staging' = [staging EXCEPT ![r] = clock'] /\ written' = [written EXCEPT ![r] = clock']
      /\ overtaken' = IF Processing(r) THEN overtaken \cup {r} ELSE overtaken \ {r}
  BY DEF Write, lockVars
<1>2. /\ staging'[r] = clock' /\ written'[r] = clock'
      /\ \A q \in Region : q # r => staging'[q] = staging[q] /\ written'[q] = written[q]
  BY <1>1 DEF TypeOK, Contents
<1>3. NothingForgotten'
  <2>1. ASSUME ~managed PROVE overtaken' = {}
    <3>1. ~Processing(r)
      BY <2>1, WritesAlone DEF Processing, Processes
    <3> QED BY <1>1, <2>1, <3>1 DEF DataInv, NothingForgotten
  <2>2. /\ \A q : Processing(q)' <=> Processing(q)
        /\ \A q, v : Result(q, v)' <=> Result(q, v)
        /\ Copying' <=> Copying
    BY <1>1 DEF Processing, Result, Processes, Copying
  <2>3. ASSUME NEW q \in Region, q \notin overtaken'
        PROVE  Keeps(q, written[q])' /\ (Settles(q, written[q])' \/ Within(q, lockRange)')
    <3>1. CASE q = r
      <4>1. ~Processing(r)
        BY <1>1, <2>3, <3>1
      <4>2. Within(r, lockRange)
        BY DEF Write, LockInv, LockCovers
      <4>3. Keeps(q, written[q])'
        BY <1>2, <2>2, <3>1, <4>1 DEF Keeps
      <4> QED BY <1>1, <3>1, <4>2, <4>3
    <3>2. CASE q # r
      <4>1. q \notin overtaken
        BY <1>1, <2>3, <3>2
      <4>2. Keeps(q, written[q]) /\ (Settles(q, written[q]) \/ Within(q, lockRange))
        BY <4>1 DEF DataInv, NothingForgotten
      <4>3. staging'[q] = staging[q] /\ written'[q] = written[q] /\ real'[q] = real[q]
        BY <1>1, <1>2, <3>2
      <4>4. Keeps(q, written[q])' /\ (Settles(q, written[q]) => Settles(q, written[q])')
        BY <2>2, <4>2, <4>3 DEF Keeps, Settles
      <4> QED BY <1>1, <4>2, <4>4
    <3> QED BY <3>1, <3>2
  <2> QED BY <1>1, <2>1, <2>3 DEF NothingForgotten
<1>4. DrawsHold'
  <2>1. CASE managed
    BY <1>1, <2>1 DEF DrawsHold
  <2>2. CASE ~managed
    <3>1. \A n : ~CopyBefore(n)
      BY <2>2, WritesAlone DEF CopyBefore
    <3>2. \A q, n, v : Holds(q, n, v) => Holds(q, n, v)'
      BY <1>1, <3>1 DEF Holds, Last, NoneBefore, CopyBefore, Processes
    <3> QED BY <1>1, <3>2 DEF DataInv, DrawsHold
  <2> QED BY <2>1, <2>2
<1> QED BY <1>3, <1>4 DEF DataInv

(* The results of a command that has been executed are where they belong.    *)
LEMMA GpuKeeps ==
  ASSUME TypeOK, GpuExecutes, NEW r \in Region, NEW v \in Version, Keeps(r, v)
  PROVE  Keeps(r, v)'
<1>1. /\ gpu \in Seq(Command) /\ gpu # <<>> /\ gpu' = Tail(gpu) /\ Execute(gpu[1])
      /\ gpu[1] \in Command /\ Len(gpu) \in Nat \ {0} /\ Len(gpu') = Len(gpu) - 1
      /\ gpu' \in Seq(Command)
  BY GpuShrinks DEF TypeOK, GpuExecutes
<1>2. PICK n \in Nat \ {0} : n = Len(gpu) /\ n = Len(gpu') + 1 /\ n + 1 = Len(gpu) + 1
  <2>1. Len(gpu) \in Nat \ {0} /\ Len(gpu) = Len(gpu') + 1
    <3> DEFINE a == Len(gpu)
               b == Len(gpu')
    <3>1. a \in Nat \ {0} /\ b = a - 1
      BY <1>1
    <3> HIDE DEF a, b
    <3>2. a \in Nat \ {0} /\ a = b + 1
      BY <3>1
    <3> QED BY <3>2 DEF a, b
  <2> QED BY <2>1
<1>3. EndOK /\ EndOK'
  BY TypeStep, EndBoth DEF Next
<1>4. /\ Keeps(r, v) <=> Last(r, n + 1, v) \/ (NoneBefore(r, n + 1) /\ staging[r] = v)
      /\ Keeps(r, v)' <=> Last(r, n, v)' \/ (NoneBefore(r, n)' /\ staging'[r] = v)
  BY <1>2, <1>3 DEF EndOK, Keeps
<1>5. n \in 1 .. Len(gpu)
  BY <1>2
<1>6. /\ Last(r, n + 1, v) => Last(r, n, v)'
                               \/ (Processes(1, r) /\ gpu[1].version = v /\ NoneBefore(r, n)')
      /\ NoneBefore(r, n + 1) => NoneBefore(r, n)' /\ ~Processes(1, r)
  BY <1>1, <1>5, BeforeShrinks
<1>7. /\ Processes(1, r) => staging'[r] = gpu[1].version
      /\ ~Processes(1, r) => staging'[r] = staging[r]
  <2>1. CASE gpu[1].op = "process"
    <3> DEFINE q == gpu[1].region
               w == gpu[1].version
    <3>1. staging' = [staging EXCEPT ![q] = w] /\ (Processes(1, r) <=> q = r)
      BY <1>1, <2>1 DEF Execute, Processes
    <3> HIDE DEF q, w
    <3>2. /\ q = r => staging'[r] = w
          /\ q # r => staging'[r] = staging[r]
      BY <3>1 DEF TypeOK, Contents
    <3> QED BY <3>1, <3>2 DEF w
  <2>2. CASE gpu[1].op # "process"
    BY <1>1, <2>2 DEF Execute, Processes
  <2> QED BY <2>1, <2>2
<1> QED BY <1>4, <1>6, <1>7

LEMMA GpuSettles ==
  ASSUME TypeOK, GpuExecutes, NEW r \in Region, NEW v \in Version, Settles(r, v)
  PROVE  Settles(r, v)'
<1>1. gpu \in Seq(Command) /\ Len(gpu) \in Nat \ {0} /\ Len(gpu') = Len(gpu) - 1
  BY GpuShrinks DEF TypeOK, GpuExecutes
<1>2. PICK n \in Nat \ {0} : n = Len(gpu) /\ n = Len(gpu') + 1 /\ n + 1 = Len(gpu) + 1
  BY <1>1
<1>3. EndOK /\ EndOK'
  BY TypeStep, EndBoth DEF Next
<1>4. Holds(r, n + 1, v)
  BY <1>2, <1>3 DEF EndOK
<1>5. n \in 1 .. Len(gpu)
  BY <1>2
<1>6. Holds(r, n, v)'
  BY <1>4, <1>5, HoldsShrinks
<1> QED BY <1>2, <1>3, <1>6 DEF EndOK

LEMMA GpuKeepsData ==
  ASSUME TypeOK, DataInv, GpuExecutes
  PROVE  DataInv'
<1>1. UNCHANGED <<managed, written, overtaken, lockRange>>
  BY DEF GpuExecutes, lockVars, historyVars
<1>2. \A r \in Region : written[r] \in Version
  BY DEF TypeOK, Contents, Version
<1>3. NothingForgotten'
  <2>1. ASSUME NEW r \in Region, NEW v \in Version
        PROVE  (Keeps(r, v) => Keeps(r, v)') /\ (Settles(r, v) => Settles(r, v)')
    BY <2>1, GpuKeeps, GpuSettles
  <2> QED BY <1>1, <1>2, <2>1 DEF DataInv, NothingForgotten
<1>4. DrawsHold'
  <2>1. /\ gpu \in Seq(Command) /\ gpu # <<>> /\ gpu' = Tail(gpu)
        /\ Len(gpu) \in Nat \ {0}
        /\ DOMAIN gpu = 1 .. Len(gpu) /\ DOMAIN gpu' = 1 .. Len(gpu) - 1
        /\ \A i \in 1 .. Len(gpu) - 1 : gpu'[i] = gpu[i + 1]
    BY GpuShrinks DEF TypeOK, GpuExecutes
  <2>2. ASSUME NEW r \in Region, NEW n \in 1 .. Len(gpu), NEW v \in Version, Holds(r, n + 1, v)
        PROVE  Holds(r, n, v)'
    BY <2>2, HoldsShrinks
  <2> QED BY <1>1, <2>1, <2>2 DEF DataInv, DrawsHold
<1> QED BY <1>3, <1>4 DEF DataInv

LEMMA EmitKeepsData ==
  ASSUME TypeOK, DataInv, TypeOK', NEW r \in Region, DrawPrimitive(r) \/ ProcessVertices(r)
  PROVE  DataInv'
<1> gpu \in Seq(Command) /\ clock' \in Version
  BY DEF TypeOK, Version
<1>0. \A q \in Region : written[q] \in Version
  BY DEF TypeOK, Contents, Version
<1>1. CASE DrawPrimitive(r)
  <2>1. PICK v \in 0 .. MaxVersion : Settles(r, v) /\ gpu' = Append(gpu, Draw(r, v))
    BY <1>1 DEF DrawPrimitive
  <2> DEFINE c == Draw(r, v)
  <2>2. c \in Command /\ c.op = "draw" /\ c.region = r /\ c.version = v
    BY Commands
  <2>3. gpu' = Append(gpu, c)
        /\ UNCHANGED <<managed, staging, real, written, overtaken, lockRange>>
    BY <1>1, <2>1 DEF DrawPrimitive, dataVars, historyVars, lockVars
  <2> HIDE DEF c
  <2>4. DrawsHold'
    BY <2>1, <2>2, <2>3, CommandKeepsDraws
  <2>5. \A q \in Region, w \in Version :
           (Keeps(q, w) => Keeps(q, w)') /\ (Settles(q, w) => Settles(q, w)')
    BY <2>2, <2>3, CommandSettles
  <2> QED BY <1>0, <2>3, <2>4, <2>5 DEF DataInv, NothingForgotten
<1>2. CASE ProcessVertices(r)
  <2> DEFINE c == Process(r, clock')
  <2>1. c \in Command /\ c.op = "process" /\ c.region = r /\ c.version = clock'
    BY Commands DEF Version
  <2>2. /\ gpu' = Append(gpu, c) /\ UNCHANGED <<managed, staging, real, lockRange>>
        /\ written' = [written EXCEPT ![r] = clock'] /\ overtaken' = overtaken \ {r}
    BY <1>2 DEF ProcessVertices
  <2> HIDE DEF c
  <2>3. written'[r] = clock' /\ \A q \in Region : q # r => written'[q] = written[q]
    BY <2>2 DEF TypeOK, Contents
  <2>4. DrawsHold'
    BY <2>1, <2>2, CommandKeepsDraws
  <2>5. ASSUME NEW w \in Version, w = clock' PROVE Keeps(r, w)' /\ Settles(r, w)'
    <3>1. c.version = w
      BY <2>1, <2>5
    <3> QED BY <2>1, <2>2, <3>1, CommandSettles
  <2>6. \A q \in Region, w \in Version : q # r =>
           (Keeps(q, w) => Keeps(q, w)') /\ (Settles(q, w) => Settles(q, w)')
    BY <2>1, <2>2, CommandSettles
  <2>7. ASSUME NEW q \in Region, q \notin overtaken'
        PROVE  Keeps(q, written[q])' /\ (Settles(q, written[q])' \/ Within(q, lockRange)')
    <3>1. CASE q = r
      <4>1. PICK w \in Version : w = clock'
        OBVIOUS
      <4>2. Keeps(r, w)' /\ Settles(r, w)' /\ written'[q] = w
        BY <2>3, <2>5, <3>1, <4>1
      <4> QED BY <3>1, <4>2
    <3>2. CASE q # r
      <4>1. q \notin overtaken
        BY <2>2, <2>7, <3>2
      <4>2. PICK w \in Version : w = written[q]
        BY <1>0
      <4>3. Keeps(q, w)' /\ (Settles(q, w)' \/ Within(q, lockRange)') /\ written'[q] = w
        BY <2>2, <2>3, <2>6, <3>2, <4>1, <4>2 DEF DataInv, NothingForgotten
      <4> QED BY <4>3
    <3> QED BY <3>1, <3>2
  <2>8. ~managed => overtaken' = {}
    BY <2>2 DEF DataInv, NothingForgotten
  <2> QED BY <2>2, <2>4, <2>7, <2>8 DEF DataInv, NothingForgotten
<1> QED BY <1>1, <1>2

LEMMA UploadKeepsData ==
  ASSUME TypeOK, DataInv, Upload, UNCHANGED <<managed, staging, real, written, overtaken>>
  PROVE  DataInv'
<1> gpu \in Seq(Command) /\ lockRange \in Range
  BY DEF TypeOK
<1> DEFINE c == Copy(lockRange)
<1>1. c \in Command /\ c.op = "copy"
  BY Commands
<1>2. gpu' = Append(gpu, c)
  BY DEF Upload
<1> HIDE DEF c
<1>3. DrawsHold'
  BY <1>1, <1>2, CommandKeepsDraws
<1>4. \A q \in Region, w \in Version : Keeps(q, w) => Keeps(q, w)' /\ Settles(q, w)'
  BY <1>1, <1>2, CommandSettles
<1>5. \A q \in Region : written[q] \in Version
  BY DEF TypeOK, Contents, Version
<1>6. NothingForgotten'
  BY <1>4, <1>5 DEF DataInv, NothingForgotten
<1> QED BY <1>3, <1>6 DEF DataInv

LEMMA DataInvStep == TypeOK /\ LockInv /\ DataInv /\ [Next]_vars => DataInv'
<1> SUFFICES ASSUME TypeOK, LockInv, DataInv, [Next]_vars PROVE DataInv'
  OBVIOUS
<1>0. TypeOK'
  BY TypeStep
<1>1. ASSUME NEW offset \in 0 .. Size, NEW size \in 0 .. Size, NEW readonly \in BOOLEAN,
             NEW doNotWait \in BOOLEAN, LockBuffer(offset, size, readonly, doNotWait)
      PROVE  DataInv'
  <2>1. UNCHANGED <<managed, gpu, staging, real, written, overtaken>>
        /\ lockRange' = Conjoin(lockRange, Requested(offset, size))
    BY <1>1 DEF LockBuffer, dataVars, historyVars
  <2> QED BY <2>1, LockGrows, SameData
<1>2. ASSUME NEW r \in Region, Write(r) PROVE DataInv'
  BY <1>2, WriteKeepsData
<1>3. ASSUME NEW r \in Region, DrawPrimitive(r) \/ ProcessVertices(r) PROVE DataInv'
  BY <1>0, <1>3, EmitKeepsData
<1>4. CASE UnlockInner
  BY <1>4, SameData DEF UnlockInner, dataVars, historyVars
<1>5. CASE UnlockLast
  <2>1. UNCHANGED <<managed, staging, real, written, overtaken>>
    BY <1>5 DEF UnlockLast, dataVars, historyVars
  <2>2. CASE KeepRange
    BY <2>1, <2>2, SameData DEF KeepRange
  <2>3. CASE Upload
    BY <2>1, <2>3, UploadKeepsData
  <2> QED BY <1>5, <2>2, <2>3 DEF UnlockLast
<1>6. CASE GpuExecutes
  BY <1>6, GpuKeepsData
<1>7. CASE Retire
  BY <1>7, SameData DEF Retire, lockVars, dataVars, historyVars
<1>8. CASE UNCHANGED vars
  BY <1>8, SameData DEF vars
<1> QED BY <1>1, <1>2, <1>3, <1>4, <1>5, <1>6, <1>7, <1>8 DEF Next

LEMMA DataInvAlways == Spec => []DataInv
<1>1. Init => DataInv
  <2> SUFFICES ASSUME Init PROVE DataInv
    OBVIOUS
  <2>1. /\ gpu = <<>> /\ DOMAIN gpu = {} /\ overtaken = {}
        /\ \A r \in Region : staging[r] = 0 /\ real[r] = 0 /\ written[r] = 0
    BY DEF Init
  <2> QED BY <2>1 DEF DataInv, DrawsHold, NothingForgotten, Keeps, Settles, Processing, Copying
<1>2. TypeOK /\ LockInv /\ DataInv /\ [Next]_vars => DataInv'
  BY DataInvStep
<1> QED BY LockInvAlways, <1>1, <1>2, PTL DEF Spec

(* What a region was last given, by the application or by ProcessVertices,   *)
(* is kept in the staging buffer and reaches the real one, at the latest     *)
(* with the next upload; but a copy-back destroys a write that came before   *)
(* it in the staging buffer and after it in the order of the calls, which    *)
(* only locks of managed buffers allow.                                     *)
THEOREM WritesAreRemembered == Spec => []NothingForgotten
<1>1. DataInv => NothingForgotten
  BY DEF DataInv
<1> QED BY DataInvAlways, <1>1, PTL

(* Outside the managed pools, a draw reads the buffer as it was when the     *)
(* draw was called.                                                         *)
THEOREM DrawsSeeTheirUpload == Spec => []DrawsSeeUpload
<1>1. TypeOK /\ LockInv /\ DataInv => DrawsSeeUpload
  <2> SUFFICES ASSUME TypeOK, DataInv, ~managed, gpu # <<>>, Head(gpu).op = "draw"
               PROVE  real[Head(gpu).region] = Head(gpu).version
    BY DEF DrawsSeeUpload
  <2>1. Head(gpu) = gpu[1] /\ gpu[1] \in Command /\ 1 \in DOMAIN gpu
        /\ \A j \in DOMAIN gpu : ~(j < 1)
    BY DEF TypeOK
  <2>2. gpu[1].region \in Region /\ gpu[1].version \in Version
    BY <2>1, CommandFields DEF Version
  <2>3. Holds(gpu[1].region, 1, gpu[1].version)
    BY <2>1, <2>2 DEF DataInv, DrawsHold
  <2> QED BY <2>1, <2>3 DEF Holds, Last, CopyBefore
<1> QED BY LockInvAlways, DataInvAlways, <1>1, PTL
=============================================================================
