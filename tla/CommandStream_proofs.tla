------------------------- MODULE CommandStream_proofs -------------------------
(***************************************************************************)
(* Proofs about CommandStream, for any number and size of chunks and any    *)
(* number of commands and command lists: types, that chunks are owned by    *)
(* those who refer to them, that each command is issued and executed once,  *)
(* in order, that none is left unsubmitted, and that no wake-up is lost.    *)
(*                                                                          *)
(* TodoInv, about the program of the current call, and ChunkInv, about      *)
(* chunks, are inductive together (IInv). Everything else is inductive on   *)
(* top of IInv: DrainInv for a wait; OrderInv, SingleInv and ListInv for    *)
(* the order of commands, which is the refinement of CommandPipe; BusyInv,  *)
(* CleanInv and StopInv for what is left unsubmitted; WakeInv for sleeping. *)
(***************************************************************************)
EXTENDS CommandStream, DataLemmas, FiniteSetTheorems

StepNames == {"emit", "emitFlush", "dispatch", "notBusy", "busy", "flush", "maybeFlush",
              "list", "alloc", "sync", "wait", "stop"}

(* What is left of a call: a chunk is allocated only as its next step, and it
   records at most one command of the application. *)
ProgramOK(s) ==
    /\ s \in Seq(StepNames)
    /\ \A i \in 2 .. Len(s) : s[i] # "alloc"
    /\ \A i, j \in 1 .. Len(s) : s[i] = "emit" /\ s[j] = "emit" => i = j

(* The command it records is still to be counted. *)
CommandsBounded ==
    /\ numCmds \in 0 .. MaxCmds + 1
    /\ "emit" \in Range(todo) => numCmds <= MaxCmds

(* A command list that is being executed is not released. *)
ListKept ==
    /\ "list" \in Range(todo) => hasList
    /\ nextChunk # 1 => todo # <<>> /\ Head(todo) = "list"
    /\ nextChunk \in 1 .. Len(cmdList) + 1
    /\ ~hasList => cmdList = <<>>
    /\ cmdList \in Seq(Chunks)

TodoInv == ProgramOK(todo) /\ CommandsBounded /\ ListKept

(* Types of what only one thread writes, and how far the dxvk-cs thread is. *)
FlagInv ==
    /\ singleUse \in BOOLEAN /\ csIsBusy \in BOOLEAN /\ recorded \in BOOLEAN
    /\ hasList \in BOOLEAN /\ spent \in BOOLEAN /\ stopped \in BOOLEAN
    /\ asleep \subseteq {"add", "sync"}
    /\ csPc \in {"lock", "wait", "exec", "stopped"}

ChunkTypes ==
    /\ alive \subseteq Chunks /\ pool \subseteq alive /\ single \subseteq alive
    /\ cmds \in [Chunks -> Seq(0 .. MaxCmds + 1)]
    /\ \A c \in Chunks : Len(cmds[c]) <= ChunkSize
    /\ refs \in [Chunks -> Nat]
    /\ csChunk \in Chunks \cup {NoChunk} /\ deferChunk \in Chunks
    /\ executing \in Chunks \cup {NoChunk}
    /\ deferList \in Seq(Chunks) /\ cmdList \in Seq(Chunks) /\ chunksQueued \in Seq(Chunks)

(* The immediate context has a chunk except while it allocates the next one. *)
HasChunk == csChunk = NoChunk <=> todo # <<>> /\ Head(todo) = "alloc"

(* The dxvk-cs thread holds a chunk when it executes and none when it waits. *)
ExecutingOK ==
    /\ csPc = "exec" => executing # NoChunk
    /\ csPc = "wait" => executing = NoChunk

(* Every reference has a holder. *)
One(c, x) == IF x = c THEN 1 ELSE 0
Holders(c) == One(c, csChunk) + One(c, deferChunk) + One(c, executing)
              + Occurrences(c, deferList) + Occurrences(c, cmdList)
              + Occurrences(c, chunksQueued)
Counted == \A c \in Chunks : refs[c] = Holders(c)

(* Chunks without a holder are the ones to allocate, and they are empty. *)
Pooled ==
    \A c \in Chunks :
        /\ refs[c] = 0 <=> c \notin alive \ pool
        /\ refs[c] = 0 => cmds[c] = <<>>

(* The chunk a context records into is in nobody else's hands. *)
Shared == Range(chunksQueued) \cup Range(deferList) \cup Range(cmdList) \cup {executing}
Private ==
    /\ csChunk # deferChunk /\ deferChunk \notin Shared
    /\ csChunk # NoChunk => csChunk \notin Shared

ChunkInv == ChunkTypes /\ HasChunk /\ ExecutingOK /\ Counted /\ Pooled /\ Private

PendingInv == chunksPending = Len(chunksQueued) + (IF executing = NoChunk THEN 0 ELSE 1)

IInv == FlagInv /\ TodoInv /\ ChunkInv /\ PendingInv

-----------------------------------------------------------------------------
(* Occurrences of a chunk in a queue *)

LEMMA OccType ==
  ASSUME NEW S, NEW s \in Seq(S), NEW c
  PROVE  /\ IsFiniteSet({i \in DOMAIN s : s[i] = c})
         /\ Occurrences(c, s) \in Nat
         /\ Occurrences(c, s) = 0 <=> c \notin Range(s)
<1> DEFINE I == {i \in DOMAIN s : s[i] = c}
<1>1. DOMAIN s = 1 .. Len(s) /\ Len(s) \in Nat
  OBVIOUS
<1>2. IsFiniteSet(1 .. Len(s)) /\ I \in SUBSET (1 .. Len(s))
  BY <1>1, FS_Interval
<1>3. IsFiniteSet(I)
  <2> HIDE DEF I
  <2> QED BY <1>2, FS_Subset
<1>4. Cardinality(I) \in Nat /\ (Cardinality(I) = 0 <=> I = {})
  <2> HIDE DEF I
  <2> QED BY <1>3, FS_CardinalityType, FS_EmptySet
<1>5. I = {} <=> c \notin Range(s)
  BY DEF Range
<1> QED BY <1>3, <1>4, <1>5 DEF Occurrences

LEMMA OccConcat ==
  ASSUME NEW S, NEW s \in Seq(S), NEW t \in Seq(S), NEW c
  PROVE  Occurrences(c, s \o t) = Occurrences(c, s) + Occurrences(c, t)
<1> DEFINE I == {i \in DOMAIN s : s[i] = c}
           J == {i \in DOMAIN t : t[i] = c}
           K == {i \in DOMAIN (s \o t) : (s \o t)[i] = c}
           M == {k \in K : k > Len(s)}
           f == [j \in J |-> j + Len(s)]
<1>1. /\ DOMAIN s = 1 .. Len(s) /\ DOMAIN t = 1 .. Len(t) /\ Len(s) \in Nat /\ Len(t) \in Nat
      /\ s \o t \in Seq(S) /\ DOMAIN (s \o t) = 1 .. Len(s) + Len(t)
      /\ \A i \in 1 .. Len(s) + Len(t) :
            (s \o t)[i] = IF i <= Len(s) THEN s[i] ELSE t[i - Len(s)]
  BY ConcatProperties
<1>2. IsFiniteSet(I) /\ IsFiniteSet(J)
  BY OccType
<1>3. ASSUME NEW i \in 1 .. Len(s) PROVE (s \o t)[i] = s[i] /\ i \in DOMAIN (s \o t)
  BY <1>1
<1>4. ASSUME NEW j \in 1 .. Len(t)
      PROVE  (s \o t)[j + Len(s)] = t[j] /\ j + Len(s) \in DOMAIN (s \o t) /\ j + Len(s) > Len(s)
  <2>1. j + Len(s) \in 1 .. Len(s) + Len(t) /\ j + Len(s) > Len(s) /\ (j + Len(s)) - Len(s) = j
        /\ ~(j + Len(s) <= Len(s))
    BY <1>1
  <2> QED BY <1>1, <2>1
<1>5. ASSUME NEW k \in DOMAIN (s \o t), k > Len(s) PROVE k - Len(s) \in 1 .. Len(t)
  BY <1>1, <1>5
<1>6. K = I \cup M
  BY <1>1, <1>3
<1>7. I \cap M = {}
  BY <1>1
<1>8. f \in Bijection(J, M)
  <2>1. f \in [J -> M]
    BY <1>1, <1>4
  <2>2. \A a, b \in J : f[a] = f[b] => a = b
    BY <1>1
  <2>3. ASSUME NEW m \in M PROVE \E j \in J : f[j] = m
    <3>1. m - Len(s) \in 1 .. Len(t) /\ (m - Len(s)) + Len(s) = m
      BY <1>1, <1>5
    <3>2. m - Len(s) \in J
      BY <1>1, <1>4, <3>1
    <3> QED BY <3>1, <3>2
  <2> QED BY <2>1, <2>2, <2>3 DEF Bijection, Injection, Surjection, IsInjective
<1> HIDE DEF I, J, K, M, f
<1>9. IsFiniteSet(M) /\ Cardinality(M) = Cardinality(J)
  BY <1>2, <1>8, FS_Bijection DEF ExistsBijection
<1>10. Cardinality(K) = Cardinality(I) + Cardinality(M)
  <2>1. Cardinality(I \cup M) = Cardinality(I) + Cardinality(M) - Cardinality(I \cap M)
    BY <1>2, <1>9, FS_Union
  <2>2. Cardinality(I) \in Nat /\ Cardinality(M) \in Nat /\ Cardinality(I \cap M) = 0
    BY <1>2, <1>7, <1>9, FS_CardinalityType, FS_EmptySet
  <2> QED BY <1>6, <2>1, <2>2
<1> QED BY <1>9, <1>10 DEF Occurrences, I, J, K

LEMMA OccSingle ==
  ASSUME NEW x, NEW c
  PROVE  Occurrences(c, <<x>>) = One(c, x)
<1> DEFINE I == {i \in DOMAIN <<x>> : <<x>>[i] = c}
<1>1. I = IF x = c THEN {1} ELSE {}
  OBVIOUS
<1>2. Cardinality({1}) = 1 /\ Cardinality({}) = 0
  BY FS_Singleton, FS_EmptySet
<1> QED BY <1>1, <1>2 DEF Occurrences, One

LEMMA OccPush ==
  ASSUME NEW S, NEW s \in Seq(S), NEW x \in S, NEW c
  PROVE  Occurrences(c, Append(s, x)) = Occurrences(c, s) + One(c, x)
<1>1. Append(s, x) = s \o <<x>> /\ <<x>> \in Seq(S)
  BY AppendIsConcat
<1> QED BY <1>1, OccConcat, OccSingle

LEMMA OccPop ==
  ASSUME NEW S, NEW s \in Seq(S), s # <<>>, NEW c
  PROVE  Occurrences(c, s) = One(c, Head(s)) + Occurrences(c, Tail(s))
<1>1. /\ Head(s) \in S /\ Tail(s) \in Seq(S) /\ Len(s) \in Nat \ {0}
      /\ Len(Tail(s)) = Len(s) - 1 /\ Head(s) = s[1]
      /\ \A i \in 1 .. Len(s) - 1 : Tail(s)[i] = s[i + 1]
  BY HeadTailProperties, EmptySeq
<1> DEFINE h == <<Head(s)>>
<1>2. h \in Seq(S) /\ Len(h) = 1 /\ h[1] = Head(s)
  BY <1>1
<1> HIDE DEF h
<1>3. /\ h \o Tail(s) \in Seq(S) /\ Len(h \o Tail(s)) = Len(s)
      /\ \A i \in 1 .. Len(s) : (h \o Tail(s))[i] = IF i <= 1 THEN h[i] ELSE Tail(s)[i - 1]
  <2>1. /\ h \o Tail(s) \in Seq(S) /\ Len(h \o Tail(s)) = Len(h) + Len(Tail(s))
        /\ \A i \in 1 .. Len(h) + Len(Tail(s)) :
              (h \o Tail(s))[i] = IF i <= Len(h) THEN h[i] ELSE Tail(s)[i - Len(h)]
    BY <1>1, <1>2, ConcatProperties
  <2>2. Len(h) + Len(Tail(s)) = Len(s)
    BY <1>1, <1>2
  <2> QED BY <1>2, <2>1, <2>2
<1>4. ASSUME NEW i \in 1 .. Len(s) PROVE (h \o Tail(s))[i] = s[i]
  <2>1. CASE i = 1
    BY <1>1, <1>2, <1>3, <2>1
  <2>2. CASE i # 1
    <3>1. i - 1 \in 1 .. Len(s) - 1 /\ (i - 1) + 1 = i /\ ~(i <= 1)
      BY <1>1, <2>2
    <3> QED BY <1>1, <1>3, <3>1
  <2> QED BY <2>1, <2>2
<1>5. s = h \o Tail(s)
  BY <1>3, <1>4, SeqEqual
<1>6. Occurrences(c, h \o Tail(s)) = Occurrences(c, h) + Occurrences(c, Tail(s))
  BY <1>1, <1>2, OccConcat
<1> QED BY <1>5, <1>6, OccSingle DEF h

LEMMA OccEmpty ==
  ASSUME NEW c
  PROVE  Occurrences(c, <<>>) = 0
<1>1. {i \in DOMAIN <<>> : <<>>[i] = c} = {}
  OBVIOUS
<1> QED BY <1>1, FS_EmptySet DEF Occurrences

-----------------------------------------------------------------------------
(* Programs *)

(* Every call is a program, and its steps keep what is left one. *)
LEMMA Programs ==
  /\ ProgramOK(<<>>) /\ ProgramOK(<<"emit">>) /\ ProgramOK(<<"flush">>)
  /\ ProgramOK(SyncProgram) /\ ProgramOK(DestroyProgram) /\ ProgramOK(ExecuteProgram)
  /\ "emit" \notin Range(<<"flush">>) /\ "emit" \notin Range(SyncProgram)
  /\ "emit" \notin Range(DestroyProgram) /\ "emit" \notin Range(<<>>)
  /\ "list" \notin Range(<<"flush">>) /\ "list" \notin Range(SyncProgram)
  /\ "list" \notin Range(DestroyProgram) /\ "list" \notin Range(<<"emit">>)
<1>1. ProgramOK(<<>>) /\ ProgramOK(<<"emit">>) /\ ProgramOK(<<"flush">>)
  BY DEF ProgramOK, StepNames
<1>2. ProgramOK(SyncProgram) /\ ProgramOK(DestroyProgram)
  BY DEF ProgramOK, StepNames, SyncProgram, DestroyProgram
<1>3. ProgramOK(ExecuteProgram)
  BY DEF ProgramOK, StepNames, ExecuteProgram
<1>4. /\ "emit" \notin Range(<<"flush">>) /\ "emit" \notin Range(SyncProgram)
      /\ "emit" \notin Range(DestroyProgram) /\ "emit" \notin Range(<<>>)
      /\ "list" \notin Range(<<"flush">>) /\ "list" \notin Range(SyncProgram)
      /\ "list" \notin Range(DestroyProgram) /\ "list" \notin Range(<<"emit">>)
  BY DEF Range, SyncProgram, DestroyProgram
<1> QED BY <1>1, <1>2, <1>3, <1>4

LEMMA ProgramTail ==
  ASSUME NEW s, ProgramOK(s), s # <<>>
  PROVE  /\ ProgramOK(Tail(s)) /\ Head(s) \in StepNames
         /\ Range(Tail(s)) \subseteq Range(s) /\ Head(s) \in Range(s)
         /\ "alloc" \notin Range(Tail(s))
         /\ Head(s) = "emit" => "emit" \notin Range(Tail(s))
<1>1. /\ s \in Seq(StepNames) /\ Head(s) \in StepNames /\ Tail(s) \in Seq(StepNames)
      /\ Len(s) \in Nat \ {0} /\ Len(Tail(s)) = Len(s) - 1 /\ Head(s) = s[1]
      /\ \A i \in 1 .. Len(s) - 1 : Tail(s)[i] = s[i + 1]
  BY HeadTailProperties, EmptySeq DEF ProgramOK
<1>2. DOMAIN Tail(s) = 1 .. Len(s) - 1 /\ DOMAIN s = 1 .. Len(s)
  BY <1>1
<1>3. ASSUME NEW i \in 1 .. Len(s) - 1
      PROVE  Tail(s)[i] # "alloc" /\ (s[1] = "emit" => Tail(s)[i] # "emit")
  <2>1. i + 1 \in 2 .. Len(s) /\ i + 1 # 1 /\ i + 1 \in 1 .. Len(s) /\ 1 \in 1 .. Len(s)
    BY <1>1
  <2> QED BY <1>1, <2>1 DEF ProgramOK
<1>4. \A i \in 2 .. Len(Tail(s)) : Tail(s)[i] # "alloc"
  BY <1>1, <1>3
<1>5. ASSUME NEW i \in 1 .. Len(Tail(s)), NEW j \in 1 .. Len(Tail(s)),
             Tail(s)[i] = "emit", Tail(s)[j] = "emit"
      PROVE  i = j
  <2>1. i + 1 \in 1 .. Len(s) /\ j + 1 \in 1 .. Len(s) /\ s[i + 1] = "emit" /\ s[j + 1] = "emit"
    BY <1>1, <1>5
  <2>2. i + 1 = j + 1
    BY <2>1 DEF ProgramOK
  <2> QED BY <1>1, <2>2
<1>6. ProgramOK(Tail(s))
  BY <1>1, <1>4, <1>5 DEF ProgramOK
<1>7. "alloc" \notin Range(Tail(s)) /\ (Head(s) = "emit" => "emit" \notin Range(Tail(s)))
  BY <1>1, <1>2, <1>3 DEF Range
<1> QED BY <1>1, <1>6, <1>7, PopRange

(* A step in front of a program without allocation, as dispatching puts it. *)
LEMMA ProgramCons ==
  ASSUME NEW s, ProgramOK(s), "alloc" \notin Range(s), NEW x \in StepNames \ {"emit"}
  PROVE  /\ ProgramOK(<<x>> \o s) /\ <<x>> \o s # <<>> /\ Head(<<x>> \o s) = x
         /\ Range(<<x>> \o s) = Range(s) \cup {x}
<1> DEFINE h == <<x>>
           t == h \o s
<1>1. h \in Seq(StepNames) /\ Len(h) = 1 /\ h[1] = x /\ s \in Seq(StepNames) /\ Len(s) \in Nat
  BY DEF ProgramOK
<1> HIDE DEF h
<1>2. /\ t \in Seq(StepNames) /\ Len(t) = Len(h) + Len(s)
      /\ \A i \in 1 .. Len(h) + Len(s) : t[i] = IF i <= Len(h) THEN h[i] ELSE s[i - Len(h)]
  BY <1>1, ConcatProperties
<1>3. Len(t) = Len(s) + 1 /\ t[1] = x
  BY <1>1, <1>2
<1> HIDE DEF t
<1>4. ASSUME NEW i \in 2 .. Len(t) PROVE t[i] = s[i - 1] /\ i - 1 \in 1 .. Len(s)
  <2>1. ~(i <= Len(h)) /\ i \in 1 .. Len(h) + Len(s) /\ i - Len(h) = i - 1 /\ i - 1 \in 1 .. Len(s)
    BY <1>1, <1>3
  <2> QED BY <1>2, <2>1
<1>5. DOMAIN s = 1 .. Len(s) /\ DOMAIN t = 1 .. Len(t)
  BY <1>1, <1>2
<1>6. \A i \in 2 .. Len(t) : t[i] # "alloc"
  BY <1>4, <1>5 DEF Range
<1>7. ASSUME NEW i \in 1 .. Len(t), NEW j \in 1 .. Len(t), t[i] = "emit", t[j] = "emit"
      PROVE  i = j
  <2>1. i # 1 /\ j # 1
    BY <1>3, <1>7
  <2>2. i \in 2 .. Len(t) /\ j \in 2 .. Len(t)
    BY <1>1, <1>3, <2>1
  <2>3. /\ s[i - 1] = "emit" /\ s[j - 1] = "emit"
        /\ i - 1 \in 1 .. Len(s) /\ j - 1 \in 1 .. Len(s)
    BY <1>4, <1>7, <2>2
  <2>4. i - 1 = j - 1
    BY <2>3 DEF ProgramOK
  <2> QED BY <2>2, <2>4
<1>8. ProgramOK(t)
  BY <1>2, <1>6, <1>7 DEF ProgramOK
<1>9. Range(t) = Range(s) \cup {x}
  <2>1. ASSUME NEW i \in 1 .. Len(t) PROVE t[i] \in Range(s) \cup {x}
    <3>1. i = 1 \/ i \in 2 .. Len(t)
      BY <1>1, <1>3
    <3> QED BY <1>3, <1>4, <1>5, <3>1 DEF Range
  <2>2. ASSUME NEW i \in 1 .. Len(s) PROVE s[i] \in Range(t)
    <3>1. i + 1 \in 2 .. Len(t) /\ (i + 1) - 1 = i /\ i + 1 \in DOMAIN t
      BY <1>1, <1>3, <1>5
    <3>2. t[i + 1] = s[i]
      BY <1>4, <3>1
    <3> QED BY <3>1, <3>2 DEF Range
  <2>3. x \in Range(t)
    BY <1>1, <1>3, <1>5 DEF Range
  <2> QED BY <1>5, <2>1, <2>2, <2>3 DEF Range
<1>10. t # <<>> /\ Head(t) = x
  <2>1. t # <<>>
    BY <1>1, <1>2, <1>3, EmptySeq
  <2> QED BY <1>2, <1>3, <2>1, HeadTailProperties
<1> QED BY <1>8, <1>9, <1>10 DEF t, h

LEMMA ProgramFlush ==
  ASSUME NEW s, ProgramOK(s), "alloc" \notin Range(s)
  PROVE  /\ ProgramOK(FlushProgram \o s) /\ FlushProgram \o s # <<>>
         /\ Head(FlushProgram \o s) = "emitFlush"
         /\ Range(FlushProgram \o s) = Range(s) \cup {"emitFlush", "dispatch", "notBusy"}
<1> DEFINE a == <<"emitFlush">>
           b == <<"dispatch">>
           c == <<"notBusy">>
<1>1. a \in Seq(StepNames) /\ b \in Seq(StepNames) /\ c \in Seq(StepNames)
      /\ s \in Seq(StepNames)
  BY DEF ProgramOK, StepNames
<1>2. FlushProgram = a \o (b \o c)
  BY DEF FlushProgram
<1>3. {"emitFlush", "dispatch", "notBusy"} \subseteq StepNames \ {"emit"}
  BY DEF StepNames
<1>4. ProgramOK(c \o s) /\ Range(c \o s) = Range(s) \cup {"notBusy"}
  BY <1>3, ProgramCons
<1>5. ProgramOK(b \o (c \o s)) /\ Range(b \o (c \o s)) = Range(s) \cup {"notBusy", "dispatch"}
  <2>1. "alloc" \notin Range(c \o s)
    BY <1>4
  <2>2. /\ ProgramOK(b \o (c \o s))
        /\ Range(b \o (c \o s)) = Range(c \o s) \cup {"dispatch"}
    BY <1>3, <1>4, <2>1, ProgramCons
  <2> QED BY <1>4, <2>2
<1>6. /\ ProgramOK(a \o (b \o (c \o s))) /\ a \o (b \o (c \o s)) # <<>>
      /\ Head(a \o (b \o (c \o s))) = "emitFlush"
      /\ Range(a \o (b \o (c \o s))) = Range(s) \cup {"notBusy", "dispatch", "emitFlush"}
  <2>1. "alloc" \notin Range(b \o (c \o s))
    BY <1>5
  <2>2. /\ ProgramOK(a \o (b \o (c \o s))) /\ a \o (b \o (c \o s)) # <<>>
        /\ Head(a \o (b \o (c \o s))) = "emitFlush"
        /\ Range(a \o (b \o (c \o s))) = Range(b \o (c \o s)) \cup {"emitFlush"}
    BY <1>3, <1>5, <2>1, ProgramCons
  <2> QED BY <1>5, <2>2
<1> HIDE DEF a, b, c
<1>7. FlushProgram \o s = a \o (b \o (c \o s))
  <2>1. b \o c \in Seq(StepNames)
    BY <1>1, ConcatProperties
  <2>2. (b \o c) \o s = b \o (c \o s)
    BY <1>1, ConcatAssociative
  <2> DEFINE d == b \o c
  <2>3. d \in Seq(StepNames)
    BY <2>1
  <2> HIDE DEF d
  <2>4. (a \o d) \o s = a \o (d \o s)
    BY <1>1, <2>3, ConcatAssociative
  <2> QED BY <1>2, <2>2, <2>4 DEF d
<1> QED BY <1>6, <1>7

(* Which steps move the application's call forward. *)
LEMMA TodoFrame ==
  [Next]_vars =>
    \/ UNCHANGED <<todo, numCmds, hasList, nextChunk, cmdList, csChunk>>
    \/ Call \/ AllocCsChunk \/ EmitCs \/ FlushCsChunk \/ DeviceFlush \/ SetBusy
    \/ Synchronize \/ ExecuteCommandList \/ Stop \/ ReleaseCommandList
    \/ DeferEmit \/ FinishCommandList
  BY DEF Next, AppStep, DeferStep, CsStep, vars, chunkVars, deferVars, listVars, csVars,
         boundVars, EmitToCommandList, CsLock, CsWake, ExecuteAll, Terminated

(* The next step of the program is done. *)
LEMMA PopKeepsTodo ==
  ASSUME TodoInv, todo # <<>>, todo' = Tail(todo), nextChunk' = 1,
         UNCHANGED <<cmdList, hasList>>,
         UNCHANGED numCmds \/ (Head(todo) = "emit" /\ numCmds' = numCmds + 1)
  PROVE  TodoInv' /\ ~(todo' # <<>> /\ Head(todo') = "alloc")
<1>1. /\ ProgramOK(Tail(todo)) /\ Range(Tail(todo)) \subseteq Range(todo)
      /\ Head(todo) \in Range(todo) /\ "alloc" \notin Range(Tail(todo))
      /\ Head(todo) = "emit" => "emit" \notin Range(Tail(todo))
  BY ProgramTail DEF TodoInv
<1>2. ProgramOK(todo)'
  BY <1>1 DEF ProgramOK
<1>3. CommandsBounded'
  BY <1>1, StreamAssumption DEF TodoInv, CommandsBounded
<1>4. ListKept'
  <2>1. cmdList \in Seq(Chunks) /\ Len(cmdList) \in Nat
    BY DEF TodoInv, ListKept
  <2> QED BY <1>1, <2>1 DEF TodoInv, ListKept
<1>5. ~(todo' # <<>> /\ Head(todo') = "alloc")
  <2>1. Tail(todo) # <<>> => Head(Tail(todo)) \in Range(Tail(todo))
    BY <1>1, ProgramTail
  <2> QED BY <1>1, <2>1
<1> QED BY <1>2, <1>3, <1>4, <1>5 DEF TodoInv

(* A step is put in front of a part of the program. *)
LEMMA PushKeepsTodo ==
  ASSUME TodoInv, NEW r, ProgramOK(r), "alloc" \notin Range(r), Range(r) \subseteq Range(todo),
         NEW x \in {"alloc", "wait"}, todo' = <<x>> \o r, nextChunk = 1,
         UNCHANGED <<numCmds, cmdList, hasList, nextChunk>>
  PROVE  TodoInv' /\ todo' # <<>> /\ Head(todo') = x
<1>1. x \in StepNames \ {"emit"}
  BY DEF StepNames
<1>2. /\ ProgramOK(<<x>> \o r) /\ <<x>> \o r # <<>> /\ Head(<<x>> \o r) = x
      /\ Range(<<x>> \o r) = Range(r) \cup {x}
  BY <1>1, ProgramCons
<1> DEFINE n == <<x>> \o r
<1>3. /\ ProgramOK(n) /\ n # <<>> /\ Head(n) = x /\ Range(n) = Range(r) \cup {x} /\ todo' = n
  BY <1>2
<1> HIDE DEF n
<1>4. ProgramOK(todo)'
  BY <1>3 DEF ProgramOK
<1>5. "emit" \in Range(n) => "emit" \in Range(todo)
  BY <1>3
<1>6. "list" \in Range(n) => "list" \in Range(todo)
  BY <1>3
<1>7. CommandsBounded'
  BY <1>3, <1>5 DEF TodoInv, CommandsBounded
<1>8. ListKept'
  BY <1>3, <1>6 DEF TodoInv, ListKept
<1> QED BY <1>3, <1>4, <1>7, <1>8 DEF TodoInv

(* Dispatching a chunk makes the allocation of the next one the next step. *)
LEMMA DispatchKeepsTodo ==
  ASSUME TodoInv, NEW r \in {todo, Tail(todo)}, DispatchCsChunk(r),
         todo # <<>>, Head(todo) \in {"emit", "emitFlush", "dispatch"}
  PROVE  TodoInv' /\ HasChunk'
<1>1. /\ todo' = <<"alloc">> \o r /\ csChunk' = NoChunk
      /\ UNCHANGED <<numCmds, cmdList, hasList, nextChunk>>
  BY DEF DispatchCsChunk, listVars, boundVars
<1>2. ProgramOK(todo) /\ nextChunk = 1
  BY DEF TodoInv, ListKept
<1>3. /\ ProgramOK(Tail(todo)) /\ "alloc" \notin Range(Tail(todo))
      /\ Range(Tail(todo)) \subseteq Range(todo) /\ todo \in Seq(StepNames)
  BY <1>2, ProgramTail DEF ProgramOK
<1>4. "alloc" \notin Range(todo)
  <2>1. Range(todo) = Range(Tail(todo)) \cup {Head(todo)}
    BY <1>3, PopRange
  <2> QED BY <1>3, <2>1
<1>5. ProgramOK(r) /\ "alloc" \notin Range(r) /\ Range(r) \subseteq Range(todo)
  BY <1>2, <1>3, <1>4
<1>6. TodoInv' /\ todo' # <<>> /\ Head(todo') = "alloc"
  BY <1>1, <1>2, <1>5, PushKeepsTodo
<1> QED BY <1>1, <1>6 DEF HasChunk

LEMMA TodoStep ==
  ASSUME TodoInv, HasChunk, ChunkTypes, [Next]_vars
  PROVE  TodoInv' /\ HasChunk'
<1> USE DEF chunkVars, deferVars, listVars, csVars, boundVars
<1>1. CASE UNCHANGED <<todo, numCmds, hasList, nextChunk, cmdList, csChunk>>
  <2>1. CommandsBounded' /\ ListKept'
    BY <1>1 DEF TodoInv, CommandsBounded, ListKept
  <2>2. ProgramOK(todo)' /\ HasChunk'
    BY <1>1 DEF TodoInv, ProgramOK, HasChunk
  <2> QED BY <2>1, <2>2 DEF TodoInv
<1>2. CASE Call
  <2>1. /\ todo = <<>> /\ UNCHANGED <<numCmds, hasList, nextChunk, cmdList, csChunk>>
        /\ \/ todo' = <<"emit">> /\ numCmds < MaxCmds
           \/ todo' \in {<<"flush">>, SyncProgram, DestroyProgram}
           \/ todo' = ExecuteProgram /\ numCmds < MaxCmds /\ hasList
    BY <1>2 DEF Call, Executable
  <2>2. todo' # <<>> /\ Head(todo') # "alloc"
    BY <2>1 DEF SyncProgram, DestroyProgram, ExecuteProgram
  <2>3. HasChunk'
    BY <2>1, <2>2 DEF HasChunk
  <2>4. ProgramOK(todo)'
    <3>1. ProgramOK(todo')
      BY <2>1, Programs
    <3> QED BY <3>1 DEF ProgramOK
  <2>5. CommandsBounded'
    BY <2>1, Programs, StreamAssumption DEF TodoInv, CommandsBounded
  <2>6. ListKept'
    BY <2>1, Programs DEF TodoInv, ListKept
  <2> QED BY <2>3, <2>4, <2>5, <2>6 DEF TodoInv
<1>3. CASE AllocCsChunk
  <2>1. /\ todo # <<>> /\ Head(todo) = "alloc" /\ todo' = Tail(todo) /\ csChunk' \in Chunks
        /\ UNCHANGED <<numCmds, hasList, nextChunk, cmdList>>
    BY <1>3 DEF AllocCsChunk
  <2>2. nextChunk' = 1
    BY <2>1 DEF TodoInv, ListKept
  <2>3. TodoInv' /\ ~(todo' # <<>> /\ Head(todo') = "alloc")
    BY <2>1, <2>2, PopKeepsTodo
  <2> QED BY <2>1, <2>3, StreamAssumption DEF HasChunk
<1>4. ASSUME todo # <<>>, todo' = Tail(todo), Head(todo) # "alloc", Head(todo) # "list",
             UNCHANGED <<hasList, nextChunk, cmdList, csChunk>>,
             UNCHANGED numCmds \/ (Head(todo) = "emit" /\ numCmds' = numCmds + 1)
      PROVE  TodoInv' /\ HasChunk'
  <2>1. nextChunk' = 1
    BY <1>4 DEF TodoInv, ListKept
  <2>2. TodoInv' /\ ~(todo' # <<>> /\ Head(todo') = "alloc")
    BY <1>4, <2>1, PopKeepsTodo
  <2> QED BY <1>4, <2>2 DEF HasChunk
<1>5. CASE EmitCs
  <2>1. todo # <<>> /\ Head(todo) \in {"emit", "emitFlush"}
    BY <1>5 DEF EmitCs
  <2>2. CASE Full(csChunk)
    BY <1>5, <2>1, <2>2, DispatchKeepsTodo DEF EmitCs
  <2>3. CASE ~Full(csChunk)
    <3>1. /\ todo' = Tail(todo) /\ UNCHANGED <<hasList, nextChunk, cmdList, csChunk>>
          /\ UNCHANGED numCmds \/ (Head(todo) = "emit" /\ numCmds' = numCmds + 1)
      BY <1>5, <2>3 DEF EmitCs
    <3> QED BY <1>4, <2>1, <3>1
  <2> QED BY <2>2, <2>3
<1>6. CASE FlushCsChunk
  <2>1. todo # <<>> /\ Head(todo) = "dispatch"
    BY <1>6 DEF FlushCsChunk
  <2>2. CASE cmds[csChunk] # <<>>
    BY <1>6, <2>1, <2>2, DispatchKeepsTodo DEF FlushCsChunk
  <2>3. CASE cmds[csChunk] = <<>>
    BY <1>4, <1>6, <2>1, <2>3 DEF FlushCsChunk
  <2> QED BY <2>2, <2>3
<1>7. CASE DeviceFlush
  <2>1. /\ todo # <<>> /\ Head(todo) \in {"flush", "maybeFlush"}
        /\ UNCHANGED <<numCmds, hasList, nextChunk, cmdList, csChunk>>
        /\ todo' \in {FlushProgram \o Tail(todo), Tail(todo)}
    BY <1>7 DEF DeviceFlush
  <2>2. CASE todo' = Tail(todo)
    BY <1>4, <2>1, <2>2
  <2>3. CASE todo' = FlushProgram \o Tail(todo)
    <3> DEFINE n == FlushProgram \o Tail(todo)
    <3>1. /\ ProgramOK(Tail(todo)) /\ "alloc" \notin Range(Tail(todo))
          /\ Range(Tail(todo)) \subseteq Range(todo)
      BY <2>1, ProgramTail DEF TodoInv
    <3>2. /\ ProgramOK(n) /\ n # <<>> /\ Head(n) = "emitFlush"
          /\ Range(n) = Range(Tail(todo)) \cup {"emitFlush", "dispatch", "notBusy"}
      BY <3>1, ProgramFlush
    <3>3. todo' = n
      BY <2>3
    <3> HIDE DEF n
    <3>4. ProgramOK(todo)' /\ HasChunk'
      BY <2>1, <3>2, <3>3 DEF ProgramOK, HasChunk
    <3>5. CommandsBounded'
      BY <2>1, <3>1, <3>2, <3>3 DEF TodoInv, CommandsBounded
    <3>6. ListKept'
      BY <2>1, <3>1, <3>2, <3>3 DEF TodoInv, ListKept
    <3> QED BY <3>4, <3>5, <3>6 DEF TodoInv
  <2> QED BY <2>1, <2>2, <2>3
<1>8. CASE SetBusy \/ Stop
  BY <1>4, <1>8 DEF SetBusy, Stop
<1>9. CASE Synchronize
  <2>1. /\ todo # <<>> /\ Head(todo) \in {"sync", "wait"}
        /\ UNCHANGED <<numCmds, hasList, nextChunk, cmdList, csChunk>>
        /\ todo' \in {todo, Tail(todo), <<"wait">> \o Tail(todo)}
    BY <1>9 DEF Synchronize
  <2>2. CASE todo' = todo
    BY <1>1, <2>1, <2>2
  <2>3. CASE todo' = Tail(todo)
    BY <1>4, <2>1, <2>3
  <2>4. CASE todo' = <<"wait">> \o Tail(todo)
    <3>1. /\ ProgramOK(Tail(todo)) /\ "alloc" \notin Range(Tail(todo))
          /\ Range(Tail(todo)) \subseteq Range(todo) /\ nextChunk = 1
      BY <2>1, ProgramTail DEF TodoInv, ListKept
    <3>2. TodoInv' /\ todo' # <<>> /\ Head(todo') = "wait"
      BY <2>1, <2>4, <3>1, PushKeepsTodo
    <3> QED BY <2>1, <3>2 DEF HasChunk
  <2> QED BY <2>1, <2>2, <2>3, <2>4
<1>10. CASE ExecuteCommandList
  <2>1. todo # <<>> /\ Head(todo) = "list" /\ UNCHANGED <<numCmds, hasList, cmdList, csChunk>>
    BY <1>10 DEF ExecuteCommandList
  <2>2. CASE nextChunk <= Len(cmdList)
    <3>1. nextChunk' = nextChunk + 1 /\ todo' = todo
      BY <1>10, <2>2 DEF ExecuteCommandList
    <3>2. nextChunk + 1 \in 1 .. Len(cmdList) + 1
      <4>1. cmdList \in Seq(Chunks) /\ Len(cmdList) \in Nat
        BY DEF TodoInv, ListKept
      <4> QED BY <2>2, <4>1 DEF TodoInv, ListKept
    <3>3. ListKept'
      BY <2>1, <3>1, <3>2 DEF TodoInv, ListKept
    <3>4. CommandsBounded' /\ ProgramOK(todo)' /\ HasChunk'
      BY <2>1, <3>1 DEF TodoInv, CommandsBounded, ProgramOK, HasChunk
    <3> QED BY <3>3, <3>4 DEF TodoInv
  <2>3. CASE ~(nextChunk <= Len(cmdList))
    <3>1. nextChunk' = 1 /\ todo' = Tail(todo)
      BY <1>10, <2>3 DEF ExecuteCommandList
    <3>2. TodoInv' /\ ~(todo' # <<>> /\ Head(todo') = "alloc")
      BY <2>1, <3>1, PopKeepsTodo
    <3> QED BY <2>1, <3>2 DEF HasChunk
  <2> QED BY <2>2, <2>3
<1>11. CASE ReleaseCommandList
  <2>1. /\ todo = <<>> /\ cmdList' = <<>> /\ hasList' = FALSE
        /\ UNCHANGED <<todo, numCmds, nextChunk, csChunk>>
    BY <1>11 DEF ReleaseCommandList
  <2>2. "list" \notin Range(todo)
    BY <2>1 DEF Range
  <2>3. nextChunk = 1 /\ Len(<<>>) = 0 /\ <<>> \in Seq(Chunks)
    BY <2>1 DEF TodoInv, ListKept
  <2>4. ListKept'
    BY <2>1, <2>2, <2>3 DEF ListKept
  <2>5. CommandsBounded' /\ ProgramOK(todo)' /\ HasChunk'
    BY <2>1 DEF TodoInv, CommandsBounded, ProgramOK, HasChunk
  <2> QED BY <2>4, <2>5 DEF TodoInv
<1>12. CASE DeferEmit
  <2>1. /\ numCmds < MaxCmds /\ numCmds' = numCmds + 1
        /\ UNCHANGED <<todo, hasList, nextChunk, cmdList, csChunk>>
    BY <1>12 DEF DeferEmit
  <2>2. CommandsBounded'
    BY <2>1, StreamAssumption DEF TodoInv, CommandsBounded
  <2>3. ListKept' /\ ProgramOK(todo)' /\ HasChunk'
    BY <2>1 DEF TodoInv, ListKept, ProgramOK, HasChunk
  <2> QED BY <2>2, <2>3 DEF TodoInv
<1>13. CASE FinishCommandList
  <2>1. /\ ~hasList /\ hasList' = TRUE /\ cmdList' = Flushed
        /\ UNCHANGED <<todo, numCmds, nextChunk, csChunk>>
    BY <1>13 DEF FinishCommandList
  <2>2. Flushed \in Seq(Chunks)
    BY DEF Flushed, ChunkTypes
  <2>3. nextChunk = 1
    <3>1. todo # <<>> => Head(todo) \in Range(todo)
      BY ProgramTail DEF TodoInv
    <3> QED BY <2>1, <3>1 DEF TodoInv, ListKept
  <2>4. nextChunk \in 1 .. Len(Flushed) + 1
    BY <2>2, <2>3
  <2>5. ListKept'
    BY <2>1, <2>2, <2>3, <2>4 DEF ListKept
  <2>6. CommandsBounded' /\ ProgramOK(todo)' /\ HasChunk'
    BY <2>1 DEF TodoInv, CommandsBounded, ProgramOK, HasChunk
  <2> QED BY <2>5, <2>6 DEF TodoInv
<1> QED BY <1>1, <1>2, <1>3, <1>5, <1>6, <1>7, <1>8, <1>9, <1>10, <1>11, <1>12, <1>13, TodoFrame

LEMMA FlagStep ==
  ASSUME FlagInv, [Next]_vars
  PROVE  FlagInv'
<1>1. /\ singleUse' = singleUse /\ csIsBusy' \in BOOLEAN /\ hasList' \in BOOLEAN
      /\ spent' \in BOOLEAN /\ stopped' \in BOOLEAN
  BY DEF FlagInv, Next, AppStep, DeferStep, CsStep, vars, chunkVars, deferVars, listVars,
         csVars, boundVars, Call, AllocCsChunk, EmitCs, DispatchCsChunk, FlushCsChunk,
         DeviceFlush, SetBusy, MarkBusy, Synchronize, ExecuteCommandList, Stop,
         ReleaseCommandList, DeferEmit, FinishCommandList, EmitToCommandList, CsLock,
         CsWake, ExecuteAll, Terminated
<1>2. recorded' \in BOOLEAN
  BY DEF FlagInv, Next, AppStep, DeferStep, CsStep, vars, chunkVars, deferVars, listVars,
         csVars, boundVars, Call, AllocCsChunk, EmitCs, DispatchCsChunk, FlushCsChunk,
         DeviceFlush, SetBusy, MarkBusy, Synchronize, ExecuteCommandList, Stop,
         ReleaseCommandList, DeferEmit, FinishCommandList, EmitToCommandList, CsLock,
         CsWake, ExecuteAll, Terminated
<1>3. asleep' \subseteq {"add", "sync"}
  BY DEF FlagInv, Next, AppStep, DeferStep, CsStep, vars, chunkVars, deferVars, listVars,
         csVars, boundVars, Call, AllocCsChunk, EmitCs, DispatchCsChunk, FlushCsChunk,
         DeviceFlush, SetBusy, MarkBusy, Synchronize, ExecuteCommandList, Stop,
         ReleaseCommandList, DeferEmit, FinishCommandList, EmitToCommandList, CsLock,
         CsWake, ExecuteAll, Terminated
<1>4. csPc' \in {"lock", "wait", "exec", "stopped"}
  BY DEF FlagInv, Next, AppStep, DeferStep, CsStep, vars, chunkVars, deferVars, listVars,
         csVars, boundVars, Call, AllocCsChunk, EmitCs, DispatchCsChunk, FlushCsChunk,
         DeviceFlush, SetBusy, MarkBusy, Synchronize, ExecuteCommandList, Stop,
         ReleaseCommandList, DeferEmit, FinishCommandList, EmitToCommandList, CsLock,
         CsWake, ExecuteAll, Terminated, TakeChunk, NextTurn
<1> QED BY <1>1, <1>2, <1>3, <1>4 DEF FlagInv

-----------------------------------------------------------------------------
(* Chunks *)

LEMMA HolderTypes ==
  ASSUME ChunkTypes, NEW c
  PROVE  /\ Occurrences(c, deferList) \in Nat /\ Occurrences(c, cmdList) \in Nat
         /\ Occurrences(c, chunksQueued) \in Nat
         /\ One(c, csChunk) \in Nat /\ One(c, deferChunk) \in Nat /\ One(c, executing) \in Nat
         /\ Occurrences(c, deferList) = 0 <=> c \notin Range(deferList)
         /\ Occurrences(c, cmdList) = 0 <=> c \notin Range(cmdList)
         /\ Occurrences(c, chunksQueued) = 0 <=> c \notin Range(chunksQueued)
  BY OccType DEF ChunkTypes, One

(* A chunk whose count is zero is held by nobody. *)
LEMMA Unheld ==
  ASSUME ChunkTypes, Counted, NEW c \in Chunks
  PROVE  refs[c] = 0 <=> c \notin Shared \cup {csChunk, deferChunk}
<1>1. /\ Occurrences(c, deferList) \in Nat /\ Occurrences(c, cmdList) \in Nat
      /\ Occurrences(c, chunksQueued) \in Nat
      /\ One(c, csChunk) \in Nat /\ One(c, deferChunk) \in Nat /\ One(c, executing) \in Nat
      /\ Occurrences(c, deferList) = 0 <=> c \notin Range(deferList)
      /\ Occurrences(c, cmdList) = 0 <=> c \notin Range(cmdList)
      /\ Occurrences(c, chunksQueued) = 0 <=> c \notin Range(chunksQueued)
  BY HolderTypes
<1>2. refs[c] = 0 <=>
         /\ One(c, csChunk) = 0 /\ One(c, deferChunk) = 0 /\ One(c, executing) = 0
         /\ Occurrences(c, deferList) = 0 /\ Occurrences(c, cmdList) = 0
         /\ Occurrences(c, chunksQueued) = 0
  <2> DEFINE m == One(c, csChunk)
             n == One(c, deferChunk)
             o == One(c, executing)
             p == Occurrences(c, deferList)
             q == Occurrences(c, cmdList)
             r == Occurrences(c, chunksQueued)
  <2>1. refs[c] = m + n + o + p + q + r
    BY DEF Counted, Holders
  <2>2. m \in Nat /\ n \in Nat /\ o \in Nat /\ p \in Nat /\ q \in Nat /\ r \in Nat
    BY <1>1
  <2> HIDE DEF m, n, o, p, q, r
  <2>3. refs[c] = 0 <=> m = 0 /\ n = 0 /\ o = 0 /\ p = 0 /\ q = 0 /\ r = 0
    BY <2>1, <2>2
  <2> QED BY <2>3 DEF m, n, o, p, q, r
<1> QED BY <1>1, <1>2 DEF One, Shared

(* allocChunk returns a chunk nobody holds, and takes it from the pool. *)
LEMMA AllocFresh ==
  ASSUME ChunkTypes, Pooled, NEW c, NEW b \in BOOLEAN, NEW held \in [Chunks -> Nat],
         \A k \in Chunks : held[k] = 0 <=> refs[k] = 0,
         Alloc(c, b, held)
  PROVE  /\ c \in Chunks /\ refs[c] = 0 /\ cmds[c] = <<>>
         /\ alive' \subseteq Chunks /\ pool' \subseteq alive' /\ single' \subseteq alive'
         /\ refs' \in [Chunks -> Nat]
         /\ \A k \in Chunks : refs'[k] = held[k] + One(k, c)
         /\ \A k \in Chunks : refs'[k] = 0 <=> k \notin alive' \ pool'
<1>1. /\ IF pool # {} THEN c \in pool ELSE c \in Chunks \ alive
      /\ pool' = pool \ {c} /\ alive' = alive \cup {c}
      /\ refs' = [held EXCEPT ![c] = 1]
      /\ single' = IF b THEN single \cup {c} ELSE single \ {c}
  BY DEF Alloc
<1>2. c \in Chunks /\ c \notin alive \ pool
  BY <1>1 DEF ChunkTypes
<1>3. refs[c] = 0 /\ cmds[c] = <<>> /\ held[c] = 0
  BY <1>2 DEF Pooled
<1>4. alive' \subseteq Chunks /\ pool' \subseteq alive' /\ single' \subseteq alive'
  BY <1>1, <1>2 DEF ChunkTypes
<1>5. /\ refs' \in [Chunks -> Nat]
      /\ \A k \in Chunks : refs'[k] = IF k = c THEN 1 ELSE held[k]
  BY <1>1, <1>2
<1>6. \A k \in Chunks : refs'[k] = held[k] + One(k, c)
  BY <1>3, <1>5 DEF One
<1>7. ASSUME NEW k \in Chunks PROVE refs'[k] = 0 <=> k \notin alive' \ pool'
  <2>1. CASE k = c
    BY <1>1, <1>5, <2>1
  <2>2. CASE k # c
    BY <1>1, <1>5, <2>2 DEF Pooled
  <2> QED BY <2>1, <2>2
<1> QED BY <1>2, <1>3, <1>4, <1>5, <1>6, <1>7

(* Dropping references pools the chunks that lose their last one. *)
LEMMA ReleasePools ==
  ASSUME ChunkTypes, Pooled, NEW s \in Seq(Chunks), Release(s), UNCHANGED alive,
         \A c \in Chunks : Occurrences(c, s) <= refs[c]
  PROVE  /\ refs' \in [Chunks -> Nat] /\ pool' \subseteq alive /\ Pooled'
         /\ \A c \in Chunks : refs'[c] = refs[c] - Occurrences(c, s)
         /\ cmds' \in [Chunks -> Seq(0 .. MaxCmds + 1)]
         /\ \A c \in Chunks : Len(cmds'[c]) <= ChunkSize
<1> DEFINE left == [c \in Chunks |-> refs[c] - Occurrences(c, s)]
           free == {c \in Chunks : c \in Range(s) /\ Unreferenced(left[c])}
<1>1. refs' = left /\ pool' = pool \cup free
      /\ cmds' = [c \in Chunks |-> IF c \in free THEN <<>> ELSE cmds[c]]
  BY DEF Release
<1>2. ASSUME NEW c \in Chunks
      PROVE  /\ Occurrences(c, s) \in Nat /\ (Occurrences(c, s) = 0 <=> c \notin Range(s))
             /\ left[c] = refs[c] - Occurrences(c, s) /\ left[c] \in Nat /\ refs[c] \in Nat
             /\ c \in free <=> c \in Range(s) /\ left[c] = 0
  <2>1. Occurrences(c, s) \in Nat /\ (Occurrences(c, s) = 0 <=> c \notin Range(s))
    BY OccType
  <2>2. refs[c] \in Nat /\ Occurrences(c, s) <= refs[c]
    BY DEF ChunkTypes
  <2> QED BY <2>1, <2>2 DEF Unreferenced
<1>3. \A c \in Chunks : left[c] = 0 <=> c \in free \/ refs[c] = 0
  BY <1>2
<1>4. free \subseteq alive
  <2>1. ASSUME NEW c \in free PROVE c \in alive
    <3>1. c \in Chunks /\ refs[c] # 0
      BY <1>2, <2>1
    <3> QED BY <3>1 DEF Pooled
  <2> QED BY <2>1
<1>5. left \in [Chunks -> Nat]
  BY <1>2
<1> HIDE DEF left, free
<1>6. ASSUME NEW c \in Chunks
      PROVE  /\ refs'[c] = 0 <=> c \notin alive \ pool'
             /\ refs'[c] = 0 => cmds'[c] = <<>>
  BY <1>1, <1>3 DEF Pooled
<1>7. Pooled'
  BY <1>6 DEF Pooled
<1>8. pool' \subseteq alive
  BY <1>1, <1>4 DEF ChunkTypes
<1>9. ASSUME NEW c \in Chunks
      PROVE  cmds'[c] \in Seq(0 .. MaxCmds + 1) /\ Len(cmds'[c]) <= ChunkSize
  <2>1. cmds'[c] = <<>> \/ cmds'[c] = cmds[c]
    BY <1>1
  <2>2. <<>> \in Seq(0 .. MaxCmds + 1) /\ Len(<<>>) <= ChunkSize
    BY StreamAssumption
  <2> QED BY <2>1, <2>2 DEF ChunkTypes
<1>10. cmds' \in [Chunks -> Seq(0 .. MaxCmds + 1)]
  BY <1>1, <1>9
<1> QED BY <1>1, <1>2, <1>5, <1>7, <1>8, <1>9, <1>10

LEMMA SharedTypes ==
  ASSUME ChunkTypes
  PROVE  /\ \A c \in Range(chunksQueued) \cup Range(deferList) \cup Range(cmdList) : c \in Chunks
         /\ deferChunk # NoChunk /\ \A c \in Chunks : One(c, NoChunk) = 0
  BY SeqRange, StreamAssumption DEF ChunkTypes, One

(* A full chunk, or one to be flushed, moves to the queue. *)
LEMMA DispatchKeepsChunks ==
  ASSUME ChunkInv, NEW r, DispatchCsChunk(r), csChunk # NoChunk
  PROVE  ChunkTypes' /\ ExecutingOK' /\ Counted' /\ Pooled' /\ Private'
<1>1. /\ chunksQueued' = Append(chunksQueued, csChunk) /\ csChunk' = NoChunk
      /\ UNCHANGED <<alive, pool, cmds, single, refs, deferChunk, deferList, cmdList,
                     executing, csPc>>
  BY DEF DispatchCsChunk, chunkVars, deferVars, listVars, csVars
<1>2. csChunk \in Chunks /\ chunksQueued \in Seq(Chunks)
  BY DEF ChunkInv, ChunkTypes
<1>3. /\ chunksQueued' \in Seq(Chunks) /\ Range(chunksQueued') = Range(chunksQueued) \cup {csChunk}
  BY <1>1, <1>2, PushRange
<1>4. ChunkTypes'
  BY <1>1, <1>3 DEF ChunkInv, ChunkTypes
<1>5. ExecutingOK' /\ Pooled'
  BY <1>1 DEF ChunkInv, ExecutingOK, Pooled
<1>6. Private'
  <2>1. deferChunk # csChunk /\ deferChunk \notin Shared /\ deferChunk # NoChunk
    BY SharedTypes DEF ChunkInv, Private
  <2>2. Shared' = Shared \cup {csChunk}
    BY <1>1, <1>3 DEF Shared
  <2> QED BY <1>1, <2>1, <2>2 DEF Private
<1>7. ASSUME NEW c \in Chunks PROVE refs'[c] = Holders(c)'
  <2>1. Occurrences(c, chunksQueued') = Occurrences(c, chunksQueued) + One(c, csChunk)
    BY <1>1, <1>2, OccPush
  <2>2. One(c, csChunk') = 0
    BY <1>1, SharedTypes DEF ChunkInv
  <2>3. /\ Occurrences(c, deferList) \in Nat /\ Occurrences(c, cmdList) \in Nat
        /\ Occurrences(c, chunksQueued) \in Nat
        /\ One(c, csChunk) \in Nat /\ One(c, deferChunk) \in Nat /\ One(c, executing) \in Nat
    BY HolderTypes DEF ChunkInv
  <2>4. refs[c] = One(c, csChunk) + One(c, deferChunk) + One(c, executing)
                  + Occurrences(c, deferList) + Occurrences(c, cmdList)
                  + Occurrences(c, chunksQueued)
    BY DEF ChunkInv, Counted, Holders
  <2>5. Holders(c)' = One(c, csChunk') + One(c, deferChunk) + One(c, executing)
                      + Occurrences(c, deferList) + Occurrences(c, cmdList)
                      + Occurrences(c, chunksQueued')
    BY <1>1 DEF Holders
  <2> QED BY <1>1, <2>1, <2>2, <2>3, <2>4, <2>5
<1>8. Counted'
  BY <1>7 DEF Counted
<1> QED BY <1>4, <1>5, <1>6, <1>8

LEMMA AllocKeepsChunks ==
  ASSUME ChunkInv, AllocCsChunk
  PROVE  ChunkTypes' /\ ExecutingOK' /\ Counted' /\ Pooled' /\ Private'
<1>1. PICK c \in Chunks : Alloc(c, TRUE, refs) /\ csChunk' = c
  BY DEF AllocCsChunk
<1>2. /\ csChunk = NoChunk
      /\ UNCHANGED <<cmds, deferChunk, deferList, cmdList, chunksQueued, executing, csPc>>
  BY DEF AllocCsChunk, deferVars, listVars, csVars, ChunkInv, HasChunk
<1>3. /\ refs[c] = 0 /\ cmds[c] = <<>>
      /\ alive' \subseteq Chunks /\ pool' \subseteq alive' /\ single' \subseteq alive'
      /\ refs' \in [Chunks -> Nat]
      /\ \A k \in Chunks : refs'[k] = refs[k] + One(k, c)
      /\ \A k \in Chunks : refs'[k] = 0 <=> k \notin alive' \ pool'
  <2>1. refs \in [Chunks -> Nat] /\ ChunkTypes /\ Pooled
    BY DEF ChunkInv, ChunkTypes
  <2> QED BY <1>1, <2>1, AllocFresh
<1>4. c \notin Shared /\ c # deferChunk
  BY <1>3, Unheld DEF ChunkInv
<1>5. ChunkTypes'
  BY <1>1, <1>2, <1>3 DEF ChunkInv, ChunkTypes
<1>6. ExecutingOK'
  BY <1>2 DEF ChunkInv, ExecutingOK
<1>7. Private'
  <2>1. Shared' = Shared
    BY <1>2 DEF Shared
  <2> QED BY <1>1, <1>2, <1>4, <2>1 DEF ChunkInv, Private
<1>8. Pooled'
  <2>1. ASSUME NEW k \in Chunks, refs'[k] = 0 PROVE cmds'[k] = <<>>
    <3>1. refs[k] = 0
      <4>1. refs[k] \in Nat /\ One(k, c) \in Nat /\ refs[k] + One(k, c) = 0
        BY <1>3, <2>1 DEF ChunkInv, ChunkTypes, One
      <4> QED BY <4>1
    <3> QED BY <1>2, <3>1 DEF ChunkInv, Pooled
  <2> QED BY <1>3, <2>1 DEF Pooled
<1>9. ASSUME NEW k \in Chunks PROVE refs'[k] = Holders(k)'
  <2>1. One(k, csChunk) = 0
    BY <1>2, SharedTypes DEF ChunkInv
  <2>2. /\ Occurrences(k, deferList) \in Nat /\ Occurrences(k, cmdList) \in Nat
        /\ Occurrences(k, chunksQueued) \in Nat
        /\ One(k, c) \in Nat /\ One(k, deferChunk) \in Nat /\ One(k, executing) \in Nat
    BY HolderTypes DEF ChunkInv, One
  <2>3. refs[k] = One(k, csChunk) + One(k, deferChunk) + One(k, executing)
                  + Occurrences(k, deferList) + Occurrences(k, cmdList)
                  + Occurrences(k, chunksQueued)
    BY DEF ChunkInv, Counted, Holders
  <2>4. Holders(k)' = One(k, c) + One(k, deferChunk) + One(k, executing)
                      + Occurrences(k, deferList) + Occurrences(k, cmdList)
                      + Occurrences(k, chunksQueued)
    BY <1>1, <1>2 DEF Holders
  <2>5. refs'[k] = refs[k] + One(k, c)
    BY <1>3
  <2> QED BY <2>1, <2>2, <2>3, <2>4, <2>5
<1>10. Counted'
  BY <1>9 DEF Counted
<1> QED BY <1>5, <1>6, <1>7, <1>8, <1>10

(* A chunk somebody holds gets another command. *)
LEMMA RecordKeepsChunks ==
  ASSUME ChunkTypes, Counted, Pooled, NEW k \in Chunks, refs[k] # 0, ~Full(k),
         NEW m \in 0 .. MaxCmds + 1, cmds' = [cmds EXCEPT ![k] = Append(@, m)],
         UNCHANGED <<alive, pool, refs>>
  PROVE  /\ cmds' \in [Chunks -> Seq(0 .. MaxCmds + 1)]
         /\ \A c \in Chunks : Len(cmds'[c]) <= ChunkSize
         /\ Pooled'
<1>1. cmds[k] \in Seq(0 .. MaxCmds + 1) /\ Len(cmds[k]) < ChunkSize
  <2>1. cmds[k] \in Seq(0 .. MaxCmds + 1) /\ Len(cmds[k]) \in Nat /\ ChunkSize \in Nat
    BY StreamAssumption DEF ChunkTypes
  <2> QED BY <2>1 DEF Full
<1>2. /\ Append(cmds[k], m) \in Seq(0 .. MaxCmds + 1)
      /\ Len(Append(cmds[k], m)) = Len(cmds[k]) + 1 /\ Len(cmds[k]) \in Nat
  BY <1>1
<1>3. Len(Append(cmds[k], m)) <= ChunkSize
  BY <1>1, <1>2, StreamAssumption
<1>4. \A c \in Chunks : cmds'[c] = IF c = k THEN Append(cmds[k], m) ELSE cmds[c]
  BY DEF ChunkTypes
<1>5. cmds' \in [Chunks -> Seq(0 .. MaxCmds + 1)]
  BY <1>2 DEF ChunkTypes
<1>6. \A c \in Chunks : Len(cmds'[c]) <= ChunkSize
  BY <1>3, <1>4 DEF ChunkTypes
<1>7. Pooled'
  BY <1>4 DEF Pooled
<1> QED BY <1>5, <1>6, <1>7

LEMMA EmitKeepsChunks ==
  ASSUME ChunkInv, TodoInv, EmitCs, ~Full(csChunk)
  PROVE  ChunkTypes' /\ ExecutingOK' /\ Counted' /\ Pooled' /\ Private'
<1> DEFINE m == IF Head(todo) = "emit" THEN numCmds' ELSE Flush
<1>1. /\ todo # <<>> /\ Head(todo) \in {"emit", "emitFlush"}
      /\ numCmds' = IF Head(todo) = "emit" THEN numCmds + 1 ELSE numCmds
      /\ cmds' = [cmds EXCEPT ![csChunk] = Append(@, m)]
      /\ UNCHANGED <<alive, pool, single, refs, csChunk, deferChunk, deferList, cmdList,
                     chunksQueued, executing, csPc>>
  BY DEF EmitCs, deferVars, listVars, csVars
<1>2. csChunk \in Chunks
  BY <1>1 DEF ChunkInv, ChunkTypes, HasChunk
<1>3. m \in 0 .. MaxCmds + 1
  <2>1. Head(todo) \in Range(todo)
    BY <1>1, ProgramTail DEF TodoInv
  <2> QED BY <1>1, <2>1, StreamAssumption DEF TodoInv, CommandsBounded, Flush
<1>4. refs[csChunk] # 0
  BY <1>2, Unheld DEF ChunkInv
<1> HIDE DEF m
<1>5. /\ cmds' \in [Chunks -> Seq(0 .. MaxCmds + 1)]
      /\ \A c \in Chunks : Len(cmds'[c]) <= ChunkSize
      /\ Pooled'
  BY <1>1, <1>2, <1>3, <1>4, RecordKeepsChunks DEF ChunkInv
<1>6. ChunkTypes'
  BY <1>1, <1>5 DEF ChunkInv, ChunkTypes
<1>7. ExecutingOK' /\ Counted' /\ Private'
  BY <1>1 DEF ChunkInv, ExecutingOK, Counted, Holders, Private, Shared
<1> QED BY <1>5, <1>6, <1>7

(* The queue and the command list both refer to a chunk that is executed. *)
LEMMA ExecuteKeepsChunks ==
  ASSUME ChunkInv, TodoInv, ExecuteCommandList, nextChunk <= Len(cmdList)
  PROVE  ChunkTypes' /\ ExecutingOK' /\ Counted' /\ Pooled' /\ Private'
<1> DEFINE x == cmdList[nextChunk]
<1>1. /\ refs' = [c \in Chunks |-> refs[c] + Occurrences(c, <<x>>)]
      /\ chunksQueued' = Append(chunksQueued, x)
      /\ UNCHANGED <<alive, pool, cmds, single, csChunk, deferChunk, deferList, cmdList,
                     executing, csPc>>
  BY DEF ExecuteCommandList, Retained, deferVars, csVars
<1>2. x \in Chunks /\ x \in Range(cmdList) /\ chunksQueued \in Seq(Chunks)
  <2>1. cmdList \in Seq(Chunks) /\ DOMAIN cmdList = 1 .. Len(cmdList) /\ Len(cmdList) \in Nat
        /\ chunksQueued \in Seq(Chunks)
    BY DEF ChunkInv, ChunkTypes
  <2>2. nextChunk \in 1 .. Len(cmdList)
    BY <2>1 DEF TodoInv, ListKept
  <2>3. x \in Range(cmdList)
    BY <2>1, <2>2 DEF Range
  <2> QED BY <2>1, <2>3, SeqRange
<1> HIDE DEF x
<1>3. \A c \in Chunks : refs'[c] = refs[c] + One(c, x)
  BY <1>1, OccSingle
<1>4. refs[x] # 0
  BY <1>2, Unheld DEF ChunkInv, Shared
<1>5. refs' \in [Chunks -> Nat] /\ \A c \in Chunks : refs'[c] = 0 <=> refs[c] = 0
  <2>1. ASSUME NEW c \in Chunks PROVE refs'[c] \in Nat /\ (refs'[c] = 0 <=> refs[c] = 0)
    <3>1. refs[c] \in Nat /\ One(c, x) \in {0, 1} /\ (One(c, x) = 1 => c = x)
      BY DEF ChunkInv, ChunkTypes, One
    <3> QED BY <1>3, <1>4, <3>1
  <2> QED BY <1>1, <2>1
<1>6. chunksQueued' \in Seq(Chunks) /\ Range(chunksQueued') = Range(chunksQueued) \cup {x}
  BY <1>1, <1>2, PushRange
<1>7. ChunkTypes'
  BY <1>1, <1>5, <1>6 DEF ChunkInv, ChunkTypes
<1>8. ExecutingOK' /\ Pooled'
  BY <1>1, <1>5 DEF ChunkInv, ExecutingOK, Pooled
<1>9. Private'
  <2>1. Shared' = Shared
    BY <1>1, <1>2, <1>6 DEF Shared
  <2> QED BY <1>1, <2>1 DEF ChunkInv, Private
<1>10. ASSUME NEW c \in Chunks PROVE refs'[c] = Holders(c)'
  <2>1. Occurrences(c, chunksQueued') = Occurrences(c, chunksQueued) + One(c, x)
    BY <1>1, <1>2, OccPush
  <2>2. /\ Occurrences(c, deferList) \in Nat /\ Occurrences(c, cmdList) \in Nat
        /\ Occurrences(c, chunksQueued) \in Nat /\ One(c, x) \in Nat
        /\ One(c, csChunk) \in Nat /\ One(c, deferChunk) \in Nat /\ One(c, executing) \in Nat
    BY HolderTypes DEF ChunkInv, One
  <2>3. refs[c] = One(c, csChunk) + One(c, deferChunk) + One(c, executing)
                  + Occurrences(c, deferList) + Occurrences(c, cmdList)
                  + Occurrences(c, chunksQueued)
    BY DEF ChunkInv, Counted, Holders
  <2>4. Holders(c)' = One(c, csChunk) + One(c, deferChunk) + One(c, executing)
                      + Occurrences(c, deferList) + Occurrences(c, cmdList)
                      + Occurrences(c, chunksQueued')
    BY <1>1 DEF Holders
  <2>5. refs'[c] = refs[c] + One(c, x)
    BY <1>3
  <2> QED BY <2>1, <2>2, <2>3, <2>4, <2>5
<1>11. Counted'
  BY <1>10 DEF Counted
<1> QED BY <1>7, <1>8, <1>9, <1>11

LEMMA ReleaseKeepsChunks ==
  ASSUME ChunkInv, ReleaseCommandList
  PROVE  ChunkTypes' /\ ExecutingOK' /\ Counted' /\ Pooled' /\ Private'
<1>1. /\ Release(cmdList) /\ cmdList' = <<>>
      /\ UNCHANGED <<alive, single, csChunk, deferChunk, deferList, chunksQueued, executing, csPc>>
  BY DEF ReleaseCommandList, deferVars, csVars
<1>2. ASSUME NEW c \in Chunks
      PROVE  /\ refs[c] = One(c, csChunk) + One(c, deferChunk) + One(c, executing)
                          + Occurrences(c, deferList) + Occurrences(c, cmdList)
                          + Occurrences(c, chunksQueued)
             /\ Occurrences(c, deferList) \in Nat /\ Occurrences(c, cmdList) \in Nat
             /\ Occurrences(c, chunksQueued) \in Nat
             /\ One(c, csChunk) \in Nat /\ One(c, deferChunk) \in Nat /\ One(c, executing) \in Nat
  BY HolderTypes DEF ChunkInv, Counted, Holders
<1>3. \A c \in Chunks : Occurrences(c, cmdList) <= refs[c]
  BY <1>2
<1>4. /\ refs' \in [Chunks -> Nat] /\ pool' \subseteq alive /\ Pooled'
      /\ \A c \in Chunks : refs'[c] = refs[c] - Occurrences(c, cmdList)
      /\ cmds' \in [Chunks -> Seq(0 .. MaxCmds + 1)]
      /\ \A c \in Chunks : Len(cmds'[c]) <= ChunkSize
  <2>1. ChunkTypes /\ Pooled /\ cmdList \in Seq(Chunks)
    BY DEF ChunkInv, ChunkTypes
  <2> QED BY <1>1, <1>3, <2>1, ReleasePools
<1>5. cmdList' \in Seq(Chunks) /\ Range(cmdList') = {}
  BY <1>1 DEF Range
<1>6. ChunkTypes'
  BY <1>1, <1>4, <1>5 DEF ChunkInv, ChunkTypes
<1>7. ExecutingOK' /\ Private'
  BY <1>1, <1>5 DEF ChunkInv, ExecutingOK, Private, Shared
<1>8. ASSUME NEW c \in Chunks PROVE refs'[c] = Holders(c)'
  <2>1. Occurrences(c, cmdList') = 0
    BY <1>1, OccEmpty
  <2>2. Holders(c)' = One(c, csChunk) + One(c, deferChunk) + One(c, executing)
                      + Occurrences(c, deferList) + Occurrences(c, cmdList')
                      + Occurrences(c, chunksQueued)
    BY <1>1 DEF Holders
  <2>3. refs'[c] = refs[c] - Occurrences(c, cmdList)
    BY <1>4
  <2> QED BY <1>2, <2>1, <2>2, <2>3
<1>9. Counted'
  BY <1>8 DEF Counted
<1> QED BY <1>4, <1>6, <1>7, <1>9

(* The deferred context's chunk moves to its list if it has commands. *)
LEMMA FlushedFacts ==
  ASSUME ChunkTypes
  PROVE  /\ Flushed \in Seq(Chunks)
         /\ Range(Flushed) = Range(deferList) \cup
               (IF cmds[deferChunk] = <<>> THEN {} ELSE {deferChunk})
         /\ \A c : Occurrences(c, Flushed) = Occurrences(c, deferList) +
               (IF cmds[deferChunk] = <<>> THEN 0 ELSE One(c, deferChunk))
<1>1. deferList \in Seq(Chunks) /\ deferChunk \in Chunks
  BY DEF ChunkTypes
<1>2. CASE cmds[deferChunk] = <<>>
  <2>1. Flushed = deferList
    BY <1>2 DEF Flushed
  <2>2. \A c : Occurrences(c, deferList) \in Nat
    BY HolderTypes
  <2> QED BY <1>1, <1>2, <2>1, <2>2
<1>3. CASE cmds[deferChunk] # <<>>
  <2>1. Flushed = Append(deferList, deferChunk)
    BY <1>3 DEF Flushed
  <2>2. /\ Append(deferList, deferChunk) \in Seq(Chunks)
        /\ Range(Append(deferList, deferChunk)) = Range(deferList) \cup {deferChunk}
    BY <1>1, PushRange
  <2>3. \A c : Occurrences(c, Append(deferList, deferChunk)) =
                  Occurrences(c, deferList) + One(c, deferChunk)
    BY <1>1, OccPush
  <2> QED BY <1>3, <2>1, <2>2, <2>3
<1> QED BY <1>2, <1>3

(* It is replaced by one that nobody holds; "held" already counts the
   references that were copied from a command list. *)
LEMMA ReplaceFacts ==
  ASSUME ChunkInv, FlagInv, NEW held \in [Chunks -> Nat],
         \A k \in Chunks : held[k] = 0 <=> refs[k] = 0,
         ReplaceDeferChunk(held)
  PROVE  /\ alive' \subseteq Chunks /\ pool' \subseteq alive' /\ single' \subseteq alive'
         /\ refs' \in [Chunks -> Nat] /\ deferChunk' \in Chunks
         /\ \A k \in Chunks : refs'[k] = 0 <=> k \notin alive' \ pool'
         /\ \A k \in Chunks : refs'[k] = 0 => refs[k] = 0
         /\ \A k \in Chunks : refs'[k] = held[k] +
               (IF cmds[deferChunk] = <<>> THEN 0 ELSE One(k, deferChunk'))
         /\ IF cmds[deferChunk] = <<>> THEN deferChunk' = deferChunk
            ELSE refs[deferChunk'] = 0 /\ cmds[deferChunk'] = <<>>
<1>1. CASE cmds[deferChunk] = <<>>
  <2>1. refs' = held /\ UNCHANGED <<alive, pool, single, deferChunk>>
    BY <1>1 DEF ReplaceDeferChunk
  <2> QED BY <1>1, <2>1 DEF ChunkInv, ChunkTypes, Pooled
<1>2. CASE cmds[deferChunk] # <<>>
  <2>1. PICK c \in Chunks : Alloc(c, singleUse, held) /\ deferChunk' = c
    BY <1>2 DEF ReplaceDeferChunk
  <2>2. ChunkTypes /\ Pooled /\ singleUse \in BOOLEAN
    BY DEF ChunkInv, FlagInv
  <2>3. /\ refs[c] = 0 /\ cmds[c] = <<>>
        /\ alive' \subseteq Chunks /\ pool' \subseteq alive' /\ single' \subseteq alive'
        /\ refs' \in [Chunks -> Nat]
        /\ \A k \in Chunks : refs'[k] = held[k] + One(k, c)
        /\ \A k \in Chunks : refs'[k] = 0 <=> k \notin alive' \ pool'
    BY <2>1, <2>2, AllocFresh
  <2>4. ASSUME NEW k \in Chunks, refs'[k] = 0 PROVE refs[k] = 0
    <3>1. held[k] \in Nat /\ One(k, c) \in Nat /\ held[k] + One(k, c) = 0
      BY <2>3, <2>4 DEF One
    <3>2. held[k] = 0
      BY <3>1
    <3> QED BY <3>2
  <2> QED BY <1>2, <2>1, <2>3, <2>4
<1> QED BY <1>1, <1>2

LEMMA ReplacePrivate ==
  ASSUME ChunkInv,
         UNCHANGED <<csChunk, executing, chunksQueued>>,
         IF cmds[deferChunk] = <<>> THEN deferChunk' = deferChunk
         ELSE deferChunk' \in Chunks /\ refs[deferChunk'] = 0,
         Range(deferList') \cup Range(cmdList') \subseteq
            Range(deferList) \cup Range(cmdList) \cup
               (IF cmds[deferChunk] = <<>> THEN {} ELSE {deferChunk})
  PROVE  Private'
<1>1. Shared' \subseteq Shared \cup (IF cmds[deferChunk] = <<>> THEN {} ELSE {deferChunk})
  BY DEF Shared
<1>2. csChunk # deferChunk /\ deferChunk \notin Shared /\ (csChunk # NoChunk => csChunk \notin Shared)
  BY DEF ChunkInv, Private
<1>3. CASE cmds[deferChunk] = <<>>
  BY <1>1, <1>2, <1>3 DEF Private
<1>4. CASE cmds[deferChunk] # <<>>
  <2>1. deferChunk' \in Chunks /\ refs[deferChunk'] = 0
    BY <1>4
  <2>2. deferChunk' \notin Shared \cup {csChunk, deferChunk}
    BY <2>1, Unheld DEF ChunkInv
  <2> QED BY <1>1, <1>2, <1>4, <2>2 DEF Private
<1> QED BY <1>3, <1>4

(* The arithmetic of such a step. *)
LEMMA Balance ==
  ASSUME NEW a \in Nat, NEW d \in Nat, NEW e \in Nat, NEW l \in Nat, NEW m \in Nat,
         NEW q \in Nat, NEW d2 \in Nat, NEW l2 \in Nat, NEW m2 \in Nat, NEW n \in Nat,
         NEW f \in Nat, NEW g \in Nat, NEW r, NEW r2,
         r = a + d + e + l + m + q, r2 = (r + n) + f,
         d2 + g = d + f, l2 + m2 = l + m + n + g
  PROVE  r2 = a + d2 + e + l2 + m2 + q
  OBVIOUS

(* The counts after such a step: what the lists of the deferred context gain
   is what was copied and the chunk that was replaced. *)
LEMMA ReplaceCounts ==
  ASSUME ChunkInv, NEW held \in [Chunks -> Nat], NEW c \in Chunks,
         NEW n \in Nat, NEW f \in Nat, NEW g \in Nat,
         held[c] = refs[c] + n, refs'[c] = held[c] + f,
         One(c, deferChunk') + g = One(c, deferChunk) + f,
         Occurrences(c, deferList') + Occurrences(c, cmdList') =
            Occurrences(c, deferList) + Occurrences(c, cmdList) + n + g,
         Occurrences(c, deferList') \in Nat, Occurrences(c, cmdList') \in Nat,
         UNCHANGED <<csChunk, executing, chunksQueued>>
  PROVE  refs'[c] = Holders(c)'
<1>1. /\ Occurrences(c, deferList) \in Nat /\ Occurrences(c, cmdList) \in Nat
      /\ Occurrences(c, chunksQueued) \in Nat /\ One(c, deferChunk') \in Nat
      /\ One(c, csChunk) \in Nat /\ One(c, deferChunk) \in Nat /\ One(c, executing) \in Nat
  BY HolderTypes DEF ChunkInv, One
<1>2. refs[c] = One(c, csChunk) + One(c, deferChunk) + One(c, executing)
                + Occurrences(c, deferList) + Occurrences(c, cmdList)
                + Occurrences(c, chunksQueued)
  BY DEF ChunkInv, Counted, Holders
<1>3. Holders(c)' = One(c, csChunk) + One(c, deferChunk') + One(c, executing)
                    + Occurrences(c, deferList') + Occurrences(c, cmdList')
                    + Occurrences(c, chunksQueued)
  BY DEF Holders
<1> DEFINE a == One(c, csChunk)
           d == One(c, deferChunk)
           e == One(c, executing)
           l == Occurrences(c, deferList)
           m == Occurrences(c, cmdList)
           q == Occurrences(c, chunksQueued)
           d2 == One(c, deferChunk')
           l2 == Occurrences(c, deferList')
           m2 == Occurrences(c, cmdList')
<1>4. /\ a \in Nat /\ d \in Nat /\ e \in Nat /\ l \in Nat /\ m \in Nat /\ q \in Nat
      /\ d2 \in Nat /\ l2 \in Nat /\ m2 \in Nat
      /\ refs[c] = a + d + e + l + m + q
      /\ Holders(c)' = a + d2 + e + l2 + m2 + q
      /\ refs'[c] = (refs[c] + n) + f /\ d2 + g = d + f /\ l2 + m2 = l + m + n + g
  BY <1>1, <1>2, <1>3
<1> HIDE DEF a, d, e, l, m, q, d2, l2, m2
<1> QED BY <1>4, Balance

LEMMA ReplaceKeepsChunks ==
  ASSUME ChunkInv, FlagInv, NEW held \in [Chunks -> Nat], NEW n \in [Chunks -> Nat],
         \A k \in Chunks : held[k] = refs[k] + n[k] /\ (held[k] = 0 <=> refs[k] = 0),
         ReplaceDeferChunk(held),
         deferList' \in Seq(Chunks), cmdList' \in Seq(Chunks),
         \A k \in Chunks :
            Occurrences(k, deferList') + Occurrences(k, cmdList') =
               Occurrences(k, deferList) + Occurrences(k, cmdList) + n[k] +
                  (IF cmds[deferChunk] = <<>> THEN 0 ELSE One(k, deferChunk)),
         Range(deferList') \cup Range(cmdList') \subseteq
            Range(deferList) \cup Range(cmdList) \cup
               (IF cmds[deferChunk] = <<>> THEN {} ELSE {deferChunk}),
         UNCHANGED <<csChunk, executing, chunksQueued, csPc>>
  PROVE  /\ alive' \subseteq Chunks /\ pool' \subseteq alive' /\ single' \subseteq alive'
         /\ refs' \in [Chunks -> Nat] /\ deferChunk' \in Chunks
         /\ \A k \in Chunks : refs'[k] = 0 <=> k \notin alive' \ pool'
         /\ \A k \in Chunks : refs'[k] = 0 => refs[k] = 0
         /\ ExecutingOK' /\ Counted' /\ Private'
<1>1. /\ alive' \subseteq Chunks /\ pool' \subseteq alive' /\ single' \subseteq alive'
      /\ refs' \in [Chunks -> Nat] /\ deferChunk' \in Chunks
      /\ \A k \in Chunks : refs'[k] = 0 <=> k \notin alive' \ pool'
      /\ \A k \in Chunks : refs'[k] = 0 => refs[k] = 0
      /\ \A k \in Chunks : refs'[k] = held[k] +
            (IF cmds[deferChunk] = <<>> THEN 0 ELSE One(k, deferChunk'))
      /\ IF cmds[deferChunk] = <<>> THEN deferChunk' = deferChunk
         ELSE refs[deferChunk'] = 0 /\ cmds[deferChunk'] = <<>>
  BY ReplaceFacts
<1>2. Private'
  BY <1>1, ReplacePrivate
<1>3. ASSUME NEW k \in Chunks PROVE refs'[k] = Holders(k)'
  <2>1. Occurrences(k, deferList') \in Nat /\ Occurrences(k, cmdList') \in Nat
    BY OccType
  <2>2. n[k] \in Nat /\ held[k] = refs[k] + n[k]
    OBVIOUS
  <2> DEFINE f == IF cmds[deferChunk] = <<>> THEN 0 ELSE One(k, deferChunk')
             g == IF cmds[deferChunk] = <<>> THEN 0 ELSE One(k, deferChunk)
  <2>3. f \in Nat /\ g \in Nat
    BY DEF One
  <2>4. One(k, deferChunk') + g = One(k, deferChunk) + f
    BY <1>1 DEF One
  <2>5. /\ refs'[k] = held[k] + f
        /\ Occurrences(k, deferList') + Occurrences(k, cmdList') =
              Occurrences(k, deferList) + Occurrences(k, cmdList) + n[k] + g
    BY <1>1
  <2> HIDE DEF f, g
  <2> QED BY <2>1, <2>2, <2>3, <2>4, <2>5, ReplaceCounts
<1>4. Counted'
  BY <1>3 DEF Counted
<1>5. ExecutingOK'
  BY DEF ChunkInv, ExecutingOK
<1> QED BY <1>1, <1>2, <1>4, <1>5

(* The deferred context records a command, in a new chunk if it does not fit. *)
LEMMA DeferEmitKeepsChunks ==
  ASSUME ChunkInv, FlagInv, TodoInv, DeferEmit
  PROVE  ChunkTypes' /\ ExecutingOK' /\ Counted' /\ Pooled' /\ Private'
<1> DEFINE m == numCmds + 1
<1>1. /\ numCmds' = m
      /\ IF Full(deferChunk) THEN ReplaceDeferChunk(refs) /\ deferList' = Flushed
         ELSE UNCHANGED <<alive, pool, refs, single, deferChunk, deferList>>
      /\ cmds' = [cmds EXCEPT ![deferChunk'] = Append(@, m)]
      /\ UNCHANGED <<csChunk, cmdList, chunksQueued, executing, csPc>>
  BY DEF DeferEmit, deferVars, listVars, csVars
<1>2. m \in 0 .. MaxCmds + 1
  BY StreamAssumption DEF DeferEmit, TodoInv, CommandsBounded
<1> HIDE DEF m
<1>3. deferChunk \in Chunks
  BY DEF ChunkInv, ChunkTypes
<1>4. CASE ~Full(deferChunk)
  <2>1. refs[deferChunk] # 0
    BY <1>3, Unheld DEF ChunkInv
  <2>2. /\ cmds' \in [Chunks -> Seq(0 .. MaxCmds + 1)]
        /\ \A c \in Chunks : Len(cmds'[c]) <= ChunkSize
        /\ Pooled'
    <3>1. cmds' = [cmds EXCEPT ![deferChunk] = Append(@, m)] /\ UNCHANGED <<alive, pool, refs>>
      BY <1>1, <1>4
    <3> QED BY <1>2, <1>3, <1>4, <2>1, <3>1, RecordKeepsChunks DEF ChunkInv
  <2>3. ChunkTypes'
    BY <1>1, <1>4, <2>2 DEF ChunkInv, ChunkTypes
  <2>4. ExecutingOK' /\ Counted' /\ Private'
    BY <1>1, <1>4 DEF ChunkInv, ExecutingOK, Counted, Holders, Private, Shared
  <2> QED BY <2>2, <2>3, <2>4
<1>5. CASE Full(deferChunk)
  <2>1. cmds[deferChunk] # <<>>
    <3>1. Len(cmds[deferChunk]) >= ChunkSize /\ ChunkSize > 0
      BY <1>5, StreamAssumption DEF Full
    <3>2. Len(<<>>) = 0
      OBVIOUS
    <3> QED BY <3>1, <3>2, StreamAssumption
  <2>2. /\ Flushed \in Seq(Chunks) /\ Range(Flushed) = Range(deferList) \cup {deferChunk}
        /\ \A c : Occurrences(c, Flushed) = Occurrences(c, deferList) + One(c, deferChunk)
    BY <2>1, FlushedFacts DEF ChunkInv
  <2> DEFINE n == [k \in Chunks |-> 0]
  <2>3. n \in [Chunks -> Nat] /\ \A k \in Chunks : n[k] = 0
    OBVIOUS
  <2> HIDE DEF n
  <2>4. refs \in [Chunks -> Nat] /\ cmdList \in Seq(Chunks)
    BY DEF ChunkInv, ChunkTypes
  <2>5. \A k \in Chunks : refs[k] = refs[k] + n[k]
    BY <2>3, <2>4
  <2>6. ASSUME NEW k \in Chunks
        PROVE  Occurrences(k, deferList') + Occurrences(k, cmdList') =
               Occurrences(k, deferList) + Occurrences(k, cmdList) + n[k] +
                  (IF cmds[deferChunk] = <<>> THEN 0 ELSE One(k, deferChunk))
    <3>1. /\ Occurrences(k, deferList) \in Nat /\ Occurrences(k, cmdList) \in Nat
          /\ One(k, deferChunk) \in Nat
      BY HolderTypes DEF ChunkInv
    <3>2. deferList' = Flushed /\ cmdList' = cmdList
      BY <1>1, <1>5
    <3>3. /\ Occurrences(k, deferList') = Occurrences(k, deferList) + One(k, deferChunk)
          /\ Occurrences(k, cmdList') = Occurrences(k, cmdList)
      BY <2>2, <3>2
    <3> QED BY <2>1, <2>3, <3>1, <3>3
  <2>7. /\ alive' \subseteq Chunks /\ pool' \subseteq alive' /\ single' \subseteq alive'
        /\ refs' \in [Chunks -> Nat] /\ deferChunk' \in Chunks
        /\ \A k \in Chunks : refs'[k] = 0 <=> k \notin alive' \ pool'
        /\ \A k \in Chunks : refs'[k] = 0 => refs[k] = 0
        /\ ExecutingOK' /\ Counted' /\ Private'
    <3>1. /\ ReplaceDeferChunk(refs) /\ deferList' \in Seq(Chunks) /\ cmdList' \in Seq(Chunks)
          /\ Range(deferList') \cup Range(cmdList') \subseteq
                Range(deferList) \cup Range(cmdList) \cup
                   (IF cmds[deferChunk] = <<>> THEN {} ELSE {deferChunk})
      BY <1>1, <1>5, <2>1, <2>2, <2>4
    <3> QED BY <1>1, <2>3, <2>4, <2>5, <2>6, <3>1, ReplaceKeepsChunks
  <2>8. refs[deferChunk'] = 0 /\ cmds[deferChunk'] = <<>> /\ refs'[deferChunk'] # 0
    <3>1. ReplaceDeferChunk(refs)
      BY <1>1, <1>5
    <3>2. /\ refs'[deferChunk'] = refs[deferChunk'] + One(deferChunk', deferChunk')
          /\ refs[deferChunk'] = 0 /\ cmds[deferChunk'] = <<>>
      BY <2>1, <2>4, <2>7, <3>1, ReplaceFacts
    <3> QED BY <3>2 DEF One
  <2>9. \A k \in Chunks : cmds'[k] = IF k = deferChunk' THEN <<m>> ELSE cmds[k]
    <3>1. Append(<<>>, m) = <<m>>
      OBVIOUS
    <3> QED BY <1>1, <2>7, <2>8, <3>1 DEF ChunkInv, ChunkTypes
  <2>10. <<m>> \in Seq(0 .. MaxCmds + 1) /\ Len(<<m>>) <= ChunkSize
    BY <1>2, StreamAssumption
  <2>11. /\ cmds' \in [Chunks -> Seq(0 .. MaxCmds + 1)]
         /\ \A c \in Chunks : Len(cmds'[c]) <= ChunkSize
    <3>1. DOMAIN cmds' = Chunks /\ cmds' = [k \in Chunks |-> cmds'[k]]
      BY <1>1 DEF ChunkInv, ChunkTypes
    <3> QED BY <2>9, <2>10, <3>1 DEF ChunkInv, ChunkTypes
  <2>12. Pooled'
    BY <2>7, <2>8, <2>9 DEF ChunkInv, Pooled
  <2>13. ChunkTypes'
    BY <1>1, <1>5, <2>2, <2>7, <2>11 DEF ChunkInv, ChunkTypes
  <2> QED BY <2>7, <2>12, <2>13
<1> QED BY <1>4, <1>5

(* The chunks recorded so far become a command list. *)
LEMMA FinishKeepsChunks ==
  ASSUME ChunkInv, FlagInv, TodoInv, FinishCommandList
  PROVE  ChunkTypes' /\ ExecutingOK' /\ Counted' /\ Pooled' /\ Private'
<1>1. /\ ReplaceDeferChunk(refs) /\ cmdList' = Flushed /\ deferList' = <<>> /\ cmdList = <<>>
      /\ UNCHANGED <<cmds, csChunk, chunksQueued, executing, csPc>>
  BY DEF FinishCommandList, csVars, TodoInv, ListKept
<1>2. refs \in [Chunks -> Nat] /\ <<>> \in Seq(Chunks) /\ Range(<<>>) = {}
  BY DEF ChunkInv, ChunkTypes, Range
<1>3. /\ Flushed \in Seq(Chunks)
      /\ Range(Flushed) = Range(deferList) \cup
            (IF cmds[deferChunk] = <<>> THEN {} ELSE {deferChunk})
      /\ \A c : Occurrences(c, Flushed) = Occurrences(c, deferList) +
            (IF cmds[deferChunk] = <<>> THEN 0 ELSE One(c, deferChunk))
  BY FlushedFacts DEF ChunkInv
<1> DEFINE n == [k \in Chunks |-> 0]
<1>4. n \in [Chunks -> Nat] /\ \A k \in Chunks : n[k] = 0
  OBVIOUS
<1> HIDE DEF n
<1>5. \A k \in Chunks : refs[k] = refs[k] + n[k]
  BY <1>2, <1>4
<1>6. ASSUME NEW k \in Chunks
      PROVE  Occurrences(k, deferList') + Occurrences(k, cmdList') =
             Occurrences(k, deferList) + Occurrences(k, cmdList) + n[k] +
                (IF cmds[deferChunk] = <<>> THEN 0 ELSE One(k, deferChunk))
  <2>1. Occurrences(k, deferList) \in Nat /\ One(k, deferChunk) \in Nat
    BY HolderTypes DEF ChunkInv
  <2>2. Occurrences(k, deferList') = 0 /\ Occurrences(k, cmdList) = 0
    BY <1>1, OccEmpty
  <2>3. Occurrences(k, cmdList') = Occurrences(k, deferList) +
           (IF cmds[deferChunk] = <<>> THEN 0 ELSE One(k, deferChunk))
    BY <1>1, <1>3
  <2> QED BY <1>4, <2>1, <2>2, <2>3
<1>7. /\ alive' \subseteq Chunks /\ pool' \subseteq alive' /\ single' \subseteq alive'
      /\ refs' \in [Chunks -> Nat] /\ deferChunk' \in Chunks
      /\ \A k \in Chunks : refs'[k] = 0 <=> k \notin alive' \ pool'
      /\ \A k \in Chunks : refs'[k] = 0 => refs[k] = 0
      /\ ExecutingOK' /\ Counted' /\ Private'
  <2>1. /\ deferList' \in Seq(Chunks) /\ cmdList' \in Seq(Chunks)
        /\ Range(deferList') \cup Range(cmdList') \subseteq
              Range(deferList) \cup Range(cmdList) \cup
                 (IF cmds[deferChunk] = <<>> THEN {} ELSE {deferChunk})
    BY <1>1, <1>2, <1>3
  <2> QED BY <1>1, <1>2, <1>4, <1>5, <1>6, <2>1, ReplaceKeepsChunks
<1>8. Pooled'
  BY <1>1, <1>7 DEF ChunkInv, Pooled
<1>9. ChunkTypes'
  BY <1>1, <1>2, <1>3, <1>7 DEF ChunkInv, ChunkTypes
<1> QED BY <1>7, <1>8, <1>9

(* The deferred context's list takes references of its own to a list it
   executes. *)
LEMMA EmitListKeepsChunks ==
  ASSUME ChunkInv, FlagInv, EmitToCommandList
  PROVE  ChunkTypes' /\ ExecutingOK' /\ Counted' /\ Pooled' /\ Private'
<1> DEFINE n == [k \in Chunks |-> Occurrences(k, cmdList)]
           held == [k \in Chunks |-> refs[k] + Occurrences(k, cmdList)]
<1>1. /\ ReplaceDeferChunk(held) /\ deferList' = Flushed \o cmdList
      /\ UNCHANGED <<cmdList, cmds, csChunk, chunksQueued, executing, csPc>>
  BY DEF EmitToCommandList, csVars, Retained
<1>2. refs \in [Chunks -> Nat] /\ cmdList \in Seq(Chunks)
  BY DEF ChunkInv, ChunkTypes
<1>3. ASSUME NEW k \in Chunks
      PROVE  /\ Occurrences(k, cmdList) \in Nat
             /\ held[k] \in Nat /\ (held[k] = 0 <=> refs[k] = 0)
  <2>1. Occurrences(k, cmdList) \in Nat /\ (Occurrences(k, cmdList) = 0 <=> k \notin Range(cmdList))
    BY HolderTypes DEF ChunkInv
  <2>2. refs[k] = 0 => k \notin Range(cmdList)
    BY Unheld DEF ChunkInv, Shared
  <2> QED BY <1>2, <2>1, <2>2
<1>4. /\ n \in [Chunks -> Nat] /\ held \in [Chunks -> Nat]
      /\ \A k \in Chunks : /\ n[k] = Occurrences(k, cmdList)
                           /\ held[k] = refs[k] + n[k] /\ (held[k] = 0 <=> refs[k] = 0)
  BY <1>3
<1> HIDE DEF n, held
<1>5. /\ Flushed \in Seq(Chunks)
      /\ Range(Flushed) = Range(deferList) \cup
            (IF cmds[deferChunk] = <<>> THEN {} ELSE {deferChunk})
      /\ \A c : Occurrences(c, Flushed) = Occurrences(c, deferList) +
            (IF cmds[deferChunk] = <<>> THEN 0 ELSE One(c, deferChunk))
  BY FlushedFacts DEF ChunkInv
<1>6. deferList' \in Seq(Chunks) /\ Range(deferList') = Range(Flushed) \cup Range(cmdList)
  BY <1>1, <1>2, <1>5, ConcatProperties, RangeConcatenation
<1>7. ASSUME NEW k \in Chunks
      PROVE  Occurrences(k, deferList') + Occurrences(k, cmdList') =
             Occurrences(k, deferList) + Occurrences(k, cmdList) + n[k] +
                (IF cmds[deferChunk] = <<>> THEN 0 ELSE One(k, deferChunk))
  <2> DEFINE g == IF cmds[deferChunk] = <<>> THEN 0 ELSE One(k, deferChunk)
  <2>1. Occurrences(k, deferList) \in Nat /\ Occurrences(k, cmdList) \in Nat /\ g \in Nat
    BY HolderTypes DEF ChunkInv
  <2>2. Occurrences(k, cmdList') = Occurrences(k, cmdList) /\ n[k] = Occurrences(k, cmdList)
    BY <1>1, <1>4
  <2>3. Occurrences(k, Flushed \o cmdList) = Occurrences(k, Flushed) + Occurrences(k, cmdList)
    BY <1>2, <1>5, OccConcat
  <2>4. Occurrences(k, deferList') = (Occurrences(k, deferList) + g) + Occurrences(k, cmdList)
    BY <1>1, <1>5, <2>3
  <2> HIDE DEF g
  <2>5. Occurrences(k, deferList') + Occurrences(k, cmdList') =
             Occurrences(k, deferList) + Occurrences(k, cmdList) + n[k] + g
    BY <2>1, <2>2, <2>4
  <2> QED BY <2>5 DEF g
<1>8. /\ alive' \subseteq Chunks /\ pool' \subseteq alive' /\ single' \subseteq alive'
      /\ refs' \in [Chunks -> Nat] /\ deferChunk' \in Chunks
      /\ \A k \in Chunks : refs'[k] = 0 <=> k \notin alive' \ pool'
      /\ \A k \in Chunks : refs'[k] = 0 => refs[k] = 0
      /\ ExecutingOK' /\ Counted' /\ Private'
  <2>1. /\ cmdList' \in Seq(Chunks)
        /\ Range(deferList') \cup Range(cmdList') \subseteq
              Range(deferList) \cup Range(cmdList) \cup
                 (IF cmds[deferChunk] = <<>> THEN {} ELSE {deferChunk})
    BY <1>1, <1>2, <1>5, <1>6
  <2> QED BY <1>1, <1>4, <1>6, <1>7, <2>1, ReplaceKeepsChunks
<1>9. Pooled'
  BY <1>1, <1>8 DEF ChunkInv, Pooled
<1>10. ChunkTypes'
  BY <1>1, <1>6, <1>8 DEF ChunkInv, ChunkTypes
<1> QED BY <1>8, <1>9, <1>10

(* The dxvk-cs thread takes the oldest chunk of the queue, if there is one. *)
LEMMA TakeFacts ==
  ASSUME ChunkTypes, TakeChunk
  PROVE  /\ executing' \in Chunks \cup {NoChunk} /\ chunksQueued' \in Seq(Chunks)
         /\ ExecutingOK'
         /\ Range(chunksQueued') \cup {executing'} \subseteq Range(chunksQueued) \cup {NoChunk}
         /\ \A c \in Chunks : One(c, executing') + Occurrences(c, chunksQueued')
                                 = Occurrences(c, chunksQueued)
         /\ Len(chunksQueued') + (IF executing' = NoChunk THEN 0 ELSE 1) = Len(chunksQueued)
<1>1. chunksQueued \in Seq(Chunks)
  BY DEF ChunkTypes
<1>2. CASE chunksQueued # <<>>
  <2>1. executing' = Head(chunksQueued) /\ chunksQueued' = Tail(chunksQueued) /\ csPc' = "exec"
    BY <1>2 DEF TakeChunk
  <2>2. /\ Head(chunksQueued) \in Chunks /\ Tail(chunksQueued) \in Seq(Chunks)
        /\ Range(chunksQueued) = Range(Tail(chunksQueued)) \cup {Head(chunksQueued)}
    BY <1>1, <1>2, PopRange
  <2>3. \A c \in Chunks : Occurrences(c, chunksQueued) =
                             One(c, Head(chunksQueued)) + Occurrences(c, Tail(chunksQueued))
    BY <1>1, <1>2, OccPop
  <2>4. Len(chunksQueued) = Len(Tail(chunksQueued)) + 1
    BY <1>1, <1>2
  <2>5. executing' # NoChunk
    BY <2>1, <2>2, StreamAssumption
  <2> QED BY <2>1, <2>2, <2>3, <2>4, <2>5 DEF ExecutingOK
<1>3. CASE chunksQueued = <<>>
  <2>1. executing' = NoChunk /\ chunksQueued' = chunksQueued /\ csPc' \in {"stopped", "wait"}
    BY <1>3 DEF TakeChunk
  <2>2. \A c \in Chunks : One(c, NoChunk) = 0 /\ Occurrences(c, chunksQueued) = 0
    BY <1>3, OccEmpty, StreamAssumption DEF One
  <2>3. Len(chunksQueued) = 0
    BY <1>3
  <2> QED BY <1>1, <2>1, <2>2, <2>3 DEF ExecutingOK
<1> QED BY <1>2, <1>3

(* It has let go of the chunk it held before. *)
LEMMA TakeKeepsChunks ==
  ASSUME ChunkInv, TakeChunk,
         refs' \in [Chunks -> Nat], pool' \subseteq alive, Pooled',
         \A c \in Chunks : refs'[c] = refs[c] - One(c, executing),
         cmds' \in [Chunks -> Seq(0 .. MaxCmds + 1)],
         \A c \in Chunks : Len(cmds'[c]) <= ChunkSize,
         UNCHANGED <<alive, single, csChunk, deferChunk, deferList, cmdList>>
  PROVE  ChunkTypes' /\ ExecutingOK' /\ Counted' /\ Pooled' /\ Private'
<1>1. /\ executing' \in Chunks \cup {NoChunk} /\ chunksQueued' \in Seq(Chunks)
      /\ ExecutingOK'
      /\ Range(chunksQueued') \cup {executing'} \subseteq Range(chunksQueued) \cup {NoChunk}
      /\ \A c \in Chunks : One(c, executing') + Occurrences(c, chunksQueued')
                              = Occurrences(c, chunksQueued)
  BY TakeFacts DEF ChunkInv
<1>2. ChunkTypes'
  BY <1>1 DEF ChunkInv, ChunkTypes
<1>3. Private'
  <2>1. Shared' \subseteq Shared \cup {NoChunk}
    BY <1>1 DEF Shared
  <2>2. deferChunk # NoChunk
    BY SharedTypes DEF ChunkInv
  <2> QED BY <2>1, <2>2 DEF ChunkInv, Private
<1>4. ASSUME NEW c \in Chunks PROVE refs'[c] = Holders(c)'
  <2>1. /\ Occurrences(c, deferList) \in Nat /\ Occurrences(c, cmdList) \in Nat
        /\ Occurrences(c, chunksQueued) \in Nat /\ Occurrences(c, chunksQueued') \in Nat
        /\ One(c, csChunk) \in Nat /\ One(c, deferChunk) \in Nat /\ One(c, executing) \in Nat
        /\ One(c, executing') \in Nat
    BY <1>1, HolderTypes, OccType DEF ChunkInv, One
  <2>2. /\ refs[c] = One(c, csChunk) + One(c, deferChunk) + One(c, executing)
                     + Occurrences(c, deferList) + Occurrences(c, cmdList)
                     + Occurrences(c, chunksQueued)
        /\ Holders(c)' = One(c, csChunk) + One(c, deferChunk) + One(c, executing')
                         + Occurrences(c, deferList) + Occurrences(c, cmdList)
                         + Occurrences(c, chunksQueued')
    BY DEF ChunkInv, Counted, Holders
  <2>3. /\ refs'[c] = refs[c] - One(c, executing)
        /\ One(c, executing') + Occurrences(c, chunksQueued') = Occurrences(c, chunksQueued)
    BY <1>1
  <2> DEFINE a == One(c, csChunk)
             d == One(c, deferChunk)
             e == One(c, executing)
             e2 == One(c, executing')
             l == Occurrences(c, deferList)
             m == Occurrences(c, cmdList)
             q == Occurrences(c, chunksQueued)
             q2 == Occurrences(c, chunksQueued')
  <2>4. /\ a \in Nat /\ d \in Nat /\ e \in Nat /\ e2 \in Nat
        /\ l \in Nat /\ m \in Nat /\ q \in Nat /\ q2 \in Nat
        /\ refs[c] = a + d + e + l + m + q /\ refs'[c] = refs[c] - e /\ e2 + q2 = q
        /\ Holders(c)' = a + d + e2 + l + m + q2
    BY <2>1, <2>2, <2>3
  <2> HIDE DEF a, d, e, e2, l, m, q, q2
  <2> QED BY <2>4
<1>5. Counted'
  BY <1>4 DEF Counted
<1> QED BY <1>1, <1>2, <1>3, <1>5

LEMMA CsWakeKeepsChunks ==
  ASSUME ChunkInv, CsWake
  PROVE  ChunkTypes' /\ ExecutingOK' /\ Counted' /\ Pooled' /\ Private'
<1>1. /\ TakeChunk /\ executing = NoChunk
      /\ UNCHANGED <<alive, pool, cmds, single, refs, csChunk, deferChunk, deferList, cmdList>>
  BY DEF CsWake, chunkVars, deferVars, listVars, ChunkInv, ExecutingOK
<1>2. Pooled' /\ ChunkTypes
  BY <1>1 DEF ChunkInv, Pooled
<1>3. \A c \in Chunks : refs'[c] = refs[c] - One(c, executing)
  BY <1>1, <1>2, SharedTypes DEF ChunkTypes
<1> QED BY <1>1, <1>2, <1>3, TakeKeepsChunks DEF ChunkTypes

LEMMA CsLockKeepsChunks ==
  ASSUME ChunkInv, CsLock
  PROVE  ChunkTypes' /\ ExecutingOK' /\ Counted' /\ Pooled' /\ Private'
<1>1. /\ TakeChunk
      /\ IF executing # NoChunk THEN Release(<<executing>>) ELSE UNCHANGED <<refs, pool, cmds>>
      /\ UNCHANGED <<alive, single, csChunk, deferChunk, deferList, cmdList>>
  BY DEF CsLock, deferVars, listVars
<1>2. ChunkTypes /\ Pooled
  BY DEF ChunkInv
<1>3. CASE executing = NoChunk
  <2>1. Pooled'
    BY <1>1, <1>2, <1>3 DEF Pooled
  <2>2. \A c \in Chunks : refs'[c] = refs[c] - One(c, executing)
    BY <1>1, <1>2, <1>3, SharedTypes DEF ChunkTypes
  <2> QED BY <1>1, <1>2, <1>3, <2>1, <2>2, TakeKeepsChunks DEF ChunkTypes
<1>4. CASE executing # NoChunk
  <2> DEFINE s == <<executing>>
  <2>1. Release(s) /\ s \in Seq(Chunks)
    BY <1>1, <1>2, <1>4 DEF ChunkTypes
  <2>2. \A c \in Chunks : Occurrences(c, s) = One(c, executing)
    BY OccSingle
  <2> HIDE DEF s
  <2>3. ASSUME NEW c \in Chunks PROVE Occurrences(c, s) <= refs[c]
    <3>1. refs[c] # 0 \/ c # executing
      BY Unheld DEF ChunkInv, Shared
    <3>2. refs[c] \in Nat /\ One(c, executing) \in {0, 1}
          /\ (One(c, executing) = 1 => c = executing)
      BY <1>2 DEF ChunkTypes, One
    <3> QED BY <2>2, <3>1, <3>2
  <2>4. /\ refs' \in [Chunks -> Nat] /\ pool' \subseteq alive /\ Pooled'
        /\ \A c \in Chunks : refs'[c] = refs[c] - Occurrences(c, s)
        /\ cmds' \in [Chunks -> Seq(0 .. MaxCmds + 1)]
        /\ \A c \in Chunks : Len(cmds'[c]) <= ChunkSize
    BY <1>1, <1>2, <2>1, <2>3, ReleasePools
  <2>5. \A c \in Chunks : refs'[c] = refs[c] - One(c, executing)
    BY <2>2, <2>4
  <2> QED BY <1>1, <2>4, <2>5, TakeKeepsChunks
<1> QED BY <1>3, <1>4

(* A single-use chunk is empty once it has run. *)
LEMMA ExecuteAllKeepsChunks ==
  ASSUME ChunkInv, ExecuteAll
  PROVE  ChunkTypes' /\ ExecutingOK' /\ Counted' /\ Pooled' /\ Private'
<1>1. /\ cmds' = IF executing \in single THEN [cmds EXCEPT ![executing] = <<>>] ELSE cmds
      /\ csPc' \in {"stopped", "lock"}
      /\ UNCHANGED <<alive, pool, single, refs, csChunk, deferChunk, deferList, cmdList,
                     chunksQueued, executing>>
  BY DEF ExecuteAll, NextTurn, deferVars, listVars
<1>2. /\ cmds' \in [Chunks -> Seq(0 .. MaxCmds + 1)]
      /\ \A c \in Chunks : cmds'[c] = cmds[c] \/ cmds'[c] = <<>>
  BY <1>1 DEF ChunkInv, ChunkTypes
<1>3. \A c \in Chunks : Len(cmds'[c]) <= ChunkSize
  <2>1. Len(<<>>) <= ChunkSize
    BY StreamAssumption
  <2> QED BY <1>2, <2>1 DEF ChunkInv, ChunkTypes
<1>4. ChunkTypes'
  BY <1>1, <1>2, <1>3 DEF ChunkInv, ChunkTypes
<1>5. Pooled'
  BY <1>1, <1>2 DEF ChunkInv, Pooled
<1>6. ExecutingOK' /\ Counted' /\ Private'
  BY <1>1 DEF ChunkInv, ExecutingOK, Counted, Holders, Private, Shared
<1> QED BY <1>4, <1>5, <1>6

(* Which steps move chunks, or references to them. *)
LEMMA ChunkFrame ==
  [Next]_vars =>
    \/ UNCHANGED <<alive, pool, cmds, single, refs, csChunk, deferChunk, deferList, cmdList,
                   chunksQueued, executing, csPc>>
    \/ AllocCsChunk \/ EmitCs \/ FlushCsChunk \/ ExecuteCommandList \/ ReleaseCommandList
    \/ DeferEmit \/ FinishCommandList \/ EmitToCommandList \/ CsLock \/ CsWake \/ ExecuteAll
  BY DEF Next, AppStep, DeferStep, CsStep, vars, chunkVars, deferVars, listVars, csVars,
         Call, DeviceFlush, SetBusy, Synchronize, Stop, Terminated

(* Dispatching is the only step of EmitCs and FlushCsChunk that moves a chunk. *)
LEMMA DispatchFrame ==
  ASSUME ChunkInv, EmitCs \/ FlushCsChunk
  PROVE  \/ csChunk # NoChunk /\ \E r \in {todo, Tail(todo)} : DispatchCsChunk(r)
         \/ EmitCs /\ ~Full(csChunk)
         \/ UNCHANGED <<alive, pool, cmds, single, refs, csChunk, deferChunk, deferList,
                        cmdList, chunksQueued, executing, csPc, chunksPending>>
<1>1. todo # <<>> /\ Head(todo) \in {"emit", "emitFlush", "dispatch"}
  BY DEF EmitCs, FlushCsChunk
<1>2. csChunk # NoChunk
  BY <1>1 DEF ChunkInv, HasChunk
<1> QED BY <1>2 DEF EmitCs, FlushCsChunk, chunkVars, deferVars, listVars, csVars

LEMMA ChunkStep ==
  ASSUME IInv, [Next]_vars
  PROVE  ChunkTypes' /\ ExecutingOK' /\ Counted' /\ Pooled' /\ Private'
<1>1. ChunkInv /\ FlagInv /\ TodoInv
  BY DEF IInv
<1>2. ASSUME UNCHANGED <<alive, pool, cmds, single, refs, csChunk, deferChunk, deferList,
                         cmdList, chunksQueued, executing, csPc>>
      PROVE  ChunkTypes' /\ ExecutingOK' /\ Counted' /\ Pooled' /\ Private'
  <2>1. ChunkTypes'
    BY <1>1, <1>2 DEF ChunkInv, ChunkTypes
  <2>2. ExecutingOK' /\ Counted' /\ Pooled' /\ Private'
    BY <1>1, <1>2 DEF ChunkInv, ExecutingOK, Counted, Holders, Pooled, Private, Shared
  <2> QED BY <2>1, <2>2
<1>3. CASE EmitCs \/ FlushCsChunk
  <2>1. CASE csChunk # NoChunk /\ \E r \in {todo, Tail(todo)} : DispatchCsChunk(r)
    BY <1>1, <2>1, DispatchKeepsChunks
  <2>2. CASE EmitCs /\ ~Full(csChunk)
    BY <1>1, <2>2, EmitKeepsChunks
  <2>3. CASE UNCHANGED <<alive, pool, cmds, single, refs, csChunk, deferChunk, deferList,
                         cmdList, chunksQueued, executing, csPc, chunksPending>>
    BY <1>2, <2>3
  <2> QED BY <1>1, <1>3, <2>1, <2>2, <2>3, DispatchFrame
<1>4. CASE ExecuteCommandList
  <2>1. CASE nextChunk <= Len(cmdList)
    BY <1>1, <1>4, <2>1, ExecuteKeepsChunks
  <2>2. CASE ~(nextChunk <= Len(cmdList))
    <3>1. UNCHANGED <<alive, pool, cmds, single, refs, csChunk, deferChunk, deferList,
                      cmdList, chunksQueued, executing, csPc>>
      BY <1>4, <2>2 DEF ExecuteCommandList, deferVars, csVars
    <3> QED BY <1>2, <3>1
  <2> QED BY <2>1, <2>2
<1> QED BY <1>1, <1>2, <1>3, <1>4, ChunkFrame, AllocKeepsChunks, ReleaseKeepsChunks,
           DeferEmitKeepsChunks, FinishKeepsChunks, EmitListKeepsChunks, CsLockKeepsChunks,
           CsWakeKeepsChunks, ExecuteAllKeepsChunks

-----------------------------------------------------------------------------
(* Pending chunks *)

LEMMA PendingFrame ==
  [Next]_vars =>
    \/ UNCHANGED <<chunksPending, chunksQueued, executing>>
    \/ EmitCs \/ FlushCsChunk \/ ExecuteCommandList \/ CsLock \/ CsWake
  BY DEF Next, AppStep, DeferStep, CsStep, vars, chunkVars, deferVars, listVars, csVars,
         Call, AllocCsChunk, DeviceFlush, SetBusy, Synchronize, Stop, Terminated,
         ReleaseCommandList, DeferEmit, FinishCommandList, EmitToCommandList, ExecuteAll

LEMMA PendingStep ==
  ASSUME IInv, [Next]_vars
  PROVE  PendingInv'
<1>1. ChunkInv /\ PendingInv /\ ChunkTypes /\ TodoInv
  BY DEF IInv, ChunkInv
<1>2. chunksQueued \in Seq(Chunks) /\ Len(chunksQueued) \in Nat
  BY <1>1 DEF ChunkTypes
<1>3. CASE UNCHANGED <<chunksPending, chunksQueued, executing>>
  BY <1>1, <1>3 DEF PendingInv
<1>4. ASSUME NEW x \in Chunks, chunksQueued' = Append(chunksQueued, x),
             chunksPending' = chunksPending + 1, executing' = executing
      PROVE  PendingInv'
  <2>1. Len(chunksQueued') = Len(chunksQueued) + 1
    BY <1>2, <1>4
  <2> QED BY <1>1, <1>2, <1>4, <2>1 DEF PendingInv
<1>5. CASE EmitCs \/ FlushCsChunk
  <2>1. CASE csChunk # NoChunk /\ \E r \in {todo, Tail(todo)} : DispatchCsChunk(r)
    <3>1. /\ csChunk \in Chunks /\ chunksQueued' = Append(chunksQueued, csChunk)
          /\ chunksPending' = chunksPending + 1 /\ executing' = executing
      BY <1>1, <2>1 DEF ChunkTypes, DispatchCsChunk, csVars
    <3> QED BY <1>4, <3>1
  <2>2. CASE EmitCs /\ ~Full(csChunk)
    BY <1>3, <2>2 DEF EmitCs, csVars
  <2> QED BY <1>1, <1>3, <1>5, <2>1, <2>2, DispatchFrame
<1>6. CASE ExecuteCommandList
  <2>1. CASE nextChunk <= Len(cmdList)
    <3>1. /\ chunksQueued' = Append(chunksQueued, cmdList[nextChunk])
          /\ chunksPending' = chunksPending + 1 /\ executing' = executing
      BY <1>6, <2>1 DEF ExecuteCommandList, csVars
    <3>2. cmdList[nextChunk] \in Chunks
      <4>1. cmdList \in Seq(Chunks) /\ Len(cmdList) \in Nat /\ nextChunk \in 1 .. Len(cmdList) + 1
        BY <1>1 DEF ChunkTypes, TodoInv, ListKept
      <4> QED BY <2>1, <4>1
    <3> QED BY <1>4, <3>1, <3>2
  <2>2. CASE ~(nextChunk <= Len(cmdList))
    BY <1>3, <1>6, <2>2 DEF ExecuteCommandList, csVars
  <2> QED BY <2>1, <2>2
<1>7. CASE CsLock \/ CsWake
  <2>1. /\ TakeChunk
        /\ chunksPending' = IF executing # NoChunk THEN chunksPending - 1 ELSE chunksPending
    BY <1>1, <1>7 DEF CsLock, CsWake, ChunkInv, ExecutingOK
  <2>2. /\ Len(chunksQueued') + (IF executing' = NoChunk THEN 0 ELSE 1) = Len(chunksQueued)
        /\ chunksQueued' \in Seq(Chunks) /\ Len(chunksQueued') \in Nat
    BY <1>1, <2>1, TakeFacts
  <2>3. chunksPending' = Len(chunksQueued)
    BY <1>1, <1>2, <2>1 DEF PendingInv
  <2> QED BY <2>2, <2>3 DEF PendingInv
<1> QED BY <1>3, <1>5, <1>6, <1>7, PendingFrame

-----------------------------------------------------------------------------
(* The invariant *)

LEMMA InitInv ==
  ASSUME Init
  PROVE  IInv
<1>1. PICK c \in Chunks, d \in Chunks :
         /\ c # d
         /\ csChunk = c /\ deferChunk = d /\ alive = {c, d}
         /\ single = IF singleUse THEN {c, d} ELSE {c}
         /\ refs = [k \in Chunks |-> IF k \in {c, d} THEN 1 ELSE 0]
  BY DEF Init
<1>2. /\ singleUse \in BOOLEAN /\ pool = {} /\ cmds = [k \in Chunks |-> <<>>]
      /\ csIsBusy = FALSE /\ todo = <<>> /\ deferList = <<>>
      /\ cmdList = <<>> /\ hasList = FALSE /\ spent = FALSE /\ nextChunk = 1
      /\ chunksQueued = <<>> /\ chunksPending = 0
      /\ executing = NoChunk /\ csPc = "lock" /\ asleep = {} /\ recorded = FALSE
      /\ stopped = FALSE /\ numCmds = 0
  BY StreamAssumption DEF Init
<1>3. Range(<<>>) = {} /\ Len(<<>>) = 0 /\ <<>> \in Seq(Chunks) /\ <<>> \in Seq(0 .. MaxCmds + 1)
  BY DEF Range
<1>4. FlagInv
  BY <1>2 DEF FlagInv
<1>5. TodoInv
  <2>1. ProgramOK(todo)
    BY <1>2, Programs
  <2>2. CommandsBounded
    BY <1>2, <1>3, StreamAssumption DEF CommandsBounded
  <2>3. ListKept
    BY <1>2, <1>3 DEF ListKept
  <2> QED BY <2>1, <2>2, <2>3 DEF TodoInv
<1>6. ChunkTypes
  BY <1>1, <1>2, <1>3, StreamAssumption DEF ChunkTypes
<1>7. HasChunk /\ ExecutingOK
  BY <1>1, <1>2, StreamAssumption DEF HasChunk, ExecutingOK
<1>8. Pooled
  BY <1>1, <1>2 DEF Pooled
<1>9. Private
  BY <1>1, <1>2, <1>3, StreamAssumption DEF Private, Shared
<1>10. Counted
  <2>1. ASSUME NEW k \in Chunks PROVE refs[k] = Holders(k)
    <3>1. One(k, csChunk) + One(k, deferChunk) + One(k, executing) = IF k \in {c, d} THEN 1 ELSE 0
      BY <1>1, <1>2, StreamAssumption DEF One
    <3>2. Holders(k) = One(k, csChunk) + One(k, deferChunk) + One(k, executing) + 0 + 0 + 0
      BY <1>2, OccEmpty DEF Holders
    <3> QED BY <1>1, <3>1, <3>2
  <2> QED BY <2>1 DEF Counted
<1>11. PendingInv
  BY <1>2, <1>3 DEF PendingInv
<1> QED BY <1>4, <1>5, <1>6, <1>7, <1>8, <1>9, <1>10, <1>11 DEF IInv, ChunkInv

LEMMA InvStep == IInv /\ [Next]_vars => IInv'
<1> SUFFICES ASSUME IInv, [Next]_vars PROVE IInv'
  OBVIOUS
<1>1. FlagInv /\ TodoInv /\ HasChunk /\ ChunkTypes
  BY DEF IInv, ChunkInv
<1>2. FlagInv' /\ TodoInv' /\ HasChunk'
  BY <1>1, FlagStep, TodoStep
<1>3. ChunkTypes' /\ ExecutingOK' /\ Counted' /\ Pooled' /\ Private'
  BY ChunkStep
<1>4. PendingInv'
  BY PendingStep
<1> QED BY <1>2, <1>3, <1>4 DEF IInv, ChunkInv

LEMMA Invariance == Spec => []IInv
  BY InitInv, InvStep, PTL DEF Spec

(* Variables keep their types, no chunk holds more commands than fit, the
   context is without a chunk only between EmitCsChunk and AllocCsChunk, and
   EmitToCsThread stays within the list it dispatches (dxvk_cs.h,
   d3d9_device.cpp, d3d11_context_imm.cpp). *)
THEOREM TypeCorrect == Spec => []TypeOK
<1>1. IInv => TypeOK
  <2> SUFFICES ASSUME IInv PROVE TypeOK
    OBVIOUS
  <2>1. chunksPending \in Nat
    <3>1. chunksQueued \in Seq(Chunks) /\ Len(chunksQueued) \in Nat
      BY DEF IInv, ChunkInv, ChunkTypes
    <3> QED BY <3>1 DEF IInv, PendingInv
  <2>2. (csChunk = NoChunk) = (todo # <<>> /\ Head(todo) = "alloc")
    BY DEF IInv, ChunkInv, HasChunk
  <2> QED BY <2>1, <2>2 DEF TypeOK, IInv, FlagInv, TodoInv, ListKept, ChunkInv, ChunkTypes
<1> QED BY <1>1, Invariance, PTL

(* The references of the two contexts and the dxvk-cs thread, as a sequence. *)
LEMMA OwnersCounted ==
  ASSUME ChunkTypes, NEW c \in Chunks
  PROVE  Occurrences(c, <<csChunk, deferChunk, executing>> \o deferList \o cmdList
                        \o chunksQueued) = Holders(c)
<1> DEFINE S == Chunks \cup {NoChunk}
           u == <<csChunk>>
           v == <<deferChunk>>
           w == <<executing>>
<1>1. /\ u \in Seq(S) /\ v \in Seq(S) /\ w \in Seq(S)
      /\ deferList \in Seq(S) /\ cmdList \in Seq(S) /\ chunksQueued \in Seq(S)
  BY DEF ChunkTypes
<1>2. /\ Occurrences(c, u) = One(c, csChunk) /\ Occurrences(c, v) = One(c, deferChunk)
      /\ Occurrences(c, w) = One(c, executing)
  BY OccSingle
<1>3. <<csChunk, deferChunk, executing>> = u \o v \o w
  OBVIOUS
<1> HIDE DEF S, u, v, w
<1> DEFINE p == u \o v
           q == p \o w
           r == q \o deferList
           s == r \o cmdList
<1>4. /\ p \in Seq(S) /\ Occurrences(c, p) = Occurrences(c, u) + Occurrences(c, v)
  BY <1>1, OccConcat, ConcatProperties
<1>5. q \in Seq(S) /\ Occurrences(c, q) = Occurrences(c, p) + Occurrences(c, w)
  <2> HIDE DEF p
  <2> QED BY <1>1, <1>4, OccConcat, ConcatProperties
<1>6. r \in Seq(S) /\ Occurrences(c, r) = Occurrences(c, q) + Occurrences(c, deferList)
  <2> HIDE DEF q
  <2> QED BY <1>1, <1>5, OccConcat, ConcatProperties
<1>7. s \in Seq(S) /\ Occurrences(c, s) = Occurrences(c, r) + Occurrences(c, cmdList)
  <2> HIDE DEF r
  <2> QED BY <1>1, <1>6, OccConcat, ConcatProperties
<1>8. Occurrences(c, s \o chunksQueued) = Occurrences(c, s) + Occurrences(c, chunksQueued)
  <2> HIDE DEF s
  <2> QED BY <1>1, <1>7, OccConcat
<1>9. Occurrences(c, s \o chunksQueued) =
         One(c, csChunk) + One(c, deferChunk) + One(c, executing)
         + Occurrences(c, deferList) + Occurrences(c, cmdList) + Occurrences(c, chunksQueued)
  <2> HIDE DEF p, q, r, s
  <2> QED BY <1>2, <1>4, <1>5, <1>6, <1>7, <1>8
<1> QED BY <1>3, <1>9 DEF Holders

(* A chunk returns to the pool exactly when its last reference goes, and the
   chunk a context records into is in nobody else's hands, through dispatches,
   command lists executed any number of times, and releases
   (dxvk_cs.cpp, DxvkCsChunkRef; d3d11_context_def.cpp). *)
THEOREM ChunksAreOwned == Spec => []ChunksOwned
<1>1. IInv => ChunksOwned
  <2> SUFFICES ASSUME IInv PROVE ChunksOwned
    OBVIOUS
  <2>1. ChunkTypes /\ Counted /\ Pooled /\ Private
    BY DEF IInv, ChunkInv
  <2>2. ASSUME NEW c \in Chunks
        PROVE  /\ refs[c] = Occurrences(c, <<csChunk, deferChunk, executing>> \o deferList
                                           \o cmdList \o chunksQueued)
               /\ refs[c] = 0 <=> c \notin alive \ pool
               /\ c \in pool => cmds[c] = <<>>
    <3>1. refs[c] = Holders(c) /\ (refs[c] = 0 <=> c \notin alive \ pool)
          /\ (refs[c] = 0 => cmds[c] = <<>>)
      BY <2>1 DEF Counted, Pooled
    <3>2. Occurrences(c, <<csChunk, deferChunk, executing>> \o deferList
                         \o cmdList \o chunksQueued) = Holders(c)
      BY <2>1, OwnersCounted
    <3> QED BY <3>1, <3>2
  <2>3. Range(chunksQueued \o deferList \o cmdList) \cup {executing} = Shared
    <3>1. deferList \in Seq(Chunks) /\ cmdList \in Seq(Chunks) /\ chunksQueued \in Seq(Chunks)
      BY <2>1 DEF ChunkTypes
    <3> DEFINE a == chunksQueued \o deferList
    <3>2. a \in Seq(Chunks) /\ Range(a) = Range(chunksQueued) \cup Range(deferList)
      BY <3>1, ConcatProperties, RangeConcatenation
    <3>3. Range(a \o cmdList) = Range(a) \cup Range(cmdList)
      <4> HIDE DEF a
      <4> QED BY <3>1, <3>2, RangeConcatenation
    <3> QED BY <3>2, <3>3 DEF Shared
  <2>4. RecordingPrivate
    BY <2>1, <2>3 DEF RecordingPrivate, Private
  <2> QED BY <2>2, <2>4 DEF ChunksOwned, ReferenceCounts
<1> QED BY <1>1, Invariance, PTL

-----------------------------------------------------------------------------
(* Synchronization *)

(* SynchronizeCsThread dispatches before it waits, and nothing comes between. *)
SyncOrder(s) ==
    \A i \in 2 .. Len(s) : s[i] \in {"sync", "wait"} => s[i - 1] \in {"dispatch", "alloc"}

(* So nothing is left in the context's chunk when it waits. *)
DrainInv ==
    /\ SyncOrder(todo)
    /\ todo # <<>> /\ Head(todo) \in {"sync", "wait"} => Content(csChunk) = <<>>

LEMMA OrderTail ==
  ASSUME NEW s \in Seq(StepNames), s # <<>>, SyncOrder(s)
  PROVE  /\ SyncOrder(Tail(s))
         /\ Tail(s) # <<>> /\ Head(Tail(s)) \in {"sync", "wait"} => Head(s) \in {"dispatch", "alloc"}
<1>1. /\ Tail(s) \in Seq(StepNames) /\ Len(s) \in Nat \ {0} /\ Len(Tail(s)) = Len(s) - 1
      /\ Head(s) = s[1] /\ \A i \in 1 .. Len(s) - 1 : Tail(s)[i] = s[i + 1]
  BY HeadTailProperties, EmptySeq
<1>2. ASSUME NEW i \in 2 .. Len(Tail(s)), Tail(s)[i] \in {"sync", "wait"}
      PROVE  Tail(s)[i - 1] \in {"dispatch", "alloc"}
  <2>1. /\ i \in 1 .. Len(s) - 1 /\ i - 1 \in 1 .. Len(s) - 1 /\ i + 1 \in 2 .. Len(s)
        /\ (i + 1) - 1 = i /\ (i - 1) + 1 = i
    BY <1>1
  <2>2. Tail(s)[i] = s[i + 1] /\ Tail(s)[i - 1] = s[i]
    BY <1>1, <2>1
  <2> QED BY <1>2, <2>1, <2>2 DEF SyncOrder
<1>3. ASSUME Tail(s) # <<>>, Head(Tail(s)) \in {"sync", "wait"}
      PROVE  Head(s) \in {"dispatch", "alloc"}
  <2>1. Head(Tail(s)) = Tail(s)[1] /\ Len(Tail(s)) \in Nat \ {0}
    BY <1>1, <1>3, HeadTailProperties, EmptySeq
  <2>2. 2 \in 2 .. Len(s) /\ 1 \in 1 .. Len(s) - 1 /\ 2 - 1 = 1 /\ 1 + 1 = 2
    BY <1>1, <2>1
  <2>3. Head(Tail(s)) = s[2]
    BY <1>1, <2>1, <2>2
  <2>4. s[2] \in {"sync", "wait"} => s[2 - 1] \in {"dispatch", "alloc"}
    BY <2>2 DEF SyncOrder
  <2> QED BY <1>1, <1>3, <2>2, <2>3, <2>4
<1> QED BY <1>2, <1>3 DEF SyncOrder

LEMMA OrderCons ==
  ASSUME NEW s \in Seq(StepNames), SyncOrder(s), NEW x \in StepNames,
         s # <<>> /\ Head(s) \in {"sync", "wait"} => x \in {"dispatch", "alloc"}
  PROVE  /\ SyncOrder(<<x>> \o s) /\ <<x>> \o s \in Seq(StepNames)
         /\ <<x>> \o s # <<>> /\ Head(<<x>> \o s) = x
<1> DEFINE h == <<x>>
           t == h \o s
<1>1. h \in Seq(StepNames) /\ Len(h) = 1 /\ h[1] = x /\ Len(s) \in Nat
  OBVIOUS
<1> HIDE DEF h
<1>2. /\ t \in Seq(StepNames) /\ Len(t) = Len(h) + Len(s)
      /\ \A i \in 1 .. Len(h) + Len(s) : t[i] = IF i <= Len(h) THEN h[i] ELSE s[i - Len(h)]
  BY <1>1, ConcatProperties
<1>3. Len(t) = Len(s) + 1 /\ t[1] = x
  BY <1>1, <1>2
<1> HIDE DEF t
<1>4. ASSUME NEW i \in 2 .. Len(t) PROVE t[i] = s[i - 1] /\ i - 1 \in 1 .. Len(s)
  <2>1. ~(i <= Len(h)) /\ i \in 1 .. Len(h) + Len(s) /\ i - Len(h) = i - 1 /\ i - 1 \in 1 .. Len(s)
    BY <1>1, <1>3
  <2> QED BY <1>2, <2>1
<1>5. ASSUME NEW i \in 2 .. Len(t), t[i] \in {"sync", "wait"}
      PROVE  t[i - 1] \in {"dispatch", "alloc"}
  <2>1. CASE i = 2
    <3>1. i - 1 = 1 /\ s[1] \in {"sync", "wait"} /\ s # <<>>
      BY <1>4, <1>5, <2>1, EmptySeq
    <3>2. Head(s) = s[1]
      BY <3>1, HeadTailProperties
    <3> QED BY <1>3, <3>1, <3>2
  <2>2. CASE i # 2
    <3>1. i - 1 \in 2 .. Len(t) /\ i - 1 \in 2 .. Len(s)
      BY <1>1, <1>3, <2>2
    <3>2. t[i] = s[i - 1] /\ t[i - 1] = s[(i - 1) - 1]
      BY <1>4, <3>1
    <3> QED BY <1>5, <3>1, <3>2 DEF SyncOrder
  <2> QED BY <2>1, <2>2
<1>6. t # <<>> /\ Head(t) = x
  <2>1. t # <<>>
    BY <1>1, <1>2, <1>3, EmptySeq
  <2> QED BY <1>2, <1>3, <2>1, HeadTailProperties
<1> QED BY <1>2, <1>5, <1>6 DEF SyncOrder, t, h

(* The three steps of a flush in front of what is left. *)
LEMMA OrderFlush ==
  ASSUME NEW s \in Seq(StepNames), SyncOrder(s),
         ~(s # <<>> /\ Head(s) \in {"sync", "wait"})
  PROVE  /\ SyncOrder(FlushProgram \o s) /\ FlushProgram \o s # <<>>
         /\ Head(FlushProgram \o s) = "emitFlush"
<1> DEFINE a == <<"emitFlush">>
           b == <<"dispatch">>
           c == <<"notBusy">>
           p == c \o s
           q == b \o p
<1>1. {"emitFlush", "dispatch", "notBusy"} \subseteq StepNames
  BY DEF StepNames
<1>2. SyncOrder(p) /\ p \in Seq(StepNames) /\ p # <<>> /\ Head(p) = "notBusy"
  BY <1>1, OrderCons
<1>3. SyncOrder(q) /\ q \in Seq(StepNames) /\ q # <<>> /\ Head(q) = "dispatch"
  <2> HIDE DEF p
  <2> QED BY <1>1, <1>2, OrderCons
<1>4. SyncOrder(a \o q) /\ a \o q # <<>> /\ Head(a \o q) = "emitFlush"
  <2> HIDE DEF q
  <2> QED BY <1>1, <1>3, OrderCons
<1>5. FlushProgram \o s = a \o q
  <2>1. a \in Seq(StepNames) /\ b \in Seq(StepNames) /\ c \in Seq(StepNames)
    BY <1>1
  <2>2. FlushProgram = a \o (b \o c)
    BY DEF FlushProgram
  <2> HIDE DEF a, b, c
  <2> DEFINE d == b \o c
  <2>3. d \in Seq(StepNames)
    BY <2>1, ConcatProperties
  <2>4. d \o s = b \o (c \o s)
    BY <2>1, ConcatAssociative
  <2>5. (a \o d) \o s = a \o (d \o s)
    <3> HIDE DEF d
    <3> QED BY <2>1, <2>3, ConcatAssociative
  <2> QED BY <2>2, <2>4, <2>5
<1> QED BY <1>4, <1>5

(* Nobody but EmitCs puts a command into the chunk of the immediate context. *)
LEMMA EmptyKept ==
  ASSUME IInv, [Next]_vars, ~EmitCs, UNCHANGED csChunk, Content(csChunk) = <<>>
  PROVE  Content(csChunk)' = <<>>
<1>1. CASE csChunk = NoChunk
  BY <1>1 DEF Content
<1>2. CASE csChunk # NoChunk
  <2>1. csChunk \in Chunks /\ cmds \in [Chunks -> Seq(0 .. MaxCmds + 1)] /\ cmds[csChunk] = <<>>
    BY <1>2 DEF IInv, ChunkInv, ChunkTypes, Content
  <2>2. CASE UNCHANGED cmds
    BY <1>2, <2>1, <2>2 DEF Content
  <2>3. CASE DeferEmit
    <3>1. cmds' = [cmds EXCEPT ![deferChunk'] = Append(@, numCmds')]
      BY <2>3 DEF DeferEmit
    <3>2. deferChunk' # csChunk
      <4>1. Private' /\ csChunk' = csChunk
        BY ChunkStep
      <4> QED BY <4>1 DEF Private
    <3>3. cmds'[csChunk] = cmds[csChunk]
      BY <2>1, <3>1, <3>2
    <3> QED BY <1>2, <2>1, <3>3 DEF Content
  <2>4. CASE ReleaseCommandList \/ CsLock \/ ExecuteAll
    <3>1. \/ \E f : cmds' = [c \in Chunks |-> IF c \in f THEN <<>> ELSE cmds[c]]
          \/ cmds' = cmds
          \/ cmds' = [cmds EXCEPT ![executing] = <<>>]
      BY <2>4 DEF ReleaseCommandList, CsLock, ExecuteAll, Release
    <3>2. cmds'[csChunk] = <<>>
      BY <2>1, <3>1
    <3> QED BY <1>2, <3>2 DEF Content
  <2>5. UNCHANGED cmds \/ DeferEmit \/ ReleaseCommandList \/ CsLock \/ ExecuteAll
    BY DEF Next, AppStep, DeferStep, CsStep, vars, chunkVars, Call, AllocCsChunk, FlushCsChunk,
           DispatchCsChunk, DeviceFlush, SetBusy, Synchronize, ExecuteCommandList, Stop,
           FinishCommandList, EmitToCommandList, CsWake, Terminated
  <2> QED BY <2>2, <2>3, <2>4, <2>5
<1> QED BY <1>1, <1>2

(* The next step of the program is done, and what follows does not wait. *)
LEMMA PopKeepsDrain ==
  ASSUME TodoInv, DrainInv, todo # <<>>, todo' = Tail(todo),
         Head(todo) \notin {"dispatch", "alloc"} \/ Content(csChunk)' = <<>>
  PROVE  DrainInv'
<1>1. todo \in Seq(StepNames)
  BY DEF TodoInv, ProgramOK
<1>2. /\ SyncOrder(Tail(todo))
      /\ Tail(todo) # <<>> /\ Head(Tail(todo)) \in {"sync", "wait"}
            => Head(todo) \in {"dispatch", "alloc"}
  BY <1>1, OrderTail DEF DrainInv
<1> QED BY <1>2 DEF DrainInv, SyncOrder

LEMMA DispatchKeepsDrain ==
  ASSUME TodoInv, DrainInv, NEW r \in {todo, Tail(todo)}, DispatchCsChunk(r), todo # <<>>
  PROVE  DrainInv'
<1>1. todo' = <<"alloc">> \o r /\ "alloc" \in StepNames
  BY DEF DispatchCsChunk, StepNames
<1>2. todo \in Seq(StepNames)
  BY DEF TodoInv, ProgramOK
<1>3. r \in Seq(StepNames) /\ SyncOrder(r)
  BY <1>2, OrderTail, HeadTailProperties DEF DrainInv
<1> DEFINE n == <<"alloc">> \o r
<1>4. SyncOrder(n) /\ Head(n) = "alloc" /\ todo' = n
  BY <1>1, <1>3, OrderCons
<1> HIDE DEF n
<1> QED BY <1>4 DEF DrainInv, SyncOrder

LEMMA DrainStep ==
  ASSUME IInv, DrainInv, [Next]_vars
  PROVE  DrainInv'
<1>1. /\ TodoInv /\ ChunkInv /\ ChunkTypes /\ Pooled /\ FlagInv
      /\ todo \in Seq(StepNames) /\ SyncOrder(todo)
  BY DEF IInv, ChunkInv, TodoInv, ProgramOK, DrainInv
<1>2. ASSUME UNCHANGED <<todo, csChunk>>, ~EmitCs
      PROVE  DrainInv'
  BY <1>2, EmptyKept DEF DrainInv, SyncOrder
<1>3. ASSUME todo # <<>>, todo' = Tail(todo), Head(todo) \notin {"dispatch", "alloc"}
      PROVE  DrainInv'
  BY <1>1, <1>3, PopKeepsDrain
<1>4. CASE Call
  <2>1. todo' \in {<<"emit">>, <<"flush">>, SyncProgram, DestroyProgram, ExecuteProgram}
    BY <1>4 DEF Call
  <2>2. SyncOrder(todo') /\ Head(todo') \notin {"sync", "wait"}
    BY <2>1 DEF SyncOrder, SyncProgram, DestroyProgram, ExecuteProgram
  <2> QED BY <2>2 DEF DrainInv, SyncOrder
<1>5. CASE AllocCsChunk
  <2>1. PICK c \in Chunks : Alloc(c, TRUE, refs) /\ csChunk' = c
    BY <1>5 DEF AllocCsChunk
  <2>2. cmds' = cmds /\ todo # <<>> /\ todo' = Tail(todo)
    BY <1>5 DEF AllocCsChunk
  <2>3. refs \in [Chunks -> Nat]
    BY <1>1 DEF ChunkTypes
  <2>4. cmds[c] = <<>>
    BY <1>1, <2>1, <2>3, AllocFresh
  <2>5. Content(csChunk)' = <<>>
    BY <2>1, <2>2, <2>4 DEF Content
  <2> QED BY <1>1, <2>2, <2>5, PopKeepsDrain
<1>6. CASE EmitCs
  <2>1. todo # <<>> /\ Head(todo) \in {"emit", "emitFlush"}
    BY <1>6 DEF EmitCs
  <2>2. CASE Full(csChunk)
    BY <1>1, <1>6, <2>1, <2>2, DispatchKeepsDrain DEF EmitCs
  <2>3. CASE ~Full(csChunk)
    BY <1>3, <1>6, <2>1, <2>3 DEF EmitCs
  <2> QED BY <2>2, <2>3
<1>7. CASE FlushCsChunk
  <2>1. todo # <<>> /\ Head(todo) = "dispatch"
    BY <1>7 DEF FlushCsChunk
  <2>2. CASE cmds[csChunk] # <<>>
    BY <1>1, <1>7, <2>1, <2>2, DispatchKeepsDrain DEF FlushCsChunk
  <2>3. CASE cmds[csChunk] = <<>>
    <3>1. todo' = Tail(todo) /\ UNCHANGED <<cmds, csChunk>>
      BY <1>7, <2>3 DEF FlushCsChunk, chunkVars
    <3>2. Content(csChunk)' = <<>>
      BY <2>3, <3>1 DEF Content
    <3> QED BY <1>1, <2>1, <3>1, <3>2, PopKeepsDrain
  <2> QED BY <2>2, <2>3
<1>8. CASE DeviceFlush
  <2>1. /\ todo # <<>> /\ Head(todo) \in {"flush", "maybeFlush"}
        /\ todo' \in {FlushProgram \o Tail(todo), Tail(todo)}
    BY <1>8 DEF DeviceFlush
  <2>2. CASE todo' = Tail(todo)
    BY <1>3, <2>1, <2>2
  <2>3. CASE todo' = FlushProgram \o Tail(todo)
    <3> DEFINE n == FlushProgram \o Tail(todo)
    <3>1. /\ Tail(todo) \in Seq(StepNames) /\ SyncOrder(Tail(todo))
          /\ ~(Tail(todo) # <<>> /\ Head(Tail(todo)) \in {"sync", "wait"})
      BY <1>1, <2>1, OrderTail, HeadTailProperties
    <3>2. SyncOrder(n) /\ Head(n) = "emitFlush" /\ todo' = n
      BY <2>3, <3>1, OrderFlush
    <3> HIDE DEF n
    <3> QED BY <3>2 DEF DrainInv, SyncOrder
  <2> QED BY <2>1, <2>2, <2>3
<1>9. CASE SetBusy \/ Stop
  BY <1>3, <1>9 DEF SetBusy, Stop
<1>10. CASE Synchronize
  <2>1. /\ todo # <<>> /\ Head(todo) \in {"sync", "wait"} /\ UNCHANGED <<cmds, csChunk>>
        /\ todo' \in {todo, Tail(todo), <<"wait">> \o Tail(todo)}
    BY <1>10 DEF Synchronize, chunkVars
  <2>2. CASE todo' = todo
    BY <2>1, <2>2 DEF DrainInv, SyncOrder, Content
  <2>3. CASE todo' = Tail(todo)
    BY <1>3, <2>1, <2>3
  <2>4. CASE todo' = <<"wait">> \o Tail(todo)
    <3> DEFINE n == <<"wait">> \o Tail(todo)
    <3>1. /\ Tail(todo) \in Seq(StepNames) /\ SyncOrder(Tail(todo)) /\ "wait" \in StepNames
          /\ ~(Tail(todo) # <<>> /\ Head(Tail(todo)) \in {"sync", "wait"})
      BY <1>1, <2>1, OrderTail, HeadTailProperties DEF StepNames
    <3>2. SyncOrder(n) /\ todo' = n
      BY <2>4, <3>1, OrderCons
    <3> HIDE DEF n
    <3>3. Content(csChunk) = <<>>
      BY <2>1 DEF DrainInv
    <3> QED BY <2>1, <3>2, <3>3 DEF DrainInv, SyncOrder, Content
  <2> QED BY <2>1, <2>2, <2>3, <2>4
<1>11. CASE ExecuteCommandList
  <2>1. todo # <<>> /\ Head(todo) = "list" /\ UNCHANGED <<cmds, csChunk>>
        /\ todo' \in {todo, Tail(todo)}
    BY <1>11 DEF ExecuteCommandList
  <2>2. CASE todo' = todo
    BY <2>1, <2>2 DEF DrainInv, SyncOrder, Content
  <2>3. CASE todo' = Tail(todo)
    BY <1>3, <2>1, <2>3
  <2> QED BY <2>1, <2>2, <2>3
<1>12. ASSUME ~EmitCs, UNCHANGED <<todo, numCmds, hasList, nextChunk, cmdList, csChunk>>
       PROVE  DrainInv'
  BY <1>2, <1>12
<1>13. CASE ReleaseCommandList \/ DeferEmit \/ FinishCommandList
  <2>1. UNCHANGED <<todo, csChunk>>
    BY <1>13 DEF ReleaseCommandList, DeferEmit, FinishCommandList
  <2> QED BY <1>2, <1>6, <2>1
<1> QED BY <1>4, <1>5, <1>6, <1>7, <1>8, <1>9, <1>10, <1>11, <1>12, <1>13, TodoFrame

LEMMA SyncReturns ==
  ASSUME IInv, DrainInv, [Next]_vars,
         todo # <<>>, Head(todo) \in {"sync", "wait"}, todo' = Tail(todo)
  PROVE  Synchronize /\ chunksQueued = <<>> /\ executing = NoChunk /\ Pipe = <<>>
<1>1. todo \in Seq(StepNames) /\ todo' # todo
  <2>1. todo \in Seq(StepNames)
    BY DEF IInv, TodoInv, ProgramOK
  <2>2. Len(Tail(todo)) = Len(todo) - 1 /\ Len(todo) \in Nat
    BY <2>1, HeadTailProperties
  <2> DEFINE n == Len(todo)
  <2>3. n \in Nat /\ Len(Tail(todo)) = n - 1
    BY <2>2
  <2> HIDE DEF n
  <2>4. n - 1 # n
    BY <2>3
  <2>5. Tail(todo) # todo
    BY <2>3, <2>4 DEF n
  <2> QED BY <2>1, <2>5
<1>2. Synchronize
  BY <1>1, TodoFrame DEF Call, AllocCsChunk, EmitCs, FlushCsChunk, DeviceFlush, SetBusy,
         ExecuteCommandList, Stop, ReleaseCommandList, DeferEmit, FinishCommandList
<1>3. chunksPending = 0
  <2>1. todo' # <<"wait">> \o Tail(todo)
    <3>1. Tail(todo) \in Seq(StepNames) /\ <<"wait">> \in Seq(StepNames) /\ Len(<<"wait">>) = 1
      BY <1>1 DEF StepNames
    <3>2. Len(<<"wait">> \o Tail(todo)) = 1 + Len(Tail(todo)) /\ Len(Tail(todo)) \in Nat
      BY <3>1, ConcatProperties
    <3> QED BY <3>2
  <2> QED BY <1>1, <1>2, <2>1 DEF Synchronize, NothingPending
<1>4. chunksQueued = <<>> /\ executing = NoChunk
  <2>1. chunksQueued \in Seq(Chunks) /\ Len(chunksQueued) \in Nat
    BY DEF IInv, ChunkInv, ChunkTypes
  <2>2. Len(chunksQueued) = 0 /\ executing = NoChunk
    BY <1>3, <2>1 DEF IInv, PendingInv
  <2> QED BY <2>1, <2>2, EmptySeq
<1>5. csPc # "exec"
  BY <1>4 DEF IInv, ChunkInv, ExecutingOK
<1>6. Content(csChunk) = <<>>
  BY DEF DrainInv
<1>7. Commands(chunksQueued) = <<>>
  <2> DEFINE q == [i \in DOMAIN chunksQueued |-> cmds[chunksQueued[i]]]
  <2>1. q = <<>>
    BY <1>4
  <2> HIDE DEF q
  <2>2. FlattenSeq(q) = <<>>
    BY <2>1 DEF FlattenSeq
  <2> QED BY <2>2 DEF q, Commands
<1> QED BY <1>2, <1>4, <1>5, <1>6, <1>7 DEF Pipe, Running, Waiting

(* When synchronize() returns, every command the application issued has run:
   the wait is for the chunks that are pending, so it covers the one the
   thread has popped and is still executing (dxvk_cs.cpp:124). *)
THEOREM SynchronizeWaits == Spec => SynchronizeDrains
<1>1. Init => DrainInv
  BY DEF Init, DrainInv, SyncOrder
<1>2. IInv /\ DrainInv /\ [Next]_vars => DrainInv'
  BY DrainStep
<1>3. IInv /\ DrainInv /\ [Next]_vars =>
         [todo # <<>> /\ Head(todo) \in {"sync", "wait"} /\ todo' = Tail(todo)
             => Pipe = <<>>]_vars
  BY SyncReturns
<1> QED BY <1>1, <1>2, <1>3, Invariance, PTL DEF Spec, SynchronizeDrains

-----------------------------------------------------------------------------
(* What may still follow a step in a call *)

After(x) ==
    CASE x = "emit" -> {"busy"}
      [] x = "flush" -> {"dispatch", "sync", "stop"}
      [] x = "dispatch" -> {"dispatch", "maybeFlush", "list", "emit", "busy", "notBusy",
                            "sync", "stop"}
      [] x = "alloc" -> {"dispatch", "maybeFlush", "list", "emit", "emitFlush", "busy",
                         "notBusy", "sync", "stop"}
      [] x = "emitFlush" -> {"dispatch", "list", "emit", "busy", "notBusy", "sync", "stop"}
      [] x = "notBusy" -> {"dispatch", "list", "emit", "busy", "sync", "stop"}
      [] x = "maybeFlush" -> {"list", "emit", "busy"}
      [] x = "list" -> {"emit", "busy"}
      [] x \in {"sync", "wait"} -> {"stop"}
      [] OTHER -> {}

(* The order of the steps that are left: a flush ends with a dispatch, the end
   of the context is behind a wait, and m_csIsBusy is set after a list. *)
Behind(s) == \A i, j \in 1 .. Len(s) : i < j => s[j] \in After(s[i])

OrderInv ==
    /\ Behind(todo)
    /\ "emitFlush" \in Range(todo) => "dispatch" \in Range(todo)
    /\ "list" \in Range(todo) => "busy" \in Range(todo) /\ spent
    /\ "stop" \in Range(todo) => Range(todo) = {"stop"} \/ Range(todo) \cap {"sync", "wait"} # {}

(* What of the finished list is still to be executed. *)
ListLeft ==
    IF "list" \in Range(todo) THEN SubSeq(cmdList, nextChunk, Len(cmdList))
    ELSE IF spent THEN <<>> ELSE cmdList

(* The times the dxvk-cs thread will yet execute a chunk that has been
   dispatched or recorded into a list. *)
Runs(c) == (IF csPc = "exec" THEN One(c, executing) ELSE 0)
           + Occurrences(c, chunksQueued) + Occurrences(c, deferList)
           + Occurrences(c, ListLeft)

(* A chunk that is emptied after it has run runs once. *)
SingleInv ==
    /\ \A c \in single : Runs(c) <= 1
    /\ ~singleUse => single \cap (Range(deferList) \cup Range(cmdList) \cup {deferChunk}) = {}

(* When a list is executed, the commands before it have been dispatched. *)
ListInv ==
    "list" \in Range(todo) /\ "dispatch" \notin Range(todo) => Content(csChunk) = <<>>

(* The steps behind the next one are those that may follow it. *)
LEMMA BehindTail ==
  ASSUME NEW s \in Seq(StepNames), s # <<>>, Behind(s)
  PROVE  /\ Behind(Tail(s)) /\ Range(Tail(s)) \subseteq After(Head(s))
         /\ Range(s) = Range(Tail(s)) \cup {Head(s)} /\ Tail(s) \in Seq(StepNames)
<1>1. /\ Tail(s) \in Seq(StepNames) /\ Len(s) \in Nat \ {0} /\ Len(Tail(s)) = Len(s) - 1
      /\ Head(s) = s[1] /\ \A i \in 1 .. Len(s) - 1 : Tail(s)[i] = s[i + 1]
  BY HeadTailProperties, EmptySeq
<1>2. ASSUME NEW i \in 1 .. Len(Tail(s)), NEW j \in 1 .. Len(Tail(s)), i < j
      PROVE  Tail(s)[j] \in After(Tail(s)[i])
  <2>1. i + 1 \in 1 .. Len(s) /\ j + 1 \in 1 .. Len(s) /\ i + 1 < j + 1
    BY <1>1, <1>2
  <2>2. s[j + 1] \in After(s[i + 1])
    BY <2>1 DEF Behind
  <2> QED BY <1>1, <2>2
<1>3. ASSUME NEW j \in 1 .. Len(Tail(s)) PROVE Tail(s)[j] \in After(Head(s))
  <2>1. 1 \in 1 .. Len(s) /\ j + 1 \in 1 .. Len(s) /\ 1 < j + 1
    BY <1>1
  <2>2. s[j + 1] \in After(s[1])
    BY <2>1 DEF Behind
  <2> QED BY <1>1, <2>2
<1>4. Range(Tail(s)) \subseteq After(Head(s))
  BY <1>1, <1>3 DEF Range
<1> QED BY <1>1, <1>2, <1>4, PopRange DEF Behind

LEMMA BehindCons ==
  ASSUME NEW s \in Seq(StepNames), Behind(s), NEW x \in StepNames, Range(s) \subseteq After(x)
  PROVE  /\ Behind(<<x>> \o s) /\ <<x>> \o s \in Seq(StepNames)
         /\ Range(<<x>> \o s) = Range(s) \cup {x}
         /\ <<x>> \o s # <<>> /\ Head(<<x>> \o s) = x /\ Tail(<<x>> \o s) = s
<1> DEFINE h == <<x>>
           t == h \o s
<1>1. h \in Seq(StepNames) /\ Len(h) = 1 /\ h[1] = x /\ Len(s) \in Nat /\ Range(h) = {x}
  BY DEF Range
<1>2. t # <<>> /\ Head(t) = x /\ Tail(t) = s
  OBVIOUS
<1> HIDE DEF h
<1>3. /\ t \in Seq(StepNames) /\ Len(t) = Len(h) + Len(s)
      /\ \A i \in 1 .. Len(h) + Len(s) : t[i] = IF i <= Len(h) THEN h[i] ELSE s[i - Len(h)]
  BY <1>1, ConcatProperties
<1>7. Range(t) = Range(s) \cup {x}
  BY <1>1, ConcatFacts
<1> HIDE DEF t
<1>4. ASSUME NEW i \in 2 .. Len(t) PROVE t[i] = s[i - 1] /\ i - 1 \in 1 .. Len(s)
  <2>1. ~(i <= Len(h)) /\ i \in 1 .. Len(h) + Len(s) /\ i - Len(h) = i - 1 /\ i - 1 \in 1 .. Len(s)
    BY <1>1, <1>3
  <2> QED BY <1>3, <2>1
<1>5. t[1] = x
  BY <1>1, <1>3
<1>6. ASSUME NEW i \in 1 .. Len(t), NEW j \in 1 .. Len(t), i < j
      PROVE  t[j] \in After(t[i])
  <2>1. j \in 2 .. Len(t)
    BY <1>1, <1>3, <1>6
  <2>2. t[j] = s[j - 1] /\ j - 1 \in 1 .. Len(s)
    BY <1>4, <2>1
  <2>3. CASE i = 1
    BY <1>5, <2>2, <2>3 DEF Range
  <2>4. CASE i # 1
    <3>1. i \in 2 .. Len(t)
      BY <2>4
    <3>2. t[i] = s[i - 1] /\ i - 1 \in 1 .. Len(s)
      BY <1>4, <3>1
    <3>3. i - 1 < j - 1
      BY <1>6
    <3> QED BY <2>2, <3>2, <3>3 DEF Behind
  <2> QED BY <2>3, <2>4
<1> QED BY <1>2, <1>3, <1>6, <1>7 DEF Behind, t, h

(* The three steps of a flush in front of what is left. *)
LEMMA BehindFlush ==
  ASSUME NEW s \in Seq(StepNames), Behind(s), Range(s) \subseteq After("notBusy")
  PROVE  /\ Behind(FlushProgram \o s) /\ FlushProgram \o s \in Seq(StepNames)
         /\ Range(FlushProgram \o s) = Range(s) \cup {"emitFlush", "dispatch", "notBusy"}
<1> DEFINE a == <<"emitFlush">>
           b == <<"dispatch">>
           c == <<"notBusy">>
           p == c \o s
           q == b \o p
<1>1. {"emitFlush", "dispatch", "notBusy"} \subseteq StepNames
  BY DEF StepNames
<1>2. Behind(p) /\ p \in Seq(StepNames) /\ Range(p) = Range(s) \cup {"notBusy"}
  BY <1>1, BehindCons
<1>3. Behind(q) /\ q \in Seq(StepNames) /\ Range(q) = Range(s) \cup {"notBusy", "dispatch"}
  <2>1. Range(p) \subseteq After("dispatch")
    BY <1>2 DEF After
  <2> HIDE DEF p
  <2>2. Behind(q) /\ q \in Seq(StepNames) /\ Range(q) = Range(p) \cup {"dispatch"}
    BY <1>1, <1>2, <2>1, BehindCons
  <2> QED BY <1>2, <2>2
<1>4. /\ Behind(a \o q) /\ a \o q \in Seq(StepNames)
      /\ Range(a \o q) = Range(s) \cup {"notBusy", "dispatch", "emitFlush"}
  <2>1. Range(q) \subseteq After("emitFlush")
    BY <1>3 DEF After
  <2> HIDE DEF q
  <2>2. Behind(a \o q) /\ a \o q \in Seq(StepNames) /\ Range(a \o q) = Range(q) \cup {"emitFlush"}
    BY <1>1, <1>3, <2>1, BehindCons
  <2> QED BY <1>3, <2>2
<1>5. FlushProgram \o s = a \o q
  BY DEF FlushProgram
<1> QED BY <1>4, <1>5

(* What the steps do to the program. *)
Popped == todo # <<>> /\ todo' = Tail(todo)
Dispatched(r) ==
    /\ todo # <<>> /\ todo' = <<"alloc">> \o r
    /\ \/ r = todo /\ Head(todo) \in {"emit", "emitFlush"}
       \/ r = Tail(todo) /\ Head(todo) = "dispatch"
FlushBegun == todo # <<>> /\ Head(todo) \in {"flush", "maybeFlush"}
              /\ todo' = FlushProgram \o Tail(todo)
WaitBegun == todo # <<>> /\ Head(todo) = "sync" /\ todo' = <<"wait">> \o Tail(todo)

LEMMA TodoMoves ==
  ASSUME [Next]_vars
  PROVE  \/ UNCHANGED todo
         \/ Call
         \/ Popped
         \/ \E r \in {todo, Tail(todo)} : Dispatched(r) /\ DispatchCsChunk(r)
         \/ FlushBegun
         \/ WaitBegun
<1>1. CASE EmitCs \/ FlushCsChunk
  BY <1>1 DEF EmitCs, FlushCsChunk, DispatchCsChunk, Dispatched, Popped
<1>2. CASE AllocCsChunk \/ SetBusy \/ ExecuteCommandList \/ Stop
  BY <1>2 DEF AllocCsChunk, SetBusy, ExecuteCommandList, Stop, Popped
<1>3. CASE DeviceFlush \/ Synchronize
  BY <1>3 DEF DeviceFlush, Synchronize, Popped, FlushBegun, WaitBegun
<1>4. CASE ReleaseCommandList \/ DeferEmit \/ FinishCommandList
  BY <1>4 DEF ReleaseCommandList, DeferEmit, FinishCommandList
<1> QED BY <1>1, <1>2, <1>3, <1>4, TodoFrame

(* The same about the names of the steps that are left. *)
LEMMA TodoRanges ==
  ASSUME IInv, Behind(todo), [Next]_vars
  PROVE  /\ Behind(todo)'
         /\ todo # <<>> => /\ Range(todo) = Range(Tail(todo)) \cup {Head(todo)}
                           /\ Range(Tail(todo)) \subseteq After(Head(todo))
         /\ \A r : Dispatched(r) => Range(todo') = Range(r) \cup {"alloc"}
         /\ FlushBegun =>
               Range(todo') = Range(Tail(todo)) \cup {"emitFlush", "dispatch", "notBusy"}
         /\ WaitBegun => Range(todo') = Range(Tail(todo)) \cup {"wait"}
         /\ Call => Range(todo') \in {{"emit"}, {"flush"}, {"dispatch", "sync"},
                       {"flush", "dispatch", "sync", "stop"},
                       {"dispatch", "maybeFlush", "list", "emit", "busy"}}
<1>1. todo \in Seq(StepNames)
  BY DEF IInv, TodoInv, ProgramOK
<1>2. todo # <<>> => /\ Range(todo) = Range(Tail(todo)) \cup {Head(todo)}
                     /\ Range(Tail(todo)) \subseteq After(Head(todo))
                     /\ Behind(Tail(todo)) /\ Tail(todo) \in Seq(StepNames)
  BY <1>1, BehindTail
<1>3. ASSUME NEW r, Dispatched(r)
      PROVE  Behind(todo)' /\ Range(todo') = Range(r) \cup {"alloc"}
  <2>1. r \in Seq(StepNames) /\ Behind(r) /\ Range(r) \subseteq After("alloc")
    <3>1. CASE r = todo /\ Head(todo) \in {"emit", "emitFlush"}
      <4>1. After(Head(todo)) \cup {Head(todo)} \subseteq After("alloc")
        BY <3>1 DEF After
      <4> QED BY <1>1, <1>2, <1>3, <3>1, <4>1 DEF Dispatched
    <3>2. CASE r = Tail(todo) /\ Head(todo) = "dispatch"
      <4>1. After(Head(todo)) \subseteq After("alloc")
        BY <3>2 DEF After
      <4> QED BY <1>1, <1>2, <1>3, <3>2, <4>1 DEF Dispatched
    <3> QED BY <1>3, <3>1, <3>2 DEF Dispatched
  <2> DEFINE n == <<"alloc">> \o r
  <2>2. Behind(n) /\ Range(n) = Range(r) \cup {"alloc"}
    BY <2>1, BehindCons DEF StepNames
  <2>3. todo' = n
    BY <1>3 DEF Dispatched
  <2> HIDE DEF n
  <2> QED BY <2>2, <2>3 DEF Behind
<1>4. ASSUME FlushBegun
      PROVE  /\ Behind(todo)'
             /\ Range(todo') = Range(Tail(todo)) \cup {"emitFlush", "dispatch", "notBusy"}
  <2>1. /\ Tail(todo) \in Seq(StepNames) /\ Behind(Tail(todo))
        /\ Range(Tail(todo)) \subseteq After("notBusy")
    BY <1>2, <1>4 DEF FlushBegun, After
  <2> DEFINE n == FlushProgram \o Tail(todo)
  <2>2. Behind(n) /\ Range(n) = Range(Tail(todo)) \cup {"emitFlush", "dispatch", "notBusy"}
    BY <2>1, BehindFlush
  <2>3. todo' = n
    BY <1>4 DEF FlushBegun
  <2> HIDE DEF n
  <2> QED BY <2>2, <2>3 DEF Behind
<1>5. ASSUME WaitBegun
      PROVE  Behind(todo)' /\ Range(todo') = Range(Tail(todo)) \cup {"wait"}
  <2>1. /\ Tail(todo) \in Seq(StepNames) /\ Behind(Tail(todo))
        /\ Range(Tail(todo)) \subseteq After("wait")
    BY <1>2, <1>5 DEF WaitBegun, After
  <2> DEFINE n == <<"wait">> \o Tail(todo)
  <2>2. Behind(n) /\ Range(n) = Range(Tail(todo)) \cup {"wait"}
    BY <2>1, BehindCons DEF StepNames
  <2>3. todo' = n
    BY <1>5 DEF WaitBegun
  <2> HIDE DEF n
  <2> QED BY <2>2, <2>3 DEF Behind
<1>6. ASSUME Call
      PROVE  /\ Behind(todo)'
             /\ Range(todo') \in {{"emit"}, {"flush"}, {"dispatch", "sync"},
                       {"flush", "dispatch", "sync", "stop"},
                       {"dispatch", "maybeFlush", "list", "emit", "busy"}}
  <2>1. todo' \in {<<"emit">>, <<"flush">>, SyncProgram, DestroyProgram, ExecuteProgram}
    BY <1>6 DEF Call
  <2>2. CASE todo' \in {<<"emit">>, <<"flush">>, SyncProgram}
    BY <2>2 DEF Behind, After, SyncProgram, Range
  <2>3. CASE todo' = DestroyProgram
    BY <2>3 DEF Behind, After, DestroyProgram, Range
  <2>4. CASE todo' = ExecuteProgram
    BY <2>4 DEF Behind, After, ExecuteProgram, Range
  <2> QED BY <2>1, <2>2, <2>3, <2>4
<1>7. ASSUME Popped PROVE Behind(todo)'
  BY <1>2, <1>7 DEF Popped, Behind
<1>8. ASSUME UNCHANGED todo PROVE Behind(todo)'
  BY <1>8 DEF Behind
<1>9. Behind(todo)'
  BY <1>3, <1>4, <1>5, <1>6, <1>7, <1>8, TodoMoves
<1> QED BY <1>2, <1>3, <1>4, <1>5, <1>6, <1>9

(* A list that is being executed stays executed. *)
LEMMA SpentKept ==
  ASSUME IInv, [Next]_vars, "list" \in Range(todo), spent
  PROVE  spent'
<1>1. hasList /\ todo # <<>>
  BY DEF IInv, TodoInv, ListKept, Range
<1>2. UNCHANGED spent \/ spent' = TRUE
  BY <1>1 DEF Next, AppStep, DeferStep, CsStep, vars, listVars, Call, AllocCsChunk, EmitCs,
         DispatchCsChunk, FlushCsChunk, DeviceFlush, SetBusy, Synchronize, ExecuteCommandList,
         Stop, ReleaseCommandList, DeferEmit, FinishCommandList, EmitToCommandList, CsLock,
         CsWake, ExecuteAll, Terminated
<1> QED BY <1>2

(* How a step changes the set of the steps that are left. *)
TodoSets ==
    LET R == Range(todo)
        F == Range(Tail(todo))
        h == Head(todo)
        N == Range(todo') IN
    /\ todo # <<>> => R = F \cup {h} /\ F \subseteq After(h)
    /\ \/ todo' = todo /\ N = R
       \/ /\ Call /\ todo = <<>>
          /\ N \in {{"emit"}, {"flush"}, {"dispatch", "sync"},
                   {"flush", "dispatch", "sync", "stop"},
                   {"dispatch", "maybeFlush", "list", "emit", "busy"}}
       \/ Popped /\ N = F
       \/ todo # <<>> /\ h \in {"emit", "emitFlush"} /\ N = R \cup {"alloc"} /\ DispatchCsChunk(todo)
       \/ todo # <<>> /\ h = "dispatch" /\ N = F \cup {"alloc"} /\ DispatchCsChunk(Tail(todo))
       \/ todo # <<>> /\ h \in {"flush", "maybeFlush"}
             /\ N = F \cup {"emitFlush", "dispatch", "notBusy"}
       \/ todo # <<>> /\ h = "sync" /\ N = F \cup {"wait"}

LEMMA TodoChange ==
  ASSUME IInv, Behind(todo), [Next]_vars
  PROVE  TodoSets
<1> DEFINE R == Range(todo)
           F == Range(Tail(todo))
           h == Head(todo)
           N == Range(todo')
<1>1. /\ todo # <<>> => R = F \cup {h} /\ F \subseteq After(h)
      /\ \A r : Dispatched(r) => N = Range(r) \cup {"alloc"}
      /\ FlushBegun => N = F \cup {"emitFlush", "dispatch", "notBusy"}
      /\ WaitBegun => N = F \cup {"wait"}
      /\ Call => N \in {{"emit"}, {"flush"}, {"dispatch", "sync"},
                    {"flush", "dispatch", "sync", "stop"},
                    {"dispatch", "maybeFlush", "list", "emit", "busy"}}
  BY TodoRanges
<1>2. Call => todo = <<>>
  BY DEF Call
<1>3. UNCHANGED todo => todo' = todo /\ N = R
  OBVIOUS
<1>4. Popped => N = F
  BY DEF Popped
<1>5. ASSUME NEW r \in {todo, Tail(todo)}, Dispatched(r), DispatchCsChunk(r)
      PROVE  \/ todo # <<>> /\ h \in {"emit", "emitFlush"} /\ N = R \cup {"alloc"} /\ DispatchCsChunk(todo)
             \/ todo # <<>> /\ h = "dispatch" /\ N = F \cup {"alloc"} /\ DispatchCsChunk(Tail(todo))
  <2>1. N = Range(r) \cup {"alloc"}
    BY <1>1, <1>5
  <2>2. CASE r = todo /\ Head(todo) \in {"emit", "emitFlush"}
    BY <1>5, <2>1, <2>2 DEF Dispatched
  <2>3. CASE r = Tail(todo) /\ Head(todo) = "dispatch"
    BY <1>5, <2>1, <2>3 DEF Dispatched
  <2> QED BY <1>5, <2>2, <2>3 DEF Dispatched
<1>6. FlushBegun => todo # <<>> /\ h \in {"flush", "maybeFlush"}
  BY DEF FlushBegun
<1>7. WaitBegun => todo # <<>> /\ h = "sync"
  BY DEF WaitBegun
<1>8. \/ UNCHANGED todo
      \/ Call
      \/ Popped
      \/ \E r \in {todo, Tail(todo)} : Dispatched(r) /\ DispatchCsChunk(r)
      \/ FlushBegun
      \/ WaitBegun
  BY TodoMoves
<1> QED BY <1>1, <1>2, <1>3, <1>4, <1>5, <1>6, <1>7, <1>8 DEF TodoSets

LEMMA OrderStep ==
  ASSUME IInv, OrderInv, [Next]_vars
  PROVE  OrderInv'
<1> DEFINE R == Range(todo)
           F == Range(Tail(todo))
           h == Head(todo)
           N == Range(todo')
<1>1. /\ "emitFlush" \in R => "dispatch" \in R
      /\ "list" \in R => "busy" \in R /\ spent
      /\ "stop" \in R => R = {"stop"} \/ R \cap {"sync", "wait"} # {}
      /\ Behind(todo)
  BY DEF OrderInv
<1>2. Behind(todo)'
  BY <1>1, TodoRanges
<1>3. TodoSets
  BY <1>1, TodoChange
<1>4. "emitFlush" \in N => "dispatch" \in N
  BY <1>1, <1>3 DEF TodoSets, After, Popped
<1>5. "list" \in N => "busy" \in N /\ ("list" \in R \/ Call)
  BY <1>1, <1>3 DEF TodoSets, After, Popped
<1>6. "stop" \in N => N = {"stop"} \/ N \cap {"sync", "wait"} # {}
  <2>1. /\ todo # <<>> => R = F \cup {h} /\ F \subseteq After(h)
        /\ \/ N = R
           \/ N \in {{"emit"}, {"flush"}, {"dispatch", "sync"},
                   {"flush", "dispatch", "sync", "stop"},
                   {"dispatch", "maybeFlush", "list", "emit", "busy"}}
           \/ todo # <<>> /\ N = F
           \/ todo # <<>> /\ h \in {"emit", "emitFlush"} /\ N = R \cup {"alloc"}
           \/ todo # <<>> /\ h = "dispatch" /\ N = F \cup {"alloc"}
           \/ todo # <<>> /\ h \in {"flush", "maybeFlush"}
                 /\ N = F \cup {"emitFlush", "dispatch", "notBusy"}
           \/ todo # <<>> /\ h = "sync" /\ N = F \cup {"wait"}
    BY <1>3 DEF TodoSets, Popped
  <2> HIDE DEF R, F, h, N
  <2> QED BY <1>1, <2>1 DEF After
<1>7. ASSUME "list" \in N, Call PROVE spent'
  <2>1. CASE todo' \in {<<"emit">>, <<"flush">>, SyncProgram, DestroyProgram}
    BY <1>7, <2>1, Programs
  <2>2. CASE spent' = TRUE
    BY <2>2
  <2> QED BY <1>7, <2>1, <2>2 DEF Call
<1>8. "list" \in N => spent'
  BY <1>1, <1>5, <1>7, SpentKept
<1> QED BY <1>2, <1>4, <1>5, <1>6, <1>8 DEF OrderInv, Behind

-----------------------------------------------------------------------------
(* The commands of a queue of chunks *)

(* FlattenSeq computes prefix by prefix: f[i] is the first i sequences of s. *)
IsFlat(f, s, n) == f = [i \in 1 .. n |-> IF i = 1 THEN s[i] ELSE f[i - 1] \o s[i]]

LEMMA FlatExists ==
  ASSUME NEW s, NEW n \in Nat
  PROVE  \E f : IsFlat(f, s, n)
<1> DEFINE S == {m \in Nat : \E f : IsFlat(f, s, m)}
<1>1. 0 \in S
  <2>1. IsFlat([i \in 1 .. 0 |-> IF i = 1 THEN s[i] ELSE s[i]], s, 0)
    BY DEF IsFlat
  <2> QED BY <2>1
<1>2. ASSUME NEW m \in Nat, m \in S PROVE m + 1 \in S
  <2>1. PICK f : IsFlat(f, s, m)
    BY <1>2
  <2> DEFINE g == [i \in 1 .. m + 1 |->
                     IF i = m + 1 THEN (IF i = 1 THEN s[i] ELSE f[m] \o s[i]) ELSE f[i]]
  <2>2. DOMAIN f = 1 .. m /\ \A i \in 1 .. m : f[i] = IF i = 1 THEN s[i] ELSE f[i - 1] \o s[i]
    BY <2>1 DEF IsFlat
  <2>3. ASSUME NEW i \in 1 .. m + 1 PROVE g[i] = IF i = 1 THEN s[i] ELSE g[i - 1] \o s[i]
    <3>1. CASE i = m + 1
      <4>1. i # 1 => i - 1 = m /\ m \in 1 .. m + 1 /\ m # m + 1
        BY <3>1
      <4> QED BY <3>1, <4>1
    <3>2. CASE i # m + 1
      <4>1. i \in 1 .. m /\ (i # 1 => i - 1 \in 1 .. m + 1 /\ i - 1 # m + 1)
        BY <3>2
      <4> QED BY <2>2, <3>2, <4>1
    <3> QED BY <3>1, <3>2
  <2>4. IsFlat(g, s, m + 1)
    <3>1. DOMAIN g = 1 .. m + 1
      OBVIOUS
    <3> DEFINE k == [i \in 1 .. m + 1 |-> IF i = 1 THEN s[i] ELSE g[i - 1] \o s[i]]
    <3>2. g = [i \in 1 .. m + 1 |-> g[i]]
      OBVIOUS
    <3> HIDE DEF g
    <3>3. g = k
      BY <2>3, <3>2
    <3> QED BY <3>3 DEF IsFlat
  <2> QED BY <2>4
<1> HIDE DEF S
<1>3. \A m \in Nat : m \in S
  BY <1>1, <1>2, NatInd
<1> QED BY <1>3 DEF S

LEMMA FlatOf ==
  ASSUME NEW S, NEW s \in Seq(S), s # <<>>
  PROVE  \E f : IsFlat(f, s, Len(s)) /\ FlattenSeq(s) = f[Len(s)]
<1>1. Len(s) \in Nat /\ Len(s) # 0
  OBVIOUS
<1>2. \E f : IsFlat(f, s, Len(s))
  BY <1>1, FlatExists
<1> DEFINE f == CHOOSE f : IsFlat(f, s, Len(s))
<1>3. IsFlat(f, s, Len(s))
  BY <1>2
<1>4. FlattenSeq(s) = f[Len(s)]
  BY <1>1 DEF FlattenSeq, IsFlat
<1> QED BY <1>3, <1>4

LEMMA FlatValues ==
  ASSUME NEW n, NEW s, NEW f, IsFlat(f, s, n)
  PROVE  \A i \in 1 .. n : f[i] = IF i = 1 THEN s[1] ELSE f[i - 1] \o s[i]
<1> DEFINE g == f
<1>1. f = [i \in 1 .. n |-> IF i = 1 THEN s[i] ELSE g[i - 1] \o s[i]]
  BY DEF IsFlat
<1> HIDE DEF g
<1>2. \A i \in 1 .. n : f[i] = IF i = 1 THEN s[i] ELSE g[i - 1] \o s[i]
  BY <1>1
<1>3. \A i \in 1 .. n : i = 1 => s[i] = s[1]
  OBVIOUS
<1>4. ASSUME NEW i \in 1 .. n PROVE f[i] = IF i = 1 THEN s[1] ELSE g[i - 1] \o s[i]
  BY <1>2, <1>3
<1> QED BY <1>4 DEF g

LEMMA FlatFirst ==
  ASSUME NEW n, NEW s, NEW f, IsFlat(f, s, n), 1 \in 1 .. n
  PROVE  f[1] = s[1]
  BY FlatValues

LEMMA FlatNext ==
  ASSUME NEW n, NEW s, NEW f, IsFlat(f, s, n), NEW k \in Nat, k # 0, k + 1 \in 1 .. n
  PROVE  f[k + 1] = f[k] \o s[k + 1]
<1> DEFINE i == k + 1
<1>1. i \in 1 .. n /\ i # 1 /\ i - 1 = k
  OBVIOUS
<1> HIDE DEF i
<1>2. f[i] = IF i = 1 THEN s[1] ELSE f[i - 1] \o s[i]
  <2>1. \A j \in 1 .. n : f[j] = IF j = 1 THEN s[1] ELSE f[j - 1] \o s[j]
    BY FlatValues
  <2> QED BY <1>1, <2>1
<1>3. f[i] = f[k] \o s[i]
  BY <1>1, <1>2
<1> QED BY <1>3 DEF i

LEMMA FlatSteps ==
  ASSUME NEW n \in Nat, NEW s, NEW f, IsFlat(f, s, n)
  PROVE  \A k \in Nat : k # 0 /\ k + 1 \in 1 .. n => f[k + 1] = f[k] \o s[k + 1]
  BY FlatNext

LEMMA FlatPrefixType ==
  ASSUME NEW S, NEW n \in Nat, NEW s, \A i \in 1 .. n : s[i] \in Seq(S), NEW f, IsFlat(f, s, n)
  PROVE  \A i \in 1 .. n : f[i] \in Seq(S)
<1> DEFINE T == {m \in Nat : m \in 1 .. n => f[m] \in Seq(S)}
<1>1. 0 \in T
  OBVIOUS
<1>2. ASSUME NEW m \in Nat, m \in T PROVE m + 1 \in T
  <2> SUFFICES ASSUME m + 1 \in 1 .. n PROVE f[m + 1] \in Seq(S)
    OBVIOUS
  <2>1. s[m + 1] \in Seq(S)
    OBVIOUS
  <2>2. CASE m = 0
    <3>1. f[1] = s[1] /\ m + 1 = 1
      BY <2>2, FlatValues
    <3> QED BY <2>1, <3>1
  <2>3. CASE m # 0
    <3>1. (m + 1) - 1 = m /\ m + 1 # 1 /\ m \in 1 .. n
      BY <2>3
    <3>2. f[m + 1] = f[m] \o s[m + 1]
      BY <2>3, FlatNext
    <3>3. f[m] \in Seq(S)
      BY <1>2, <3>1
    <3> QED BY <2>1, <3>2, <3>3
  <2> QED BY <2>2, <2>3
<1> HIDE DEF T
<1>3. \A m \in Nat : m \in T
  BY <1>1, <1>2, NatInd
<1> QED BY <1>3 DEF T

LEMMA FlatType ==
  ASSUME NEW S, NEW s \in Seq(Seq(S))
  PROVE  FlattenSeq(s) \in Seq(S)
<1>1. CASE s = <<>>
  BY <1>1 DEF FlattenSeq
<1>2. CASE s # <<>>
  <2>1. PICK f : IsFlat(f, s, Len(s)) /\ FlattenSeq(s) = f[Len(s)]
    BY <1>2, FlatOf
  <2>2. Len(s) \in Nat /\ Len(s) \in 1 .. Len(s) /\ \A i \in 1 .. Len(s) : s[i] \in Seq(S)
    BY <1>2
  <2> QED BY <2>1, <2>2, FlatPrefixType
<1> QED BY <1>1, <1>2

(* Sequences that agree on 1 .. m flatten to the same there. *)
Flattens(f, s, m) ==
    \A k \in Nat : k # 0 /\ k + 1 \in 1 .. m => f[k + 1] = f[k] \o s[k + 1]
Agree(s, t, m) == \A i \in 1 .. m : s[i] = t[i]

LEMMA FlatAgree ==
  ASSUME NEW m, m \in Nat, NEW s, NEW t, NEW f, NEW g, m # 0 => f[1] = g[1],
         Flattens(f, s, m), Flattens(g, t, m), Agree(s, t, m)
  PROVE  Agree(f, g, m)
<1> DEFINE T == {k \in Nat : k \in 1 .. m => f[k] = g[k]}
<1>1. 0 \in T
  OBVIOUS
<1>2. ASSUME NEW k \in Nat, k \in T PROVE k + 1 \in T
  <2> SUFFICES ASSUME k + 1 \in 1 .. m PROVE f[k + 1] = g[k + 1]
    OBVIOUS
  <2>1. s[k + 1] = t[k + 1]
    BY DEF Agree
  <2>2. CASE k = 0
    BY <2>2
  <2>3. CASE k # 0
    <3>1. k \in 1 .. m
      BY <2>3
    <3>2. f[k + 1] = f[k] \o s[k + 1] /\ g[k + 1] = g[k] \o t[k + 1]
      BY <2>3 DEF Flattens
    <3> QED BY <1>2, <2>1, <3>1, <3>2
  <2> QED BY <2>2, <2>3
<1> HIDE DEF T
<1>3. \A k \in Nat : k \in T
  BY <1>1, <1>2, NatInd
<1> QED BY <1>3 DEF T, Agree

LEMMA FlatPush ==
  ASSUME NEW S, NEW s \in Seq(Seq(S)), NEW x \in Seq(S)
  PROVE  FlattenSeq(Append(s, x)) = FlattenSeq(s) \o x
<1> DEFINE t == Append(s, x)
<1>1. /\ t \in Seq(Seq(S)) /\ t # <<>> /\ Len(t) = Len(s) + 1 /\ t[Len(t)] = x
      /\ Len(s) \in Nat /\ \A i \in 1 .. Len(s) : t[i] = s[i]
  <2> DEFINE U == Seq(S)
  <2>1. s \in Seq(U) /\ x \in U
    OBVIOUS
  <2> HIDE DEF U
  <2>2. /\ t \in Seq(U) /\ t # <<>> /\ Len(t) = Len(s) + 1 /\ t[Len(t)] = x
        /\ Len(s) \in Nat /\ \A i \in 1 .. Len(s) : t[i] = s[i]
    BY <2>1
  <2> QED BY <2>2 DEF U
<1> HIDE DEF t
<1>2. PICK g : IsFlat(g, t, Len(t)) /\ FlattenSeq(t) = g[Len(t)]
  BY <1>1, FlatOf
<1>3. CASE s = <<>>
  <2>1. Len(t) = 1
    BY <1>1, <1>3
  <2>2. g[1] = t[1]
    BY <1>2, <2>1, FlatValues
  <2>3. FlattenSeq(s) = <<>>
    BY <1>3 DEF FlattenSeq
  <2> QED BY <1>1, <1>2, <2>1, <2>2, <2>3 DEF t
<1>4. CASE s # <<>>
  <2>1. PICK f : IsFlat(f, s, Len(s)) /\ FlattenSeq(s) = f[Len(s)]
    BY <1>4, FlatOf
  <2>2. Len(s) \in 1 .. Len(s) /\ Len(t) # 1 /\ Len(t) - 1 = Len(s) /\ Len(t) \in Nat
        /\ Len(t) \in 1 .. Len(t) /\ Len(s) <= Len(s) /\ Len(s) <= Len(t)
    BY <1>1, <1>4
  <2>3. g[Len(t)] = g[Len(s)] \o t[Len(t)]
    <3>1. Len(s) + 1 \in 1 .. Len(t) /\ Len(s) # 0 /\ Len(s) \in Nat /\ Len(s) + 1 = Len(t)
      BY <1>1, <2>2
    <3>2. g[Len(s) + 1] = g[Len(s)] \o t[Len(s) + 1]
      BY <1>2, <3>1, FlatNext
    <3> QED BY <3>1, <3>2
  <2>4. \A i \in 1 .. Len(s) : f[i] = g[i]
    <3>1. \A i \in 1 .. Len(s) : s[i] = t[i]
      BY <1>1
    <3>2. \A k \in Nat : k # 0 /\ k + 1 \in 1 .. Len(t) => g[k + 1] = g[k] \o t[k + 1]
      BY <1>2, <2>2, FlatSteps
    <3>3. \A k \in Nat : k # 0 /\ k + 1 \in 1 .. Len(s) => f[k + 1] = f[k] \o s[k + 1]
      BY <1>1, <2>1, FlatSteps
    <3>4. f[1] = g[1]
      <4>1. 1 \in 1 .. Len(s) /\ 1 \in 1 .. Len(t)
        BY <1>1, <2>2
      <4>2. f[1] = s[1] /\ g[1] = t[1]
        BY <1>2, <2>1, <4>1, FlatFirst
      <4> QED BY <3>1, <4>1, <4>2
    <3>5. Flattens(f, s, Len(s))
      BY <3>3 DEF Flattens
    <3>6. Flattens(g, t, Len(s))
      <4>1. ASSUME NEW k \in Nat, k # 0, k + 1 \in 1 .. Len(s)
            PROVE  g[k + 1] = g[k] \o t[k + 1]
        <5>1. k + 1 \in 1 .. Len(t)
          BY <1>1, <4>1
        <5> QED BY <3>2, <4>1, <5>1
      <4> QED BY <4>1 DEF Flattens
    <3>7. Agree(s, t, Len(s)) /\ Len(s) \in Nat
      BY <1>1, <3>1 DEF Agree
    <3>8. Agree(f, g, Len(s))
      BY <3>4, <3>5, <3>6, <3>7, FlatAgree
    <3> QED BY <3>8 DEF Agree
  <2> QED BY <1>1, <1>2, <2>1, <2>2, <2>3, <2>4 DEF t
<1> QED BY <1>3, <1>4

LEMMA FlatPop ==
  ASSUME NEW S, NEW s \in Seq(Seq(S)), s # <<>>
  PROVE  FlattenSeq(s) = Head(s) \o FlattenSeq(Tail(s))
<1> DEFINE t == Tail(s)
<1>1. /\ t \in Seq(Seq(S)) /\ Len(t) = Len(s) - 1 /\ Len(s) \in Nat /\ Len(t) \in Nat
      /\ Head(s) = s[1] /\ Head(s) \in Seq(S) /\ \A i \in 1 .. Len(t) : t[i] = s[i + 1]
  OBVIOUS
<1> HIDE DEF t
<1>2. PICK f : IsFlat(f, s, Len(s)) /\ FlattenSeq(s) = f[Len(s)]
  BY FlatOf
<1>3. CASE t = <<>>
  <2>1. Len(s) = 1
    BY <1>1, <1>3
  <2>2. f[1] = s[1]
    BY <1>2, <2>1, FlatValues
  <2>3. FlattenSeq(t) = <<>>
    BY <1>3 DEF FlattenSeq
  <2> QED BY <1>1, <1>2, <2>1, <2>2, <2>3 DEF t
<1>4. CASE t # <<>>
  <2>1. PICK g : IsFlat(g, t, Len(t)) /\ FlattenSeq(t) = g[Len(t)]
    BY <1>1, <1>4, FlatOf
  <2>2. \A i \in 1 .. Len(t) : t[i] \in Seq(S)
    BY <1>1
  <2>3. \A i \in 1 .. Len(t) : g[i] \in Seq(S)
    BY <1>1, <2>1, <2>2, FlatPrefixType
  <2> DEFINE T == {k \in Nat : k \in 1 .. Len(t) => f[k + 1] = s[1] \o g[k]}
  <2>4. 0 \in T
    OBVIOUS
  <2>5. ASSUME NEW k \in Nat, k \in T PROVE k + 1 \in T
    <3> SUFFICES ASSUME k + 1 \in 1 .. Len(t) PROVE f[(k + 1) + 1] = s[1] \o g[k + 1]
      <4>1. k + 1 \in Nat
        OBVIOUS
      <4> QED BY <4>1
    <3> DEFINE j == k + 1
    <3>1. j \in 1 .. Len(t) /\ j + 1 \in 1 .. Len(s) /\ j + 1 # 1 /\ (j + 1) - 1 = j
          /\ Len(s) >= 1
      BY <1>1
    <3>2. f[j + 1] = f[j] \o s[j + 1] /\ f[1] = s[1]
      <4>1. j \in Nat /\ j # 0 /\ 1 \in 1 .. Len(s)
        BY <1>1, <3>1
      <4>2. f[1] = s[1]
        BY <1>2, <4>1, FlatFirst
      <4>3. f[j + 1] = f[j] \o s[j + 1]
        BY <1>2, <3>1, <4>1, FlatNext
      <4> QED BY <4>2, <4>3
    <3>3. t[j] = s[j + 1]
      BY <1>1, <3>1
    <3>4. CASE k = 0
      <4>1. g[1] = t[1] /\ j = 1
        BY <1>1, <2>1, <3>1, <3>4, FlatValues
      <4> QED BY <3>2, <3>3, <4>1
    <3>5. CASE k # 0
      <4>1. j # 1 /\ j - 1 = k /\ k \in 1 .. Len(t)
        BY <1>1, <3>1, <3>5
      <4>2. g[j] = g[k] \o t[j]
        BY <2>1, <3>1, <3>5, FlatNext
      <4>3. f[j] = s[1] \o g[k]
        BY <2>5, <4>1
      <4>4. s[1] \in Seq(S) /\ g[k] \in Seq(S) /\ t[j] \in Seq(S)
        BY <1>1, <2>2, <2>3, <3>1, <4>1
      <4>5. ASSUME NEW a \in Seq(S), NEW b \in Seq(S), NEW c \in Seq(S)
            PROVE  (a \o b) \o c = a \o (b \o c)
        OBVIOUS
      <4>6. (s[1] \o g[k]) \o t[j] = s[1] \o (g[k] \o t[j])
        BY <4>4, <4>5
      <4> QED BY <3>2, <3>3, <4>2, <4>3, <4>6
    <3> QED BY <3>4, <3>5
  <2>6. \A k \in Nat : k \in T
    <3> HIDE DEF T
    <3> QED BY <2>4, <2>5, NatInd
  <2>7. Len(t) \in 1 .. Len(t) /\ Len(t) + 1 = Len(s)
    BY <1>1, <1>4
  <2>8. f[Len(t) + 1] = s[1] \o g[Len(t)]
    BY <1>1, <2>6, <2>7
  <2> QED BY <1>1, <1>2, <2>1, <2>7, <2>8 DEF t
<1> QED BY <1>3, <1>4

(* The commands of the chunks in a queue, under the contents m. *)
Contents(m, q) == FlattenSeq([i \in DOMAIN q |-> m[q[i]]])

LEMMA ContentsOf ==
  ASSUME NEW T, NEW S, NEW m \in [T -> Seq(S)], NEW q \in Seq(T)
  PROVE  /\ [i \in DOMAIN q |-> m[q[i]]] \in Seq(Seq(S))
         /\ Contents(m, q) \in Seq(S)
<1> DEFINE s == [i \in DOMAIN q |-> m[q[i]]]
<1>1. s \in Seq(Seq(S))
  <2>1. Len(q) \in Nat /\ DOMAIN q = 1 .. Len(q) /\ \A i \in 1 .. Len(q) : q[i] \in T
    OBVIOUS
  <2>2. \A i \in 1 .. Len(q) : m[q[i]] \in Seq(S)
    BY <2>1
  <2>3. s \in [1 .. Len(q) -> Seq(S)]
    BY <2>1, <2>2
  <2> QED BY <2>1, <2>3
<1> HIDE DEF s
<1>2. FlattenSeq(s) \in Seq(S)
  BY <1>1, FlatType
<1> QED BY <1>1, <1>2 DEF Contents, s

LEMMA ContentsPush ==
  ASSUME NEW T, NEW S, NEW m \in [T -> Seq(S)], NEW q \in Seq(T), NEW c \in T
  PROVE  Contents(m, Append(q, c)) = Contents(m, q) \o m[c]
<1> DEFINE s == [i \in DOMAIN q |-> m[q[i]]]
           t == [i \in DOMAIN Append(q, c) |-> m[Append(q, c)[i]]]
<1>1. s \in Seq(Seq(S))
  BY ContentsOf
<1>2. t = Append(s, m[c])
  <2>1. /\ Len(q) \in Nat /\ DOMAIN q = 1 .. Len(q)
        /\ DOMAIN Append(q, c) = 1 .. Len(q) + 1
        /\ \A i \in 1 .. Len(q) : Append(q, c)[i] = q[i]
        /\ Append(q, c)[Len(q) + 1] = c
    OBVIOUS
  <2>2. Len(s) = Len(q)
    BY <1>1, <2>1
  <2>3. Append(s, m[c]) = [i \in 1 .. Len(q) + 1 |-> IF i = Len(q) + 1 THEN m[c] ELSE s[i]]
    <3> DEFINE U == Seq(S)
    <3>1. s \in Seq(U) /\ m[c] \in U
      BY <1>1
    <3> HIDE DEF U, s
    <3> QED BY <2>2, <3>1
  <2>4. ASSUME NEW i \in 1 .. Len(q) + 1
        PROVE  m[Append(q, c)[i]] = IF i = Len(q) + 1 THEN m[c] ELSE s[i]
    <3>1. CASE i = Len(q) + 1
      BY <2>1, <3>1
    <3>2. CASE i # Len(q) + 1
      <4>1. i \in 1 .. Len(q) /\ i \in DOMAIN q
        BY <2>1, <3>2
      <4> QED BY <2>1, <3>2, <4>1
    <3> QED BY <3>1, <3>2
  <2> HIDE DEF s
  <2> QED BY <2>1, <2>3, <2>4
<1> HIDE DEF s, t
<1>3. m[c] \in Seq(S)
  OBVIOUS
<1>4. FlattenSeq(Append(s, m[c])) = FlattenSeq(s) \o m[c]
  <2> DEFINE x == m[c]
  <2>1. x \in Seq(S)
    BY <1>3
  <2> HIDE DEF x
  <2>2. FlattenSeq(Append(s, x)) = FlattenSeq(s) \o x
    BY <1>1, <2>1, FlatPush
  <2> QED BY <2>2 DEF x
<1> QED BY <1>2, <1>4 DEF Contents, s, t

LEMMA ContentsPop ==
  ASSUME NEW T, NEW S, NEW m \in [T -> Seq(S)], NEW q \in Seq(T), q # <<>>
  PROVE  /\ Contents(m, q) = m[Head(q)] \o Contents(m, Tail(q))
         /\ Head(q) \in T /\ Tail(q) \in Seq(T)
<1> DEFINE s == [i \in DOMAIN q |-> m[q[i]]]
           t == [i \in DOMAIN Tail(q) |-> m[Tail(q)[i]]]
<1>1. s \in Seq(Seq(S))
  BY ContentsOf
<1>2. /\ Len(q) \in Nat /\ Len(q) >= 1 /\ DOMAIN q = 1 .. Len(q) /\ Head(q) = q[1]
      /\ Tail(q) \in Seq(T) /\ DOMAIN Tail(q) = 1 .. Len(q) - 1
      /\ \A i \in 1 .. Len(q) - 1 : Tail(q)[i] = q[i + 1]
  OBVIOUS
<1>3. s # <<>> /\ Head(s) = m[Head(q)]
  <2>1. 1 \in DOMAIN q
    BY <1>2
  <2>2. s[1] = m[q[1]] /\ DOMAIN s = DOMAIN q
    BY <2>1
  <2>3. s # <<>>
    BY <2>1, <2>2
  <2> HIDE DEF s
  <2> QED BY <1>1, <1>2, <2>2, <2>3
<1>4. Tail(s) = t
  <2>1. Len(s) = Len(q)
    BY <1>1, <1>2
  <2>2. Tail(s) = [i \in 1 .. Len(q) - 1 |-> s[i + 1]]
    <3>1. ASSUME NEW U, NEW u \in Seq(U), u # <<>>
          PROVE  Tail(u) = [i \in 1 .. Len(u) - 1 |-> u[i + 1]]
      <4>1. /\ Tail(u) \in Seq(U) /\ Len(Tail(u)) = Len(u) - 1
            /\ \A i \in 1 .. Len(u) - 1 : Tail(u)[i] = u[i + 1]
        BY <3>1, HeadTailProperties
      <4> DEFINE v == Tail(u)
                 n == Len(u) - 1
      <4>2. v = [i \in 1 .. Len(v) |-> v[i]]
        <5> HIDE DEF v
        <5>1. v \in Seq(U)
          BY <4>1 DEF v
        <5> QED BY <5>1
      <4>3. Len(v) = n /\ \A i \in 1 .. n : v[i] = u[i + 1]
        BY <4>1
      <4> HIDE DEF v, n
      <4>4. v = [i \in 1 .. n |-> u[i + 1]]
        BY <4>2, <4>3
      <4> QED BY <4>4 DEF v, n
    <3> HIDE DEF s
    <3>2. Tail(s) = [i \in 1 .. Len(s) - 1 |-> s[i + 1]]
      BY <1>1, <1>3, <3>1
    <3> QED BY <2>1, <3>2
  <2>3. ASSUME NEW i \in 1 .. Len(q) - 1 PROVE s[i + 1] = m[Tail(q)[i]]
    <3>1. i + 1 \in DOMAIN q
      BY <1>2
    <3> QED BY <1>2, <3>1
  <2> HIDE DEF s
  <2> QED BY <1>2, <2>2, <2>3
<1> HIDE DEF s, t
<1>5. FlattenSeq(s) = Head(s) \o FlattenSeq(Tail(s))
  BY <1>1, <1>3, FlatPop
<1>6. Contents(m, q) = FlattenSeq(s) /\ Contents(m, Tail(q)) = FlattenSeq(t)
  BY DEF Contents, s, t
<1>7. Head(q) \in T
  BY <1>2
<1> QED BY <1>2, <1>3, <1>4, <1>5, <1>6, <1>7

LEMMA ContentsSame ==
  ASSUME NEW T, NEW q \in Seq(T), NEW m, NEW k, \A c \in Range(q) : m[c] = k[c]
  PROVE  Contents(m, q) = Contents(k, q)
<1>1. \A i \in DOMAIN q : m[q[i]] = k[q[i]]
  BY DEF Range
<1>2. [i \in DOMAIN q |-> m[q[i]]] = [i \in DOMAIN q |-> k[q[i]]]
  BY <1>1
<1> QED BY <1>2 DEF Contents

LEMMA ContentsEmpty ==
  ASSUME NEW m
  PROVE  Contents(m, <<>>) = <<>>
<1>1. [i \in DOMAIN <<>> |-> m[<<>>[i]]] = <<>>
  OBVIOUS
<1> QED BY <1>1 DEF Contents, FlattenSeq

-----------------------------------------------------------------------------
(* A chunk that is emptied after it has run *)

LEMMA SubSeqFacts ==
  ASSUME NEW S, NEW s \in Seq(S), NEW n \in 1 .. Len(s) + 1
  PROVE  /\ SubSeq(s, n, Len(s)) \in Seq(S)
         /\ Range(SubSeq(s, n, Len(s))) \subseteq Range(s)
         /\ n > Len(s) => SubSeq(s, n, Len(s)) = <<>>
         /\ n <= Len(s) => /\ SubSeq(s, n, Len(s)) # <<>>
                           /\ Head(SubSeq(s, n, Len(s))) = s[n]
                           /\ Tail(SubSeq(s, n, Len(s))) = SubSeq(s, n + 1, Len(s))
         /\ SubSeq(s, 1, Len(s)) = s
<1>1. Len(s) \in Nat /\ n \in Int
  OBVIOUS
<1>2. SubSeq(s, n, Len(s)) \in Seq(S)
  BY <1>1
<1>3. /\ Len(SubSeq(s, n, Len(s))) = IF n <= Len(s) THEN Len(s) - n + 1 ELSE 0
      /\ \A i \in 1 .. Len(s) - n + 1 : SubSeq(s, n, Len(s))[i] = s[n + i - 1]
  BY <1>1
<1>4. Range(SubSeq(s, n, Len(s))) \subseteq Range(s)
  <2>1. ASSUME NEW i \in DOMAIN SubSeq(s, n, Len(s)) PROVE SubSeq(s, n, Len(s))[i] \in Range(s)
    <3>1. i \in 1 .. Len(s) - n + 1 /\ n + i - 1 \in 1 .. Len(s)
      BY <1>1, <1>2, <1>3
    <3> QED BY <1>3, <3>1 DEF Range
  <2> QED BY <2>1 DEF Range
<1>5. n > Len(s) => SubSeq(s, n, Len(s)) = <<>>
  BY <1>1
<1>6. ASSUME n <= Len(s)
      PROVE /\ SubSeq(s, n, Len(s)) # <<>> /\ Head(SubSeq(s, n, Len(s))) = s[n]
            /\ Tail(SubSeq(s, n, Len(s))) = SubSeq(s, n + 1, Len(s))
  BY <1>1, <1>6
<1>7. SubSeq(s, 1, Len(s)) = s
  BY <1>1
<1> QED BY <1>2, <1>4, <1>5, <1>6, <1>7

LEMMA LeftFacts ==
  ASSUME IInv
  PROVE  ListLeft \in Seq(Chunks) /\ Range(ListLeft) \subseteq Range(cmdList)
<1>1. cmdList \in Seq(Chunks) /\ nextChunk \in 1 .. Len(cmdList) + 1
  BY DEF IInv, TodoInv, ListKept
<1>2. /\ SubSeq(cmdList, nextChunk, Len(cmdList)) \in Seq(Chunks)
      /\ Range(SubSeq(cmdList, nextChunk, Len(cmdList))) \subseteq Range(cmdList)
  BY <1>1, SubSeqFacts
<1>3. <<>> \in Seq(Chunks) /\ Range(<<>>) = {}
  BY DEF Range
<1> QED BY <1>1, <1>2, <1>3 DEF ListLeft

HeldOK == \A c \in Chunks : refs[c] = 0 <=> c \notin Shared \cup {csChunk, deferChunk}
LEMMA UnheldTyped == (IInv => HeldOK) /\ (IInv' => HeldOK')
<1>1. IInv => HeldOK
  BY Unheld DEF HeldOK, IInv, ChunkInv
<1> QED BY <1>1, PTL

LeftOK == ListLeft \in Seq(Chunks) /\ Range(ListLeft) \subseteq Range(cmdList)
LEMMA LeftTyped == (IInv => LeftOK) /\ (IInv' => LeftOK')
<1>1. IInv => LeftOK
  BY LeftFacts DEF LeftOK
<1> QED BY <1>1, PTL

(* The terms of Runs. *)
Executes(c) == IF csPc = "exec" THEN One(c, executing) ELSE 0

LEMMA RunsFacts ==
  ASSUME IInv, NEW c
  PROVE  /\ Executes(c) \in Nat /\ Occurrences(c, chunksQueued) \in Nat
         /\ Occurrences(c, deferList) \in Nat /\ Occurrences(c, ListLeft) \in Nat
         /\ Occurrences(c, cmdList) \in Nat
         /\ Runs(c) = Executes(c) + Occurrences(c, chunksQueued) + Occurrences(c, deferList)
                      + Occurrences(c, ListLeft)
         /\ c \notin Shared => Runs(c) = 0
<1>1. /\ Occurrences(c, chunksQueued) \in Nat /\ Occurrences(c, deferList) \in Nat
      /\ Occurrences(c, cmdList) \in Nat
      /\ Occurrences(c, deferList) = 0 <=> c \notin Range(deferList)
      /\ Occurrences(c, chunksQueued) = 0 <=> c \notin Range(chunksQueued)
  BY HolderTypes DEF IInv, ChunkInv
<1>2. /\ Occurrences(c, ListLeft) \in Nat
      /\ Occurrences(c, ListLeft) = 0 <=> c \notin Range(ListLeft)
      /\ Range(ListLeft) \subseteq Range(cmdList)
  BY LeftFacts, OccType
<1>3. Executes(c) \in Nat /\ (c # executing => Executes(c) = 0)
  BY DEF Executes, One
<1>4. Runs(c) = Executes(c) + Occurrences(c, chunksQueued) + Occurrences(c, deferList)
                + Occurrences(c, ListLeft)
  BY DEF Runs, Executes
<1>5. ASSUME c \notin Shared PROVE Runs(c) = 0
  <2>1. /\ Executes(c) = 0 /\ Occurrences(c, chunksQueued) = 0 /\ Occurrences(c, deferList) = 0
        /\ Occurrences(c, ListLeft) = 0
    BY <1>1, <1>2, <1>3, <1>5 DEF Shared
  <2> QED BY <1>4, <2>1
<1> QED BY <1>1, <1>2, <1>3, <1>4, <1>5

RunsOK ==
    \A c \in Chunks :
        /\ Executes(c) \in Nat /\ Occurrences(c, chunksQueued) \in Nat
        /\ Occurrences(c, deferList) \in Nat /\ Occurrences(c, ListLeft) \in Nat
        /\ Runs(c) = Executes(c) + Occurrences(c, chunksQueued) + Occurrences(c, deferList)
                     + Occurrences(c, ListLeft)

LEMMA RunsTyped == (IInv => RunsOK) /\ (IInv' => RunsOK')
<1>1. IInv => RunsOK
  BY RunsFacts DEF RunsOK
<1> QED BY <1>1, PTL

(* A step that leaves one step less is the one the program names. *)
LEMMA PoppedBy ==
  ASSUME IInv, [Next]_vars, Popped
  PROVE  \/ AllocCsChunk \/ EmitCs \/ FlushCsChunk \/ DeviceFlush \/ SetBusy
         \/ Synchronize \/ ExecuteCommandList \/ Stop
<1>1. todo' # todo
  <2>1. todo \in Seq(StepNames) /\ todo # <<>> /\ todo' = Tail(todo)
    BY DEF Popped, IInv, TodoInv, ProgramOK
  <2>2. Len(Tail(todo)) = Len(todo) - 1 /\ Len(todo) \in Nat
    BY <2>1, HeadTailProperties
  <2> DEFINE n == Len(todo)
  <2>3. n \in Nat /\ Len(Tail(todo)) = n - 1
    BY <2>2
  <2> HIDE DEF n
  <2>4. n - 1 # n
    BY <2>3
  <2> QED BY <2>1, <2>3, <2>4 DEF n
<1>2. ~Call
  BY DEF Call, Popped
<1> QED BY <1>1, <1>2, TodoFrame DEF ReleaseCommandList, DeferEmit, FinishCommandList

(* Execution of a list begins with a call and ends with a step of its own. *)
LEMMA ListSteps ==
  ASSUME IInv, OrderInv, [Next]_vars, ~Call, ~ExecuteCommandList
  PROVE  "list" \in Range(todo') <=> "list" \in Range(todo)
<1>1. TodoSets
  BY TodoChange DEF OrderInv
<1>2. ASSUME Popped PROVE Head(todo) # "list"
  BY <1>2, PoppedBy DEF AllocCsChunk, EmitCs, FlushCsChunk, DeviceFlush, SetBusy, Synchronize, Stop
<1> DEFINE R == Range(todo)
           F == Range(Tail(todo))
           h == Head(todo)
           N == Range(todo')
<1>3. /\ todo # <<>> => R = F \cup {h} /\ F \subseteq After(h)
      /\ \/ N = R
         \/ todo # <<>> /\ N = F /\ h # "list"
         \/ N = R \cup {"alloc"}
         \/ todo # <<>> /\ h = "dispatch" /\ N = F \cup {"alloc"}
         \/ todo # <<>> /\ h \in {"flush", "maybeFlush"}
               /\ N = F \cup {"emitFlush", "dispatch", "notBusy"}
         \/ todo # <<>> /\ h = "sync" /\ N = F \cup {"wait"}
  BY <1>1, <1>2 DEF TodoSets, Popped
<1> HIDE DEF R, F, h, N
<1>4. "list" \in N <=> "list" \in R
  BY <1>3
<1> QED BY <1>4 DEF N, R

LEMMA LeftFrame ==
  ASSUME IInv, OrderInv, [Next]_vars, ~Call, ~ExecuteCommandList,
         UNCHANGED <<cmdList, spent, nextChunk>>
  PROVE  ListLeft' = ListLeft
  BY ListSteps DEF ListLeft

SingleUseOnly ==
    ~singleUse => single \cap (Range(deferList) \cup Range(cmdList) \cup {deferChunk}) = {}

(* Nothing is added to what the thread will run. *)
LEMMA RunsKept ==
  ASSUME IInv, IInv', SingleInv, single' \subseteq single,
         UNCHANGED <<singleUse, chunksQueued, deferChunk, deferList>>,
         Range(cmdList') \subseteq Range(cmdList),
         \A c \in single : Executes(c)' <= Executes(c),
         \A c \in single : Occurrences(c, ListLeft') <= Occurrences(c, ListLeft)
  PROVE  SingleInv'
<1>1. ASSUME NEW c \in single' PROVE Runs(c)' <= 1
  <2>1. c \in single /\ c \in Chunks /\ Runs(c) <= 1
    BY DEF SingleInv, IInv, ChunkInv, ChunkTypes
  <2>2. RunsOK /\ RunsOK'
    BY RunsTyped
  <2>3. /\ Executes(c) \in Nat /\ Occurrences(c, chunksQueued) \in Nat
        /\ Occurrences(c, deferList) \in Nat /\ Occurrences(c, ListLeft) \in Nat
        /\ Runs(c) = Executes(c) + Occurrences(c, chunksQueued) + Occurrences(c, deferList)
                     + Occurrences(c, ListLeft)
        /\ Executes(c)' \in Nat /\ Occurrences(c, ListLeft') \in Nat
        /\ Runs(c)' = Executes(c)' + Occurrences(c, chunksQueued) + Occurrences(c, deferList)
                      + Occurrences(c, ListLeft')
    BY <2>1, <2>2 DEF RunsOK
  <2> DEFINE e == Executes(c)
             e2 == Executes(c)'
             q == Occurrences(c, chunksQueued)
             d == Occurrences(c, deferList)
             l == Occurrences(c, ListLeft)
             l2 == Occurrences(c, ListLeft')
  <2>4. /\ e \in Nat /\ e2 \in Nat /\ q \in Nat /\ d \in Nat /\ l \in Nat /\ l2 \in Nat
        /\ e2 <= e /\ l2 <= l /\ e + q + d + l <= 1 /\ Runs(c)' = e2 + q + d + l2
    BY <2>1, <2>3
  <2> HIDE DEF e, e2, q, d, l, l2
  <2> QED BY <2>4
<1>2. SingleUseOnly'
  BY DEF SingleInv, SingleUseOnly
<1> QED BY <1>1, <1>2 DEF SingleInv, SingleUseOnly

LEMMA CallKeepsSingle ==
  ASSUME IInv, IInv', OrderInv, SingleInv, Call
  PROVE  SingleInv'
<1>1. /\ todo = <<>> /\ UNCHANGED <<singleUse, chunksQueued, deferChunk, deferList, single,
                                    csPc, executing, cmdList, nextChunk>>
  BY DEF Call, chunkVars, deferVars, csVars
<1>2. nextChunk = 1 /\ "list" \notin Range(todo)
  BY <1>1 DEF IInv, TodoInv, ListKept, Range
<1>3. ListLeft = IF spent THEN <<>> ELSE cmdList
  BY <1>2 DEF ListLeft
<1>4. ASSUME NEW c \in single PROVE Occurrences(c, ListLeft') <= Occurrences(c, ListLeft)
  <2>1. Occurrences(c, ListLeft) \in Nat /\ Occurrences(c, cmdList) \in Nat
    BY RunsFacts
  <2>2. CASE "list" \notin Range(todo') /\ UNCHANGED spent
    <3>1. ListLeft' = ListLeft
      BY <1>1, <1>2, <2>2 DEF ListLeft
    <3> QED BY <2>1, <3>1
  <2>3. CASE ~(singleUse /\ spent) /\ "list" \in Range(todo')
    <3>1. cmdList \in Seq(Chunks) /\ nextChunk \in 1 .. Len(cmdList) + 1
      BY DEF IInv, TodoInv, ListKept
    <3>2. SubSeq(cmdList, 1, Len(cmdList)) = cmdList
      BY <1>2, <3>1, SubSeqFacts
    <3>3. ListLeft' = cmdList
      BY <1>1, <1>2, <2>3, <3>2 DEF ListLeft
    <3>4. CASE spent
      <4>1. ~singleUse
        BY <2>3, <3>4
      <4>2. c \notin Range(cmdList)
        BY <4>1 DEF SingleInv
      <4>3. Occurrences(c, cmdList) = 0
        BY <3>1, <4>2, OccType
      <4> QED BY <2>1, <3>3, <4>3
    <3>5. CASE ~spent
      BY <1>3, <2>1, <3>3, <3>5
    <3> QED BY <3>4, <3>5
  <2>4. \/ "list" \notin Range(todo') /\ UNCHANGED spent
        \/ ~(singleUse /\ spent) /\ "list" \in Range(todo')
    <3>1. ASSUME todo' \in {<<"emit">>, <<"flush">>, SyncProgram, DestroyProgram}
          PROVE  "list" \notin Range(todo')
      BY <3>1, Programs
    <3>2. ASSUME todo' = ExecuteProgram PROVE "list" \in Range(todo')
      BY <3>2 DEF ExecuteProgram, Range
    <3> QED BY <3>1, <3>2 DEF Call, Executable
  <2> QED BY <2>2, <2>3, <2>4
<1>5. \A c \in single : Executes(c)' <= Executes(c)
  <2>1. ASSUME NEW c \in single PROVE Executes(c)' <= Executes(c)
    <3>1. Executes(c)' = Executes(c) /\ Executes(c) \in Nat
      BY <1>1, RunsFacts DEF Executes
    <3> QED BY <3>1
  <2> QED BY <2>1
<1> QED BY <1>1, <1>4, <1>5, RunsKept

LEMMA ReleaseKeepsSingle ==
  ASSUME IInv, IInv', OrderInv, SingleInv, ReleaseCommandList
  PROVE  SingleInv'
<1>1. /\ UNCHANGED <<singleUse, chunksQueued, deferChunk, deferList, single, csPc, executing, todo>>
      /\ todo = <<>> /\ cmdList' = <<>> /\ ~spent'
  BY DEF ReleaseCommandList, deferVars, csVars
<1>2. ListLeft' = <<>> /\ Range(cmdList') = {}
  BY <1>1 DEF ListLeft, Range
<1>3. ASSUME NEW c \in single
      PROVE  /\ Occurrences(c, ListLeft') <= Occurrences(c, ListLeft)
             /\ Executes(c)' <= Executes(c)
  <2>1. Occurrences(c, ListLeft) \in Nat /\ Executes(c) \in Nat
    BY RunsFacts
  <2>2. Occurrences(c, ListLeft') = 0 /\ Executes(c)' = Executes(c)
    BY <1>1, <1>2, OccEmpty DEF Executes
  <2> QED BY <2>1, <2>2
<1> QED BY <1>1, <1>2, <1>3, RunsKept

(* The step that ends a list, and the steps that move no chunk. *)
LEMMA FrameKeepsSingle ==
  ASSUME IInv, IInv', SingleInv, ListLeft' = ListLeft, single' \subseteq single,
         UNCHANGED <<singleUse, chunksQueued, deferChunk, deferList, cmdList, executing>>,
         csPc' = csPc \/ csPc' # "exec"
  PROVE  SingleInv'
<1>1. ASSUME NEW c \in single
      PROVE  /\ Occurrences(c, ListLeft') <= Occurrences(c, ListLeft)
             /\ Executes(c)' <= Executes(c)
  <2>1. Occurrences(c, ListLeft) \in Nat /\ Executes(c) \in Nat
    BY RunsFacts
  <2>2. Occurrences(c, ListLeft') = Occurrences(c, ListLeft) /\ Executes(c)' \in {0, Executes(c)}
    BY DEF Executes
  <2> QED BY <2>1, <2>2
<1> QED BY <1>1, RunsKept

(* A new chunk is in nobody's hands. *)
LEMMA AllocKeepsSingle ==
  ASSUME IInv, IInv', OrderInv, SingleInv, [Next]_vars, AllocCsChunk
  PROVE  SingleInv'
<1>1. PICK k \in Chunks : Alloc(k, TRUE, refs)
  BY DEF AllocCsChunk
<1>2. /\ UNCHANGED <<singleUse, chunksQueued, deferChunk, deferList, cmdList, executing, csPc,
                     spent, nextChunk>>
      /\ ~Call /\ ~ExecuteCommandList /\ single' = single \cup {k}
  BY <1>1 DEF AllocCsChunk, deferVars, listVars, csVars, Alloc, Call, ExecuteCommandList
<1>3. refs[k] = 0
  BY <1>1, AllocFresh DEF IInv, ChunkInv, ChunkTypes
<1>4. k \notin Shared \cup {deferChunk}
  BY <1>3, Unheld DEF IInv, ChunkInv
<1>5. Runs(k) = 0
  BY <1>4, RunsFacts
<1>6. \A c : Runs(c)' = Runs(c)
  BY <1>2, LeftFrame DEF Runs
<1>7. \A c \in single' : Runs(c)' <= 1
  BY <1>2, <1>5, <1>6 DEF SingleInv
<1>8. SingleUseOnly'
  BY <1>2, <1>4 DEF SingleInv, SingleUseOnly, Shared
<1> QED BY <1>7, <1>8 DEF SingleInv, SingleUseOnly

(* The context's chunk is queued for the first time. *)
LEMMA DispatchKeepsSingle ==
  ASSUME IInv, IInv', OrderInv, SingleInv, [Next]_vars, ~Call, ~ExecuteCommandList,
         NEW r, DispatchCsChunk(r), csChunk # NoChunk
  PROVE  SingleInv'
<1>1. /\ UNCHANGED <<singleUse, deferChunk, deferList, cmdList, executing, csPc, single,
                     spent, nextChunk>>
      /\ chunksQueued' = Append(chunksQueued, csChunk)
  BY DEF DispatchCsChunk, chunkVars, deferVars, listVars, csVars
<1>2. csChunk \in Chunks /\ csChunk \notin Shared
  BY DEF IInv, ChunkInv, ChunkTypes, Private
<1>3. Runs(csChunk) = 0
  BY <1>2, RunsFacts
<1>4. ListLeft' = ListLeft
  BY <1>1, LeftFrame
<1>5. ASSUME NEW c \in single' PROVE Runs(c)' <= 1
  <2>1. c \in single /\ c \in Chunks
    BY <1>1 DEF IInv, ChunkInv, ChunkTypes
  <2>2. Occurrences(c, chunksQueued') = Occurrences(c, chunksQueued) + One(c, csChunk)
    BY <1>1, <1>2, OccPush DEF IInv, ChunkInv, ChunkTypes
  <2>3. /\ Executes(c) \in Nat /\ Occurrences(c, chunksQueued) \in Nat
        /\ Occurrences(c, deferList) \in Nat /\ Occurrences(c, ListLeft) \in Nat
        /\ Runs(c) = Executes(c) + Occurrences(c, chunksQueued) + Occurrences(c, deferList)
                     + Occurrences(c, ListLeft)
    BY RunsFacts
  <2>4. Runs(c)' = Executes(c) + Occurrences(c, chunksQueued') + Occurrences(c, deferList)
                   + Occurrences(c, ListLeft)
    BY <1>1, <1>4 DEF Runs, Executes
  <2>5. One(c, csChunk) + Runs(c) <= 1
    <3>1. Runs(c) <= 1 /\ Runs(c) \in Nat
      BY <2>1, <2>3 DEF SingleInv
    <3> QED BY <1>3, <3>1 DEF One
  <2> DEFINE e == Executes(c)
             q == Occurrences(c, chunksQueued)
             d == Occurrences(c, deferList)
             l == Occurrences(c, ListLeft)
             o == One(c, csChunk)
  <2>6. /\ e \in Nat /\ q \in Nat /\ d \in Nat /\ l \in Nat /\ o \in {0, 1}
        /\ o + (e + q + d + l) <= 1 /\ Runs(c)' = e + (q + o) + d + l
    BY <2>2, <2>3, <2>4, <2>5 DEF One
  <2> HIDE DEF e, q, d, l, o
  <2> QED BY <2>6
<1>6. SingleUseOnly'
  BY <1>1 DEF SingleInv, SingleUseOnly
<1> QED BY <1>5, <1>6 DEF SingleInv, SingleUseOnly

(* A chunk of the list moves from what is left of it to the queue. *)
LEMMA ExecuteListKeepsSingle ==
  ASSUME IInv, IInv', OrderInv, SingleInv, [Next]_vars, ExecuteCommandList
  PROVE  SingleInv'
<1>1. /\ todo # <<>> /\ Head(todo) = "list"
      /\ UNCHANGED <<singleUse, deferChunk, deferList, cmdList, executing, csPc, single, spent>>
  BY DEF ExecuteCommandList, deferVars, csVars
<1>2. "list" \in Range(todo) /\ todo \in Seq(StepNames) /\ spent
  <2>1. todo \in Seq(StepNames)
    BY DEF IInv, TodoInv, ProgramOK
  <2>2. Range(todo) = Range(Tail(todo)) \cup {Head(todo)}
    BY <1>1, <2>1, BehindTail DEF OrderInv
  <2> QED BY <1>1, <2>1, <2>2 DEF OrderInv
<1>3. cmdList \in Seq(Chunks) /\ nextChunk \in 1 .. Len(cmdList) + 1
  BY DEF IInv, TodoInv, ListKept
<1>4. ListLeft = SubSeq(cmdList, nextChunk, Len(cmdList))
  BY <1>2 DEF ListLeft
<1>5. CASE nextChunk <= Len(cmdList)
  <2> DEFINE x == cmdList[nextChunk]
  <2>1. /\ chunksQueued' = Append(chunksQueued, x) /\ nextChunk' = nextChunk + 1
        /\ todo' = todo
    BY <1>5 DEF ExecuteCommandList
  <2>2. /\ ListLeft # <<>> /\ Head(ListLeft) = x
        /\ Tail(ListLeft) = SubSeq(cmdList, nextChunk + 1, Len(cmdList))
    BY <1>3, <1>4, <1>5, SubSeqFacts
  <2>3. ListLeft' = Tail(ListLeft)
    BY <1>1, <1>2, <2>1, <2>2 DEF ListLeft
  <2>4. x \in Chunks
    BY <1>3, <1>5
  <2>5. ASSUME NEW c \in single' PROVE Runs(c)' <= 1
    <3>1. c \in single /\ c \in Chunks
      BY <1>1 DEF IInv, ChunkInv, ChunkTypes
    <3>2. Occurrences(c, chunksQueued') = Occurrences(c, chunksQueued) + One(c, x)
      <4>1. chunksQueued \in Seq(Chunks)
        BY DEF IInv, ChunkInv, ChunkTypes
      <4> HIDE DEF x
      <4> QED BY <2>1, <2>4, <4>1, OccPush
    <3>3. Occurrences(c, ListLeft) = One(c, x) + Occurrences(c, ListLeft')
      <4>1. ListLeft \in Seq(Chunks)
        BY LeftFacts
      <4>2. Occurrences(c, ListLeft) = One(c, Head(ListLeft)) + Occurrences(c, Tail(ListLeft))
        BY <2>2, <4>1, OccPop
      <4> QED BY <2>2, <2>3, <4>2
    <3>4. RunsOK /\ RunsOK'
      BY RunsTyped
    <3>5. /\ Executes(c) \in Nat /\ Occurrences(c, chunksQueued) \in Nat
          /\ Occurrences(c, deferList) \in Nat /\ Occurrences(c, ListLeft') \in Nat
          /\ Runs(c) = Executes(c) + Occurrences(c, chunksQueued) + Occurrences(c, deferList)
                       + Occurrences(c, ListLeft)
          /\ Runs(c)' = Executes(c) + Occurrences(c, chunksQueued') + Occurrences(c, deferList)
                        + Occurrences(c, ListLeft')
      BY <1>1, <3>1, <3>4 DEF RunsOK, Executes
    <3>6. Runs(c) <= 1
      BY <3>1 DEF SingleInv
    <3> DEFINE e == Executes(c)
               q == Occurrences(c, chunksQueued)
               d == Occurrences(c, deferList)
               l == Occurrences(c, ListLeft')
               o == One(c, x)
    <3>7. /\ e \in Nat /\ q \in Nat /\ d \in Nat /\ l \in Nat /\ o \in {0, 1}
          /\ e + q + d + (o + l) <= 1 /\ Runs(c)' = e + (q + o) + d + l
      BY <3>2, <3>3, <3>5, <3>6 DEF One
    <3> HIDE DEF e, q, d, l, o
    <3> QED BY <3>7
  <2>6. SingleUseOnly'
    BY <1>1 DEF SingleInv, SingleUseOnly
  <2> QED BY <2>5, <2>6 DEF SingleInv, SingleUseOnly
<1>6. CASE ~(nextChunk <= Len(cmdList))
  <2>1. todo' = Tail(todo) /\ UNCHANGED chunksQueued
    BY <1>6 DEF ExecuteCommandList
  <2>2. "list" \notin Range(todo')
    <3>1. Range(Tail(todo)) \subseteq After("list")
      BY <1>1, <1>2, BehindTail DEF OrderInv
    <3> QED BY <2>1, <3>1 DEF After
  <2>3. ListLeft = <<>>
    <3>1. nextChunk > Len(cmdList)
      BY <1>3, <1>6
    <3> QED BY <1>3, <1>4, <3>1, SubSeqFacts
  <2>4. ListLeft' = <<>>
    BY <1>1, <1>2, <2>2 DEF ListLeft
  <2> QED BY <1>1, <2>1, <2>3, <2>4, FrameKeepsSingle
<1> QED BY <1>5, <1>6

(* The thread takes the next chunk, or none; it has let go of the last one. *)
LEMMA TakeKeepsSingle ==
  ASSUME IInv, IInv', OrderInv, SingleInv, [Next]_vars, CsLock \/ CsWake
  PROVE  SingleInv'
<1>1. /\ TakeChunk /\ csPc # "exec"
      /\ UNCHANGED <<singleUse, deferChunk, deferList, cmdList, single, spent, nextChunk, todo>>
  BY DEF CsLock, CsWake, deferVars, listVars, chunkVars
<1>2. ListLeft' = ListLeft
  BY <1>1 DEF ListLeft
<1>3. \A c \in Chunks : One(c, executing') + Occurrences(c, chunksQueued')
                           = Occurrences(c, chunksQueued)
  BY <1>1, TakeFacts DEF IInv, ChunkInv
<1>4. ASSUME NEW c \in single' PROVE Runs(c)' <= 1
  <2>1. c \in single /\ c \in Chunks
    BY <1>1 DEF IInv, ChunkInv, ChunkTypes
  <2>2. RunsOK /\ RunsOK'
    BY RunsTyped
  <2>3. /\ Executes(c) = 0 /\ Occurrences(c, chunksQueued) \in Nat
        /\ Occurrences(c, deferList) \in Nat /\ Occurrences(c, ListLeft) \in Nat
        /\ Runs(c) = Executes(c) + Occurrences(c, chunksQueued) + Occurrences(c, deferList)
                     + Occurrences(c, ListLeft)
        /\ Executes(c)' \in Nat /\ Occurrences(c, chunksQueued') \in Nat
        /\ Runs(c)' = Executes(c)' + Occurrences(c, chunksQueued') + Occurrences(c, deferList)
                      + Occurrences(c, ListLeft)
    BY <1>1, <1>2, <2>1, <2>2 DEF RunsOK, Executes
  <2>4. Executes(c)' \in {0, One(c, executing')} /\ One(c, executing') \in Nat
    BY DEF Executes, One
  <2>5. One(c, executing') + Occurrences(c, chunksQueued') = Occurrences(c, chunksQueued)
    BY <1>3, <2>1
  <2>6. Runs(c) <= 1
    BY <2>1 DEF SingleInv
  <2> DEFINE e2 == Executes(c)'
             o == One(c, executing')
             q == Occurrences(c, chunksQueued)
             q2 == Occurrences(c, chunksQueued')
             d == Occurrences(c, deferList)
             l == Occurrences(c, ListLeft)
  <2>7. /\ q \in Nat /\ q2 \in Nat /\ d \in Nat /\ l \in Nat /\ o \in Nat /\ e2 \in {0, o}
        /\ o + q2 = q /\ 0 + q + d + l <= 1 /\ Runs(c)' = e2 + q2 + d + l
    BY <2>3, <2>4, <2>5, <2>6
  <2> HIDE DEF e2, o, q, q2, d, l
  <2> QED BY <2>7
<1>5. SingleUseOnly'
  BY <1>1 DEF SingleInv, SingleUseOnly
<1> QED BY <1>4, <1>5 DEF SingleInv, SingleUseOnly

(* The deferred context puts its chunk behind its list, in front of what it
   copies from a finished one, and takes a new chunk. *)
LEMMA ReplaceKeepsSingle ==
  ASSUME IInv, IInv', SingleInv, NEW held \in [Chunks -> Nat],
         \A k \in Chunks : held[k] = 0 <=> refs[k] = 0,
         ReplaceDeferChunk(held),
         UNCHANGED <<singleUse, chunksQueued, executing, csPc>>,
         Range(deferList') \cup Range(cmdList') \subseteq
            Range(deferList) \cup Range(cmdList) \cup
               (IF cmds[deferChunk] = <<>> THEN {} ELSE {deferChunk}),
         \A c \in single : Occurrences(c, deferList') + Occurrences(c, ListLeft')
            <= Occurrences(c, deferList) + Occurrences(c, ListLeft) + One(c, deferChunk)
  PROVE  SingleInv'
<1>1. deferChunk \in Chunks /\ deferChunk \notin Shared
  BY DEF IInv, ChunkInv, ChunkTypes, Private
<1>2. Runs(deferChunk) = 0
  BY <1>1, RunsFacts
<1>3. RunsOK /\ RunsOK'
  BY RunsTyped
<1>4. ASSUME NEW c \in single PROVE Runs(c)' <= 1
  <2>1. c \in Chunks /\ Runs(c) <= 1
    BY DEF SingleInv, IInv, ChunkInv, ChunkTypes
  <2>2. /\ Executes(c) \in Nat /\ Occurrences(c, chunksQueued) \in Nat
        /\ Occurrences(c, deferList) \in Nat /\ Occurrences(c, ListLeft) \in Nat
        /\ Runs(c) = Executes(c) + Occurrences(c, chunksQueued) + Occurrences(c, deferList)
                     + Occurrences(c, ListLeft)
        /\ Occurrences(c, deferList') \in Nat /\ Occurrences(c, ListLeft') \in Nat
        /\ Runs(c)' = Executes(c) + Occurrences(c, chunksQueued) + Occurrences(c, deferList')
                      + Occurrences(c, ListLeft')
    BY <1>3, <2>1 DEF RunsOK, Executes
  <2>3. One(c, deferChunk) + Runs(c) <= 1 /\ One(c, deferChunk) \in Nat
    <3>1. Runs(c) \in Nat
      BY <2>2
    <3> QED BY <1>2, <2>1, <3>1 DEF One
  <2>4. Occurrences(c, deferList') + Occurrences(c, ListLeft')
            <= Occurrences(c, deferList) + Occurrences(c, ListLeft) + One(c, deferChunk)
    OBVIOUS
  <2> DEFINE e == Executes(c)
             q == Occurrences(c, chunksQueued)
             d == Occurrences(c, deferList)
             d2 == Occurrences(c, deferList')
             l == Occurrences(c, ListLeft)
             l2 == Occurrences(c, ListLeft')
             o == One(c, deferChunk)
  <2>5. /\ e \in Nat /\ q \in Nat /\ d \in Nat /\ d2 \in Nat /\ l \in Nat /\ l2 \in Nat /\ o \in Nat
        /\ o + (e + q + d + l) <= 1 /\ d2 + l2 <= d + l + o /\ Runs(c)' = e + q + d2 + l2
    BY <2>2, <2>3, <2>4
  <2> HIDE DEF e, q, d, d2, l, l2, o
  <2> QED BY <2>5
<1>5. CASE cmds[deferChunk] = <<>>
  <2>1. UNCHANGED <<single, deferChunk>>
    BY <1>5 DEF ReplaceDeferChunk
  <2> QED BY <1>4, <1>5, <2>1 DEF SingleInv
<1>6. CASE cmds[deferChunk] # <<>>
  <2>1. PICK k \in Chunks : Alloc(k, singleUse, held) /\ deferChunk' = k
    BY <1>6 DEF ReplaceDeferChunk
  <2>2. single' = IF singleUse THEN single \cup {k} ELSE single \ {k}
    BY <2>1 DEF Alloc
  <2>3. k \notin Shared'
    BY <2>1 DEF IInv, ChunkInv, Private
  <2>4. Runs(k)' = 0
    <3>1. /\ k \notin Range(chunksQueued') /\ k \notin Range(deferList')
          /\ k \notin Range(cmdList') /\ k # executing'
      BY <2>3 DEF Shared
    <3>2. /\ chunksQueued' \in Seq(Chunks) /\ deferList' \in Seq(Chunks)
      BY DEF IInv, ChunkInv, ChunkTypes
    <3>3. ListLeft' \in Seq(Chunks) /\ Range(ListLeft') \subseteq Range(cmdList')
      BY LeftTyped DEF LeftOK
    <3>4. /\ Occurrences(k, chunksQueued') = 0 /\ Occurrences(k, deferList') = 0
      BY <3>1, <3>2, OccType
    <3>5. Occurrences(k, ListLeft') = 0
      <4>1. k \notin Range(ListLeft')
        BY <3>1, <3>3
      <4> QED BY <3>3, <4>1, OccType
    <3>6. Executes(k)' = 0
      BY <3>1 DEF Executes, One
    <3> QED BY <1>3, <3>4, <3>5, <3>6 DEF RunsOK
  <2>5. \A c \in single' : Runs(c)' <= 1
    BY <1>4, <2>2, <2>4
  <2>6. SingleUseOnly'
    BY <1>6, <2>1, <2>2 DEF SingleInv, SingleUseOnly
  <2> QED BY <2>5, <2>6 DEF SingleInv, SingleUseOnly
<1> QED BY <1>5, <1>6

(* What the deferred context flushes is at most its list and its chunk. *)
LEMMA FlushedBound ==
  ASSUME IInv, NEW c
  PROVE  /\ Flushed \in Seq(Chunks) /\ One(c, deferChunk) \in Nat
         /\ Occurrences(c, Flushed) \in Nat
         /\ Occurrences(c, Flushed) <= Occurrences(c, deferList) + One(c, deferChunk)
<1>1. /\ Flushed \in Seq(Chunks)
      /\ Occurrences(c, Flushed) = Occurrences(c, deferList) +
            (IF cmds[deferChunk] = <<>> THEN 0 ELSE One(c, deferChunk))
  BY FlushedFacts DEF IInv, ChunkInv
<1>2. Occurrences(c, deferList) \in Nat /\ One(c, deferChunk) \in Nat
  BY HolderTypes DEF IInv, ChunkInv
<1> QED BY <1>1, <1>2

LEMMA DeferEmitKeepsSingle ==
  ASSUME IInv, IInv', OrderInv, SingleInv, [Next]_vars, DeferEmit
  PROVE  SingleInv'
<1>1. /\ UNCHANGED <<singleUse, chunksQueued, executing, csPc, cmdList, spent, nextChunk, todo>>
      /\ IF Full(deferChunk) THEN ReplaceDeferChunk(refs) /\ deferList' = Flushed
         ELSE UNCHANGED <<alive, pool, refs, single, deferChunk, deferList>>
  BY DEF DeferEmit, deferVars, listVars, csVars
<1>2. ListLeft' = ListLeft
  BY <1>1 DEF ListLeft
<1>3. CASE ~Full(deferChunk)
  BY <1>1, <1>2, <1>3, FrameKeepsSingle
<1>4. CASE Full(deferChunk)
  <2>1. ReplaceDeferChunk(refs) /\ refs \in [Chunks -> Nat] /\ deferList' = Flushed
    BY <1>1, <1>4 DEF IInv, ChunkInv, ChunkTypes
  <2>2. Range(deferList') \cup Range(cmdList') \subseteq
            Range(deferList) \cup Range(cmdList) \cup
               (IF cmds[deferChunk] = <<>> THEN {} ELSE {deferChunk})
    BY <1>1, <2>1, FlushedFacts DEF IInv, ChunkInv
  <2>3. ASSUME NEW c \in single
        PROVE  Occurrences(c, deferList') + Occurrences(c, ListLeft')
            <= Occurrences(c, deferList) + Occurrences(c, ListLeft) + One(c, deferChunk)
    <3>1. /\ Occurrences(c, Flushed) \in Nat /\ One(c, deferChunk) \in Nat
          /\ Occurrences(c, Flushed) <= Occurrences(c, deferList) + One(c, deferChunk)
      BY FlushedBound
    <3>2. Occurrences(c, deferList) \in Nat /\ Occurrences(c, ListLeft) \in Nat
      BY RunsFacts
    <3> QED BY <1>2, <2>1, <3>1, <3>2
  <2> QED BY <1>1, <2>1, <2>2, <2>3, ReplaceKeepsSingle
<1> QED BY <1>3, <1>4

LEMMA FinishKeepsSingle ==
  ASSUME IInv, IInv', OrderInv, SingleInv, [Next]_vars, FinishCommandList
  PROVE  SingleInv'
<1>1. /\ UNCHANGED <<singleUse, chunksQueued, executing, csPc, todo>>
      /\ ReplaceDeferChunk(refs) /\ deferList' = <<>> /\ cmdList' = Flushed /\ ~hasList /\ ~spent'
  BY DEF FinishCommandList, csVars
<1>2. "list" \notin Range(todo)
  BY <1>1 DEF IInv, TodoInv, ListKept
<1>3. ListLeft' = Flushed
  BY <1>1, <1>2 DEF ListLeft
<1>4. refs \in [Chunks -> Nat]
  BY DEF IInv, ChunkInv, ChunkTypes
<1>5. Range(deferList') \cup Range(cmdList') \subseteq
          Range(deferList) \cup Range(cmdList) \cup
             (IF cmds[deferChunk] = <<>> THEN {} ELSE {deferChunk})
  <2>1. Range(deferList') = {}
    BY <1>1 DEF Range
  <2> QED BY <1>1, <2>1, FlushedFacts DEF IInv, ChunkInv
<1>6. ASSUME NEW c \in single
      PROVE  Occurrences(c, deferList') + Occurrences(c, ListLeft')
          <= Occurrences(c, deferList) + Occurrences(c, ListLeft) + One(c, deferChunk)
  <2>1. /\ Occurrences(c, Flushed) \in Nat /\ One(c, deferChunk) \in Nat
        /\ Occurrences(c, Flushed) <= Occurrences(c, deferList) + One(c, deferChunk)
    BY FlushedBound
  <2>2. /\ Occurrences(c, deferList) \in Nat /\ Occurrences(c, ListLeft) \in Nat
        /\ Occurrences(c, deferList') = 0
    BY <1>1, RunsFacts, OccEmpty
  <2> QED BY <1>3, <2>1, <2>2
<1> QED BY <1>1, <1>4, <1>5, <1>6, ReplaceKeepsSingle

LEMMA EmitListKeepsSingle ==
  ASSUME IInv, IInv', OrderInv, SingleInv, [Next]_vars, EmitToCommandList
  PROVE  SingleInv'
<1> DEFINE held == Retained(cmdList)
<1>1. /\ UNCHANGED <<singleUse, chunksQueued, executing, csPc, todo, cmdList, nextChunk>>
      /\ ReplaceDeferChunk(held) /\ deferList' = Flushed \o cmdList
      /\ spent' = TRUE /\ ~(singleUse /\ spent)
  BY DEF EmitToCommandList, csVars, Executable
<1>2. refs \in [Chunks -> Nat] /\ cmdList \in Seq(Chunks)
  BY DEF IInv, ChunkInv, ChunkTypes
<1>3. ASSUME NEW k \in Chunks PROVE held[k] \in Nat /\ (held[k] = 0 <=> refs[k] = 0)
  <2>1. Occurrences(k, cmdList) \in Nat /\ (Occurrences(k, cmdList) = 0 <=> k \notin Range(cmdList))
    BY HolderTypes DEF IInv, ChunkInv
  <2>2. refs[k] = 0 => k \notin Range(cmdList)
    BY Unheld DEF IInv, ChunkInv, Shared
  <2> QED BY <1>2, <2>1, <2>2 DEF Retained
<1>4. held \in [Chunks -> Nat]
  BY <1>3 DEF Retained
<1> HIDE DEF held
<1>5. /\ Flushed \in Seq(Chunks)
      /\ Range(Flushed) = Range(deferList) \cup
            (IF cmds[deferChunk] = <<>> THEN {} ELSE {deferChunk})
  BY FlushedFacts DEF IInv, ChunkInv
<1>6. Range(deferList') = Range(Flushed) \cup Range(cmdList)
  BY <1>1, <1>2, <1>5, RangeConcatenation
<1>7. Range(deferList') \cup Range(cmdList') \subseteq
          Range(deferList) \cup Range(cmdList) \cup
             (IF cmds[deferChunk] = <<>> THEN {} ELSE {deferChunk})
  BY <1>1, <1>5, <1>6
<1>8. ASSUME NEW c \in single
      PROVE  Occurrences(c, deferList') + Occurrences(c, ListLeft')
          <= Occurrences(c, deferList) + Occurrences(c, ListLeft) + One(c, deferChunk)
  <2>1. /\ Occurrences(c, Flushed) \in Nat /\ One(c, deferChunk) \in Nat
        /\ Occurrences(c, Flushed) <= Occurrences(c, deferList) + One(c, deferChunk)
    BY FlushedBound
  <2>2. /\ Occurrences(c, deferList) \in Nat /\ Occurrences(c, ListLeft) \in Nat
        /\ Occurrences(c, cmdList) \in Nat
    BY RunsFacts
  <2>3. Occurrences(c, deferList') = Occurrences(c, Flushed) + Occurrences(c, cmdList)
    BY <1>1, <1>2, <1>5, OccConcat
  <2>4. CASE singleUse
    <3>1. "list" \notin Range(todo) /\ ~spent
      BY <1>1, <2>4 DEF OrderInv
    <3>2. ListLeft = cmdList /\ ListLeft' = <<>>
      BY <1>1, <3>1 DEF ListLeft
    <3>3. Occurrences(c, ListLeft') = 0
      BY <3>2, OccEmpty
    <3> QED BY <2>1, <2>2, <2>3, <3>2, <3>3
  <2>5. CASE ~singleUse
    <3>1. c \notin Range(cmdList)
      BY <2>5 DEF SingleInv
    <3>2. Occurrences(c, cmdList) = 0
      BY <1>2, <3>1, OccType
    <3>3. Occurrences(c, ListLeft') = 0
      <4>1. ListLeft' \in Seq(Chunks) /\ Range(ListLeft') \subseteq Range(cmdList)
        BY <1>1, LeftTyped DEF LeftOK
      <4> QED BY <3>1, <4>1, OccType
    <3> QED BY <2>1, <2>2, <2>3, <3>2, <3>3
  <2> QED BY <2>4, <2>5
<1> QED BY <1>1, <1>3, <1>4, <1>7, <1>8, ReplaceKeepsSingle

LEMMA SingleStep ==
  ASSUME IInv, OrderInv, SingleInv, [Next]_vars
  PROVE  SingleInv'
<1>1. IInv' /\ ChunkInv
  BY InvStep DEF IInv
<1>2. CASE Call
  BY <1>1, <1>2, CallKeepsSingle
<1>3. CASE ExecuteCommandList
  BY <1>1, <1>3, ExecuteListKeepsSingle
<1>4. ASSUME ~Call, ~ExecuteCommandList,
             UNCHANGED <<singleUse, single, chunksQueued, deferChunk, deferList, cmdList,
                         executing, csPc, spent, nextChunk>>
      PROVE  SingleInv'
  BY <1>1, <1>4, LeftFrame, FrameKeepsSingle
<1>5. ASSUME NEW r, DispatchCsChunk(r), csChunk # NoChunk, EmitCs \/ FlushCsChunk
      PROVE  SingleInv'
  <2>1. ~Call /\ ~ExecuteCommandList
    BY <1>5 DEF Call, EmitCs, FlushCsChunk, ExecuteCommandList
  <2> QED BY <1>1, <1>5, <2>1, DispatchKeepsSingle
<1>6. CASE EmitCs \/ FlushCsChunk
  <2>1. CASE csChunk # NoChunk /\ \E r \in {todo, Tail(todo)} : DispatchCsChunk(r)
    BY <1>5, <1>6, <2>1
  <2>2. CASE ~(\E r \in {todo, Tail(todo)} : DispatchCsChunk(r))
    <3>1. UNCHANGED <<singleUse, single, chunksQueued, deferChunk, deferList, cmdList,
                      executing, csPc, spent, nextChunk>>
      BY <1>6, <2>2 DEF EmitCs, FlushCsChunk, chunkVars, deferVars, listVars, csVars
    <3> QED BY <1>4, <1>6, <3>1 DEF Call, EmitCs, FlushCsChunk, ExecuteCommandList
  <2>3. csChunk # NoChunk
    BY <1>1, <1>6 DEF ChunkInv, HasChunk, EmitCs, FlushCsChunk
  <2> QED BY <2>1, <2>2, <2>3
<1>7. CASE AllocCsChunk
  BY <1>1, <1>7, AllocKeepsSingle
<1>8. CASE ReleaseCommandList
  BY <1>1, <1>8, ReleaseKeepsSingle
<1>9. CASE DeferEmit \/ FinishCommandList \/ EmitToCommandList
  BY <1>1, <1>9, DeferEmitKeepsSingle, FinishKeepsSingle, EmitListKeepsSingle
<1>10. CASE CsLock \/ CsWake
  BY <1>1, <1>10, TakeKeepsSingle
<1>11. CASE ExecuteAll
  <2>1. /\ csPc' # "exec"
        /\ UNCHANGED <<singleUse, single, chunksQueued, deferChunk, deferList, cmdList, executing,
                       spent, nextChunk, todo>>
    BY <1>11 DEF ExecuteAll, NextTurn, deferVars, listVars
  <2>2. ListLeft' = ListLeft
    BY <2>1 DEF ListLeft
  <2> QED BY <1>1, <2>1, <2>2, FrameKeepsSingle
<1>12. CASE UNCHANGED vars \/ DeviceFlush \/ SetBusy \/ Synchronize \/ Stop \/ Terminated
  <2>1. UNCHANGED <<singleUse, single, chunksQueued, deferChunk, deferList, cmdList,
                    executing, csPc, spent, nextChunk>>
    BY <1>12 DEF DeviceFlush, SetBusy, Synchronize, Stop, Terminated, vars, chunkVars,
           deferVars, listVars, csVars
  <2> QED BY <1>2, <1>3, <1>4, <2>1
<1> QED BY <1>2, <1>3, <1>6, <1>7, <1>8, <1>9, <1>10, <1>11, <1>12 DEF Next, AppStep, DeferStep,
           CsStep

-----------------------------------------------------------------------------
(* Commands in order *)

LEMMA ListStep ==
  ASSUME IInv, OrderInv, ListInv, [Next]_vars
  PROVE  ListInv'
<1> DEFINE R == Range(todo)
           F == Range(Tail(todo))
           h == Head(todo)
           N == Range(todo')
<1> SUFFICES ASSUME "list" \in N, "dispatch" \notin N
             PROVE  Content(csChunk)' = <<>>
  BY DEF ListInv
<1>1. TodoSets /\ ("emitFlush" \in R => "dispatch" \in R)
  BY TodoChange DEF OrderInv
<1>2. CASE EmitCs
  <2>1. todo # <<>> /\ h \in {"emit", "emitFlush"}
    BY <1>2 DEF EmitCs
  <2>2. CASE ~Full(csChunk)
    <3>1. N = F /\ R = F \cup {h} /\ F \subseteq After(h)
      BY <1>1, <1>2, <2>1, <2>2 DEF EmitCs, TodoSets
    <3> HIDE DEF R, F, h, N
    <3> QED BY <1>1, <2>1, <3>1 DEF After
  <2>3. CASE Full(csChunk)
    <3>1. csChunk' = NoChunk
      BY <1>2, <2>3 DEF EmitCs, DispatchCsChunk
    <3> QED BY <3>1 DEF Content
  <2> QED BY <2>2, <2>3
<1>3. CASE FlushCsChunk
  <2>1. CASE cmds[csChunk] # <<>>
    <3>1. csChunk' = NoChunk
      BY <1>3, <2>1 DEF FlushCsChunk, DispatchCsChunk
    <3> QED BY <3>1 DEF Content
  <2>2. CASE cmds[csChunk] = <<>>
    <3>1. UNCHANGED <<cmds, csChunk>>
      BY <1>3, <2>2 DEF FlushCsChunk, chunkVars
    <3> QED BY <2>2, <3>1 DEF Content
  <2> QED BY <2>1, <2>2
<1>4. CASE AllocCsChunk
  <2>1. PICK c \in Chunks : Alloc(c, TRUE, refs) /\ csChunk' = c
    BY <1>4 DEF AllocCsChunk
  <2>2. cmds' = cmds
    BY <1>4 DEF AllocCsChunk
  <2>3. cmds[c] = <<>>
    BY <2>1, AllocFresh DEF IInv, ChunkInv, ChunkTypes
  <2> QED BY <2>1, <2>2, <2>3 DEF Content
<1>5. CASE ~EmitCs /\ ~FlushCsChunk /\ ~AllocCsChunk
  <2>1. csChunk' = csChunk
    BY <1>5 DEF Next, AppStep, DeferStep, CsStep, vars, Call, DeviceFlush, SetBusy, Synchronize,
           ExecuteCommandList, Stop, ReleaseCommandList, DeferEmit, FinishCommandList,
           EmitToCommandList, CsLock, CsWake, ExecuteAll, Terminated
  <2>2. Popped => h # "dispatch"
    BY <1>5, PoppedBy DEF DeviceFlush, SetBusy, Synchronize, ExecuteCommandList, Stop
  <2>3. "list" \in R /\ "dispatch" \notin R
    <3>1. /\ todo # <<>> => R = F \cup {h} /\ F \subseteq After(h)
          /\ \/ N = R
             \/ N \in {{"emit"}, {"flush"}, {"dispatch", "sync"},
                   {"flush", "dispatch", "sync", "stop"},
                   {"dispatch", "maybeFlush", "list", "emit", "busy"}}
             \/ todo # <<>> /\ N = F /\ h # "dispatch"
             \/ N = R \cup {"alloc"}
             \/ todo # <<>> /\ h = "dispatch" /\ N = F \cup {"alloc"} /\ DispatchCsChunk(Tail(todo))
             \/ "dispatch" \in N
             \/ todo # <<>> /\ h = "sync" /\ N = F \cup {"wait"}
      BY <1>1, <2>2 DEF TodoSets, Popped
    <3>2. ~DispatchCsChunk(Tail(todo)) \/ csChunk = NoChunk
      BY <2>1 DEF DispatchCsChunk
    <3>3. h = "dispatch" => csChunk # NoChunk \/ todo = <<>>
      BY DEF IInv, ChunkInv, HasChunk
    <3> HIDE DEF R, F, h, N
    <3> QED BY <3>1, <3>2, <3>3
  <2> QED BY <1>5, <2>1, <2>3, EmptyKept DEF ListInv
<1> QED BY <1>2, <1>3, <1>4, <1>5

(* Pipe in its three parts. *)
CmdSeq == Seq(0 .. MaxCmds + 1)
Queued == Contents(cmds, chunksQueued)

LEMMA PipeParts ==
  ASSUME IInv
  PROVE  /\ Running \in CmdSeq /\ Queued \in CmdSeq /\ Content(csChunk) \in CmdSeq
         /\ Pipe = (Running \o Queued) \o Content(csChunk) /\ Pipe \in CmdSeq
<1>1. /\ cmds \in [Chunks -> CmdSeq] /\ chunksQueued \in Seq(Chunks)
      /\ csChunk \in Chunks \cup {NoChunk} /\ executing \in Chunks \cup {NoChunk}
  BY DEF IInv, ChunkInv, ChunkTypes, CmdSeq
<1>2. <<>> \in CmdSeq
  BY DEF CmdSeq
<1>3. Running \in CmdSeq /\ Content(csChunk) \in CmdSeq
  BY <1>1, <1>2 DEF Running, Content
<1>4. Queued \in CmdSeq
  <2>1. Contents(cmds, chunksQueued) \in CmdSeq
    BY <1>1, ContentsOf DEF CmdSeq
  <2> QED BY <2>1 DEF Queued
<1>5. Pipe = (Running \o Queued) \o Content(csChunk)
  <2> DEFINE u == Running
             v == Queued
             w == Content(csChunk)
  <2>1. u \in Seq(Int) /\ v \in Seq(Int) /\ w \in Seq(Int)
    BY <1>3, <1>4, StreamAssumption DEF CmdSeq
  <2>2. Pipe = u \o (v \o w)
    BY DEF Pipe, Waiting, Commands, Queued, Contents
  <2> HIDE DEF u, v, w
  <2>3. u \o (v \o w) = (u \o v) \o w
    BY <2>1, ConcatAssociative
  <2> QED BY <2>2, <2>3 DEF u, v, w
<1>6. (Running \o Queued) \o Content(csChunk) \in CmdSeq
  <2> DEFINE u == Running
             v == Queued
             w == Content(csChunk)
  <2>1. u \in CmdSeq /\ v \in CmdSeq /\ w \in CmdSeq
    BY <1>3, <1>4
  <2> HIDE DEF u, v, w
  <2>2. (u \o v) \o w \in CmdSeq
    BY <2>1 DEF CmdSeq
  <2> QED BY <2>2 DEF u, v, w
<1> QED BY <1>3, <1>4, <1>5, <1>6

PartsOK ==
    /\ Running \in CmdSeq /\ Queued \in CmdSeq /\ Content(csChunk) \in CmdSeq
    /\ Pipe = (Running \o Queued) \o Content(csChunk) /\ Pipe \in CmdSeq

LEMMA PipeTyped == (IInv => PartsOK) /\ (IInv' => PartsOK')
<1>1. IInv => PartsOK
  BY PipeParts DEF PartsOK
<1> QED BY <1>1, PTL

(* Steps that only touch chunks nobody is to execute. *)
LEMMA QueuedSame ==
  ASSUME IInv, NEW m, \A c \in Range(chunksQueued) : m[c] = cmds[c]
  PROVE  Contents(m, chunksQueued) = Queued
<1>1. chunksQueued \in Seq(Chunks)
  BY DEF IInv, ChunkInv, ChunkTypes
<1> QED BY <1>1, ContentsSame DEF Queued

LEMMA PipeSame ==
  ASSUME IInv, UNCHANGED <<csPc, executing, chunksQueued, csChunk>>,
         \A c \in (Range(chunksQueued) \cup {executing, csChunk}) \ {NoChunk} :
            cmds'[c] = cmds[c]
  PROVE  Pipe' = Pipe
<1>1. Running' = Running /\ Content(csChunk)' = Content(csChunk)
  BY DEF Running, Content
<1>2. Queued' = Queued
  <2>1. \A c \in Range(chunksQueued) : c # NoChunk
    BY SharedTypes, StreamAssumption DEF IInv, ChunkInv
  <2>2. Contents(cmds', chunksQueued) = Queued
    BY <2>1, QueuedSame
  <2> QED BY <2>2 DEF Queued
<1> QED BY <1>1, <1>2 DEF Pipe, Running, Waiting, Commands, Queued, Contents

LEMMA AllocPipe ==
  ASSUME IInv, AllocCsChunk
  PROVE  Pipe' = Pipe
<1>1. PICK c \in Chunks : Alloc(c, TRUE, refs) /\ csChunk' = c
  BY DEF AllocCsChunk
<1>2. /\ UNCHANGED <<cmds, csPc, executing, chunksQueued>> /\ todo # <<>> /\ Head(todo) = "alloc"
  BY DEF AllocCsChunk, csVars
<1>3. cmds[c] = <<>> /\ c # NoChunk
  BY <1>1, AllocFresh, StreamAssumption DEF IInv, ChunkInv, ChunkTypes
<1>4. csChunk = NoChunk
  BY <1>2 DEF IInv, ChunkInv, HasChunk
<1>5. Content(csChunk) = <<>> /\ Content(csChunk)' = <<>>
  BY <1>1, <1>2, <1>3, <1>4 DEF Content
<1>6. Running' = Running /\ Queued' = Queued
  BY <1>2 DEF Running, Queued, Content
<1> QED BY <1>5, <1>6 DEF Pipe, Running, Waiting, Commands, Queued, Contents

(* A command goes to the end. *)
Emitted == IF Head(todo) = "emit" THEN numCmds + 1 ELSE Flush

LEMMA EmitPipe ==
  ASSUME IInv, IInv', EmitCs, ~Full(csChunk)
  PROVE  Pipe' = Append(Pipe, Emitted)
<1>1. /\ UNCHANGED <<csPc, executing, chunksQueued, csChunk>>
      /\ cmds' = [cmds EXCEPT ![csChunk] = Append(@, Emitted)]
      /\ todo # <<>> /\ Head(todo) \in {"emit", "emitFlush"}
  BY DEF EmitCs, csVars, Emitted
<1>2. /\ csChunk \in Chunks /\ csChunk \notin Shared /\ csChunk # NoChunk
      /\ DOMAIN cmds = Chunks
  BY <1>1, StreamAssumption DEF IInv, ChunkInv, ChunkTypes, Private, HasChunk
<1>3. /\ cmds'[csChunk] = Append(cmds[csChunk], Emitted)
      /\ \A c \in Range(chunksQueued) \cup {executing} : cmds'[c] = cmds[c] \/ c \notin Chunks
  BY <1>1, <1>2 DEF Shared
<1>4. \A c \in Range(chunksQueued) : cmds'[c] = cmds[c]
  BY <1>3, SharedTypes DEF IInv, ChunkInv
<1>5. Running' = Running
  BY <1>1, <1>3 DEF Running, Content, IInv, ChunkInv, ChunkTypes
<1>6. Queued' = Queued
  <2>1. Contents(cmds', chunksQueued) = Queued
    BY <1>4, QueuedSame
  <2> QED BY <1>1, <2>1 DEF Queued
<1>7. Content(csChunk)' = Append(Content(csChunk), Emitted)
  BY <1>1, <1>2, <1>3 DEF Content
<1>8. PartsOK /\ PartsOK'
  BY PipeTyped
<1>9. Emitted \in Int
  BY DEF Emitted, Flush, IInv, TodoInv, CommandsBounded
<1> DEFINE u == Running \o Queued
           w == Content(csChunk)
           e == Emitted
<1>10. /\ Pipe = u \o w /\ Pipe' = u \o Append(w, e)
  BY <1>5, <1>6, <1>7, <1>8 DEF PartsOK
<1>11. u \in Seq(Int) /\ w \in Seq(Int) /\ e \in Int
  <2> DEFINE x == Running
             y == Queued
  <2>1. x \in Seq(Int) /\ y \in Seq(Int) /\ w \in Seq(Int)
    BY <1>8, StreamAssumption DEF PartsOK, CmdSeq
  <2> HIDE DEF x, y
  <2>2. x \o y \in Seq(Int)
    BY <2>1
  <2> QED BY <1>9, <2>1, <2>2 DEF x, y
<1> HIDE DEF u, w, e
<1>12. u \o Append(w, e) = Append(u \o w, e)
  BY <1>11
<1> QED BY <1>10, <1>12 DEF e

(* The context's chunk becomes the last one of the queue. *)
LEMMA DispatchPipe ==
  ASSUME IInv, IInv', NEW r, DispatchCsChunk(r), csChunk # NoChunk
  PROVE  Pipe' = Pipe
<1>1. /\ UNCHANGED <<csPc, executing, cmds>> /\ csChunk' = NoChunk
      /\ chunksQueued' = Append(chunksQueued, csChunk)
  BY DEF DispatchCsChunk, csVars, chunkVars
<1>2. /\ csChunk \in Chunks /\ cmds \in [Chunks -> CmdSeq] /\ chunksQueued \in Seq(Chunks)
  BY DEF IInv, ChunkInv, ChunkTypes, CmdSeq
<1>3. Contents(cmds, Append(chunksQueued, csChunk)) = Contents(cmds, chunksQueued) \o cmds[csChunk]
  BY <1>2, ContentsPush DEF CmdSeq
<1>4. Queued' = Queued \o Content(csChunk)
  BY <1>1, <1>3 DEF Queued, Content
<1>5. Running' = Running /\ Content(csChunk)' = <<>>
  BY <1>1 DEF Running, Content
<1>6. PartsOK /\ PartsOK'
  BY PipeTyped
<1> DEFINE x == Running
           y == Queued
           w == Content(csChunk)
<1>7. /\ x \in Seq(Int) /\ y \in Seq(Int) /\ w \in Seq(Int)
      /\ Pipe = (x \o y) \o w /\ Pipe' = (x \o (y \o w)) \o <<>>
  BY <1>4, <1>5, <1>6, StreamAssumption DEF PartsOK, CmdSeq
<1> HIDE DEF x, y, w
<1>8. (x \o (y \o w)) \o <<>> = (x \o y) \o w
  BY <1>7
<1> QED BY <1>7, <1>8

(* A chunk of the list does as well: nothing is left in front of it. *)
LEMMA ListPipe ==
  ASSUME IInv, IInv', OrderInv, ListInv, ExecuteCommandList
  PROVE  \/ nextChunk > Len(cmdList) /\ Pipe' = Pipe
         \/ /\ nextChunk <= Len(cmdList) /\ cmdList[nextChunk] \in Chunks
            /\ Pipe' = Pipe \o cmds[cmdList[nextChunk]] /\ todo' = todo
<1>1. /\ UNCHANGED <<csPc, executing, cmds, csChunk>> /\ todo # <<>> /\ Head(todo) = "list"
  BY DEF ExecuteCommandList, csVars
<1>2. CASE nextChunk > Len(cmdList)
  <2>1. UNCHANGED chunksQueued
    BY <1>2 DEF ExecuteCommandList, IInv, TodoInv, ListKept
  <2> QED BY <1>1, <1>2, <2>1, PipeSame
<1>3. CASE nextChunk <= Len(cmdList)
  <2> DEFINE k == cmdList[nextChunk]
  <2>1. chunksQueued' = Append(chunksQueued, k) /\ todo' = todo
    BY <1>3 DEF ExecuteCommandList
  <2>2. k \in Chunks
    <3>1. cmdList \in Seq(Chunks) /\ nextChunk \in 1 .. Len(cmdList) + 1
      BY DEF IInv, TodoInv, ListKept
    <3> QED BY <1>3, <3>1
  <2> HIDE DEF k
  <2>3. cmds \in [Chunks -> CmdSeq] /\ chunksQueued \in Seq(Chunks)
    BY DEF IInv, ChunkInv, ChunkTypes, CmdSeq
  <2>4. Contents(cmds, Append(chunksQueued, k)) = Contents(cmds, chunksQueued) \o cmds[k]
    BY <2>2, <2>3, ContentsPush DEF CmdSeq
  <2>5. Queued' = Queued \o cmds[k] /\ Running' = Running /\ Content(csChunk)' = Content(csChunk)
    BY <1>1, <2>1, <2>4 DEF Queued, Running, Content
  <2>6. Content(csChunk) = <<>>
    <3>1. todo \in Seq(StepNames) /\ Behind(todo)
      BY DEF OrderInv, IInv, TodoInv, ProgramOK
    <3>2. Range(todo) = Range(Tail(todo)) \cup {"list"} /\ Range(Tail(todo)) \subseteq After("list")
      BY <1>1, <3>1, BehindTail
    <3>3. "list" \in Range(todo) /\ "dispatch" \notin Range(todo)
      BY <3>2 DEF After
    <3> QED BY <3>3 DEF ListInv
  <2>7. PartsOK /\ PartsOK'
    BY PipeTyped
  <2> DEFINE x == Running
             y == Queued
             w == cmds[k]
  <2>8. /\ x \in Seq(Int) /\ y \in Seq(Int) /\ w \in Seq(Int)
        /\ Pipe = (x \o y) \o <<>> /\ Pipe' = (x \o (y \o w)) \o <<>>
    BY <2>2, <2>3, <2>5, <2>6, <2>7, StreamAssumption DEF PartsOK, CmdSeq
  <2> HIDE DEF x, y, w
  <2>9. (x \o (y \o w)) \o <<>> = ((x \o y) \o <<>>) \o w
    <3>1. ASSUME NEW a \in Seq(Int) PROVE a \o <<>> = a
      OBVIOUS
    <3>2. x \o y \in Seq(Int) /\ x \o (y \o w) \in Seq(Int)
      BY <2>8
    <3>3. (x \o y) \o <<>> = x \o y
      BY <3>1, <3>2
    <3>4. (x \o (y \o w)) \o <<>> = x \o (y \o w)
      BY <3>1, <3>2
    <3>5. x \o (y \o w) = (x \o y) \o w
      BY <2>8, ConcatAssociative
    <3> QED BY <3>3, <3>4, <3>5
  <2>10. Pipe' = Pipe \o w
    BY <2>8, <2>9
  <2> QED BY <1>3, <2>1, <2>2, <2>10 DEF w, k
<1>4. nextChunk > Len(cmdList) \/ nextChunk <= Len(cmdList)
  BY DEF IInv, TodoInv, ListKept
<1> QED BY <1>2, <1>3, <1>4

(* Chunks whose last reference goes are not in the pipe. *)
LEMMA ReleaseSame ==
  ASSUME IInv, IInv', NEW s, Release(s), NEW c \in Chunks,
         c \in Shared' \cup {csChunk', deferChunk'}
  PROVE  cmds'[c] = cmds[c]
<1>1. refs'[c] # 0
  <2>1. refs'[c] = 0 <=> c \notin Shared' \cup {csChunk', deferChunk'}
    BY UnheldTyped DEF HeldOK
  <2> QED BY <2>1
<1> DEFINE left == [k \in Chunks |-> refs[k] - Occurrences(k, s)]
           free == {k \in Chunks : k \in Range(s) /\ Unreferenced(left[k])}
<1>2. refs' = left /\ cmds' = [k \in Chunks |-> IF k \in free THEN <<>> ELSE cmds[k]]
  BY DEF Release
<1>3. c \notin free
  BY <1>1, <1>2 DEF Unreferenced
<1> HIDE DEF free
<1> QED BY <1>2, <1>3

LEMMA ReleasePipe ==
  ASSUME IInv, IInv', ReleaseCommandList
  PROVE  Pipe' = Pipe
<1>1. /\ Release(cmdList) /\ UNCHANGED <<csPc, executing, chunksQueued, csChunk>>
  BY DEF ReleaseCommandList, csVars
<1>2. ASSUME NEW c \in (Range(chunksQueued) \cup {executing, csChunk}) \ {NoChunk}
      PROVE  cmds'[c] = cmds[c]
  <2>1. c \in Chunks
    BY SharedTypes DEF IInv, ChunkInv, ChunkTypes
  <2>2. c \in Shared' \cup {csChunk', deferChunk'}
    BY <1>1 DEF Shared
  <2> QED BY <1>1, <2>1, <2>2, ReleaseSame
<1> QED BY <1>1, <1>2, PipeSame

LEMMA DeferEmitPipe ==
  ASSUME IInv, IInv', DeferEmit
  PROVE  Pipe' = Pipe
<1>1. /\ cmds' = [cmds EXCEPT ![deferChunk'] = Append(@, numCmds')]
      /\ UNCHANGED <<csPc, executing, chunksQueued, csChunk>>
  BY DEF DeferEmit, csVars
<1>2. deferChunk' \notin Shared' /\ csChunk' # deferChunk'
  BY DEF IInv, ChunkInv, Private
<1>3. ASSUME NEW c \in (Range(chunksQueued) \cup {executing, csChunk}) \ {NoChunk}
      PROVE  cmds'[c] = cmds[c]
  <2>1. c \in Chunks /\ DOMAIN cmds = Chunks
    BY SharedTypes DEF IInv, ChunkInv, ChunkTypes
  <2>2. c # deferChunk'
    BY <1>1, <1>2 DEF Shared
  <2> QED BY <1>1, <2>1, <2>2
<1> QED BY <1>1, <1>3, PipeSame

(* The thread takes the first chunk of the queue in its hands. *)
LEMMA TakePipe ==
  ASSUME IInv, IInv', CsLock \/ CsWake
  PROVE  Pipe' = Pipe
<1>1. /\ TakeChunk /\ csPc # "exec" /\ csChunk' = csChunk
      /\ (\E s : Release(s)) \/ cmds' = cmds
  BY DEF CsLock, CsWake, chunkVars
<1>2. /\ cmds \in [Chunks -> CmdSeq] /\ chunksQueued \in Seq(Chunks) /\ csChunk \in Chunks \cup {NoChunk}
      /\ NoChunk \notin Chunks
  BY StreamAssumption DEF IInv, ChunkInv, ChunkTypes, CmdSeq
<1>3. ASSUME NEW c \in Chunks, c \in Shared' \cup {csChunk', deferChunk'}
      PROVE  cmds'[c] = cmds[c]
  BY <1>1, <1>3, ReleaseSame
<1>4. Content(csChunk)' = Content(csChunk)
  BY <1>1, <1>2, <1>3 DEF Content
<1>5. Running = <<>>
  BY <1>1 DEF Running
<1>6. chunksQueued' \in Seq(Chunks) /\ Range(chunksQueued') \subseteq Chunks
  BY SeqRange DEF IInv, ChunkInv, ChunkTypes
<1>7. Queued' = Contents(cmds, chunksQueued')
  <2>1. \A c \in Range(chunksQueued') : cmds'[c] = cmds[c]
    BY <1>3, <1>6 DEF Shared
  <2>2. Contents(cmds', chunksQueued') = Contents(cmds, chunksQueued')
    BY <1>6, <2>1, ContentsSame
  <2> QED BY <2>2 DEF Queued
<1>8. PartsOK /\ PartsOK'
  BY PipeTyped
<1>9. CASE chunksQueued = <<>>
  <2>1. chunksQueued' = <<>> /\ csPc' # "exec"
    BY <1>1, <1>9 DEF TakeChunk
  <2>2. Queued' = Queued /\ Running' = Running
    BY <1>5, <1>7, <1>9, <2>1 DEF Queued, Running
  <2> QED BY <1>4, <1>8, <2>2 DEF PartsOK
<1>10. CASE chunksQueued # <<>>
  <2>1. executing' = Head(chunksQueued) /\ chunksQueued' = Tail(chunksQueued) /\ csPc' = "exec"
    BY <1>1, <1>10 DEF TakeChunk
  <2>2. /\ Contents(cmds, chunksQueued) = cmds[Head(chunksQueued)] \o Contents(cmds, Tail(chunksQueued))
        /\ Head(chunksQueued) \in Chunks
    BY <1>2, <1>10, ContentsPop DEF CmdSeq
  <2>3. Running' = cmds[executing']
    <3>1. executing' \in Chunks /\ executing' \in Shared'
      BY <2>1, <2>2 DEF Shared
    <3>2. cmds'[executing'] = cmds[executing']
      BY <1>3, <3>1
    <3> QED BY <1>2, <2>1, <3>1, <3>2 DEF Running, Content
  <2>4. Queued = Running' \o Queued'
    BY <1>7, <2>1, <2>2, <2>3 DEF Queued
  <2> DEFINE x == Running'
             y == Queued'
             w == Content(csChunk)
  <2>5. /\ x \in Seq(Int) /\ y \in Seq(Int) /\ w \in Seq(Int)
        /\ Pipe = (<<>> \o (x \o y)) \o w /\ Pipe' = (x \o y) \o w
    BY <1>4, <1>5, <1>8, <2>4, StreamAssumption DEF PartsOK, CmdSeq
  <2> HIDE DEF x, y, w
  <2>6. (<<>> \o (x \o y)) \o w = (x \o y) \o w
    BY <2>5
  <2> QED BY <2>5, <2>6
<1> QED BY <1>9, <1>10

(* It runs the commands at the front, and none of those behind them. *)
LEMMA ExecutePipe ==
  ASSUME IInv, IInv', SingleInv, ExecuteAll
  PROVE  Pipe = cmds[executing] \o Pipe' /\ cmds[executing] \in CmdSeq
<1>1. /\ csPc = "exec" /\ csPc' # "exec" /\ UNCHANGED <<chunksQueued, csChunk>>
      /\ cmds' = IF executing \in single THEN [cmds EXCEPT ![executing] = <<>>] ELSE cmds
  BY DEF ExecuteAll, NextTurn
<1>2. /\ cmds \in [Chunks -> CmdSeq] /\ executing \in Chunks /\ executing # NoChunk
      /\ csChunk # NoChunk => csChunk \notin Shared
      /\ Range(chunksQueued) \subseteq Chunks
  BY <1>1, StreamAssumption, SeqRange DEF IInv, ChunkInv, ChunkTypes, ExecutingOK, Private, CmdSeq
<1>3. executing \in single => executing \notin Range(chunksQueued)
  <2>1. ASSUME executing \in single PROVE Occurrences(executing, chunksQueued) = 0
    <3>1. Runs(executing) <= 1 /\ Executes(executing) = 1
      BY <1>1, <2>1 DEF SingleInv, Executes, One
    <3>2. /\ Occurrences(executing, chunksQueued) \in Nat /\ Occurrences(executing, deferList) \in Nat
          /\ Occurrences(executing, ListLeft) \in Nat
          /\ Runs(executing) = Executes(executing) + Occurrences(executing, chunksQueued)
                               + Occurrences(executing, deferList) + Occurrences(executing, ListLeft)
      BY RunsFacts
    <3> DEFINE q == Occurrences(executing, chunksQueued)
               d == Occurrences(executing, deferList)
               l == Occurrences(executing, ListLeft)
    <3>3. q \in Nat /\ d \in Nat /\ l \in Nat /\ 1 + q + d + l <= 1
      BY <3>1, <3>2
    <3> HIDE DEF q, d, l
    <3>4. q = 0
      BY <3>3
    <3> QED BY <3>4 DEF q
  <2>2. chunksQueued \in Seq(Chunks)
    BY DEF IInv, ChunkInv, ChunkTypes
  <2> QED BY <2>1, <2>2, OccType
<1>4. \A c \in Range(chunksQueued) : cmds'[c] = cmds[c]
  BY <1>1, <1>2, <1>3
<1>5. Queued' = Queued
  <2>1. Contents(cmds', chunksQueued) = Queued
    BY <1>4, QueuedSame
  <2> QED BY <1>1, <2>1 DEF Queued
<1>6. Content(csChunk)' = Content(csChunk)
  <2>1. csChunk # NoChunk => csChunk # executing /\ csChunk \in Chunks
    BY <1>2 DEF Shared, IInv, ChunkInv, ChunkTypes
  <2> QED BY <1>1, <1>2, <2>1 DEF Content
<1>7. Running = cmds[executing] /\ Running' = <<>>
  BY <1>1, <1>2 DEF Running, Content
<1>8. PartsOK /\ PartsOK'
  BY PipeTyped
<1> DEFINE x == Running
           y == Queued
           w == Content(csChunk)
<1>9. /\ x \in Seq(Int) /\ y \in Seq(Int) /\ w \in Seq(Int)
      /\ Pipe = (x \o y) \o w /\ Pipe' = (<<>> \o y) \o w
  BY <1>5, <1>6, <1>7, <1>8, StreamAssumption DEF PartsOK, CmdSeq
<1> HIDE DEF x, y, w
<1>10. (x \o y) \o w = x \o ((<<>> \o y) \o w)
  BY <1>9
<1>11. x = cmds[executing] /\ x \in CmdSeq
  BY <1>7, <1>8 DEF x, PartsOK
<1> QED BY <1>9, <1>10, <1>11

LEMMA PrefixOfConcat ==
  ASSUME NEW s \in Seq(Int), NEW t \in Seq(Int)
  PROVE  IsPrefix(s, s \o t)
<1> DEFINE u == s \o t
<1>1. /\ u \in Seq(Int) /\ Len(u) = Len(s) + Len(t) /\ Len(s) \in Nat /\ Len(t) \in Nat
      /\ \A i \in 1 .. Len(s) : u[i] = s[i]
  BY ConcatFacts
<1> HIDE DEF u
<1>2. SubSeq(s, 1, Len(s)) = s
  OBVIOUS
<1>3. SubSeq(u, 1, Len(s)) = s
  <2>1. SubSeq(u, 1, Len(s)) = [i \in 1 .. Len(s) |-> u[i]]
    BY <1>1
  <2>2. s = [i \in 1 .. Len(s) |-> s[i]]
    OBVIOUS
  <2> QED BY <1>1, <2>1, <2>2
<1>4. Len(s) <= Len(u)
  BY <1>1
<1>5. IsPrefix(s, u)
  BY <1>2, <1>3, <1>4 DEF IsPrefix
<1> QED BY <1>5 DEF u

LEMMA ReverseConcat ==
  ASSUME NEW s \in Seq(Int), NEW t \in Seq(Int)
  PROVE  /\ Reverse(t \o s) = Reverse(s) \o Reverse(t)
         /\ Reverse(s) \in Seq(Int)
<1>1. ASSUME NEW r \in Seq(Int)
      PROVE  /\ Reverse(r) \in Seq(Int) /\ Len(Reverse(r)) = Len(r)
             /\ \A i \in 1 .. Len(r) : Reverse(r)[i] = r[(Len(r) - i) + 1]
  <2>1. Len(r) \in Nat /\ \A i \in 1 .. Len(r) : (Len(r) - i) + 1 \in 1 .. Len(r)
    OBVIOUS
  <2>2. Reverse(r) \in [1 .. Len(r) -> Int]
    BY <2>1 DEF Reverse
  <2>3. Reverse(r) \in Seq(Int) /\ Len(Reverse(r)) = Len(r)
    <3>1. ASSUME NEW n \in Nat, NEW f \in [1 .. n -> Int] PROVE f \in Seq(Int) /\ Len(f) = n
      OBVIOUS
    <3> DEFINE k == Len(r)
               f == Reverse(r)
    <3>2. k \in Nat /\ f \in [1 .. k -> Int]
      BY <2>1, <2>2
    <3> HIDE DEF k, f
    <3>3. f \in Seq(Int) /\ Len(f) = k
      BY <3>1, <3>2
    <3> QED BY <3>3 DEF f, k
  <2> QED BY <2>3 DEF Reverse
<1> DEFINE u == t \o s
           a == Reverse(s)
           b == Reverse(t)
           v == Reverse(u)
<1>2. /\ u \in Seq(Int) /\ Len(u) = Len(t) + Len(s) /\ Len(s) \in Nat /\ Len(t) \in Nat
      /\ \A i \in 1 .. Len(t) : u[i] = t[i]
      /\ \A i \in 1 .. Len(s) : u[Len(t) + i] = s[i]
  BY ConcatFacts
<1> HIDE DEF u
<1>3. /\ a \in Seq(Int) /\ Len(a) = Len(s) /\ \A i \in 1 .. Len(s) : a[i] = s[(Len(s) - i) + 1]
      /\ b \in Seq(Int) /\ Len(b) = Len(t) /\ \A i \in 1 .. Len(t) : b[i] = t[(Len(t) - i) + 1]
      /\ v \in Seq(Int) /\ Len(v) = Len(u) /\ \A i \in 1 .. Len(u) : v[i] = u[(Len(u) - i) + 1]
  BY <1>1, <1>2
<1> HIDE DEF a, b, v
<1>4. /\ a \o b \in Seq(Int) /\ Len(a \o b) = Len(s) + Len(t)
      /\ \A i \in 1 .. Len(s) : (a \o b)[i] = a[i]
      /\ \A i \in 1 .. Len(t) : (a \o b)[Len(s) + i] = b[i]
  <2>1. /\ a \o b \in Seq(Int) /\ Len(a \o b) = Len(a) + Len(b)
        /\ \A i \in 1 .. Len(a) : (a \o b)[i] = a[i]
        /\ \A i \in 1 .. Len(b) : (a \o b)[Len(a) + i] = b[i]
    <3>1. a \in Seq(Int) /\ b \in Seq(Int)
      BY <1>3
    <3> QED BY ONLY <3>1, ConcatFacts
  <2>2. Len(a) = Len(s) /\ Len(b) = Len(t)
    BY <1>3
  <2> QED BY <2>1, <2>2
<1> DEFINE m == Len(s)
           n == Len(t)
<1>5. ASSUME NEW i \in 1 .. Len(u) PROVE v[i] = (a \o b)[i]
  <2>1. CASE i <= m
    <3>1. i \in 1 .. m /\ (m - i) + 1 \in 1 .. m /\ (Len(u) - i) + 1 = n + ((m - i) + 1)
      BY <1>2, <2>1
    <3>2. v[i] = s[(m - i) + 1]
      BY <1>2, <1>3, <3>1
    <3> QED BY <1>3, <1>4, <3>1, <3>2
  <2>2. CASE ~(i <= m)
    <3> DEFINE j == i - m
    <3>1. j \in 1 .. n /\ i = m + j /\ (n - j) + 1 \in 1 .. n /\ (Len(u) - i) + 1 = (n - j) + 1
      BY <1>2, <2>2
    <3> HIDE DEF j
    <3>2. v[i] = t[(n - j) + 1]
      BY <1>2, <1>3, <3>1
    <3>3. (a \o b)[i] = t[(n - j) + 1]
      BY <1>3, <1>4, <3>1
    <3> QED BY <3>2, <3>3
  <2> QED BY <2>1, <2>2
<1>6. Len(v) = Len(a \o b)
  BY <1>2, <1>3, <1>4
<1>7. v = a \o b
  BY <1>3, <1>4, <1>5, <1>6, SeqEqual
<1> QED BY <1>3, <1>7 DEF u, v, a, b

LEMMA SuffixOfConcat ==
  ASSUME NEW s \in Seq(Int), NEW t \in Seq(Int)
  PROVE  IsSuffix(s, t \o s)
<1> DEFINE a == Reverse(s)
           b == Reverse(t)
<1>1. Reverse(t \o s) = a \o b /\ a \in Seq(Int) /\ b \in Seq(Int)
  BY ReverseConcat
<1> HIDE DEF a, b
<1>2. IsPrefix(a, a \o b)
  BY <1>1, PrefixOfConcat
<1> QED BY <1>1, <1>2 DEF IsSuffix, a

LEMMA PipeStep ==
  ASSUME IInv, OrderInv, SingleInv, ListInv, [Next]_vars
  PROVE  \/ UNCHANGED <<Pipe, recorded>>
         \/ EmitCs /\ ~Full(csChunk) /\ UNCHANGED recorded /\ Pipe' = Append(Pipe, Emitted)
         \/ /\ ExecuteCommandList /\ todo' = todo /\ UNCHANGED recorded
            /\ \E x \in Chunks : Pipe' = Pipe \o cmds[x]
         \/ ExecuteAll /\ Pipe = cmds[executing] \o Pipe' /\ cmds[executing] \in CmdSeq
<1>1. IInv' /\ ChunkInv
  BY InvStep DEF IInv
<1>2. ASSUME ~ExecuteAll PROVE UNCHANGED recorded
  BY <1>2 DEF Next, AppStep, DeferStep, CsStep, vars, csVars, Call, AllocCsChunk, EmitCs,
         DispatchCsChunk, FlushCsChunk, DeviceFlush, SetBusy, Synchronize, ExecuteCommandList,
         Stop, ReleaseCommandList, DeferEmit, FinishCommandList, EmitToCommandList, CsLock,
         CsWake, Terminated
<1>3. CASE UNCHANGED <<csPc, executing, chunksQueued, csChunk, cmds>>
  BY <1>3, PipeSame, <1>2 DEF ExecuteAll, NextTurn
<1>4. CASE EmitCs \/ FlushCsChunk
  <2>1. UNCHANGED recorded
    BY <1>2, <1>4 DEF ExecuteAll, EmitCs, FlushCsChunk, DispatchCsChunk, csVars
  <2>2. CASE \E r \in {todo, Tail(todo)} : DispatchCsChunk(r)
    <3>1. csChunk # NoChunk
      BY <1>1, <1>4 DEF ChunkInv, HasChunk, EmitCs, FlushCsChunk
    <3> QED BY <1>1, <2>1, <2>2, <3>1, DispatchPipe
  <2>3. CASE EmitCs /\ ~Full(csChunk)
    BY <1>1, <2>1, <2>3, EmitPipe
  <2>4. CASE FlushCsChunk /\ cmds[csChunk] = <<>>
    <3>1. UNCHANGED <<csPc, executing, chunksQueued, csChunk, cmds>>
      BY <2>4 DEF FlushCsChunk, chunkVars, csVars
    <3> QED BY <2>1, <3>1, PipeSame
  <2> QED BY <1>4, <2>2, <2>3, <2>4 DEF EmitCs, FlushCsChunk
<1>5. CASE AllocCsChunk
  BY <1>5, AllocPipe DEF AllocCsChunk, csVars
<1>6. CASE ExecuteCommandList
  BY <1>1, <1>6, ListPipe DEF ExecuteCommandList, csVars
<1>7. CASE ReleaseCommandList
  BY <1>1, <1>7, ReleasePipe DEF ReleaseCommandList, csVars
<1>8. CASE DeferEmit
  BY <1>1, <1>8, DeferEmitPipe DEF DeferEmit, csVars
<1>9. CASE CsLock \/ CsWake
  BY <1>1, <1>9, TakePipe DEF CsLock, CsWake
<1>10. CASE ExecuteAll
  BY <1>1, <1>10, ExecutePipe
<1>11. CASE UNCHANGED vars \/ Call \/ DeviceFlush \/ SetBusy \/ Synchronize \/ Stop \/ Terminated
            \/ FinishCommandList \/ EmitToCommandList
  <2>1. UNCHANGED <<csPc, executing, chunksQueued, csChunk, cmds>>
    BY <1>11 DEF Call, DeviceFlush, SetBusy, Synchronize, Stop, Terminated, vars, chunkVars,
           csVars, FinishCommandList, EmitToCommandList
  <2> QED BY <1>3, <2>1
<1> QED BY <1>4, <1>5, <1>6, <1>7, <1>8, <1>9, <1>10, <1>11 DEF Next, AppStep, DeferStep, CsStep

LEMMA InitOrders == Init => OrderInv /\ SingleInv /\ ListInv /\ Pipe = <<>>
<1> SUFFICES ASSUME Init PROVE OrderInv /\ SingleInv /\ ListInv /\ Pipe = <<>>
  OBVIOUS
<1>1. /\ todo = <<>> /\ deferList = <<>> /\ cmdList = <<>> /\ chunksQueued = <<>> /\ ~spent
      /\ csPc = "lock" /\ cmds = [c \in Chunks |-> <<>>] /\ csChunk \in Chunks
      /\ ~singleUse => deferChunk \notin single
  BY DEF Init
<1>2. Range(<<>>) = {}
  BY DEF Range
<1>3. OrderInv /\ ListInv
  BY <1>1, <1>2 DEF OrderInv, ListInv, Behind
<1>4. ListLeft = <<>>
  BY <1>1, <1>2 DEF ListLeft
<1>5. \A c : Runs(c) = 0
  BY <1>1, <1>4, OccEmpty DEF Runs
<1>6. SingleInv
  BY <1>1, <1>2, <1>5 DEF SingleInv
<1>7. Pipe = <<>>
  <2>1. Queued = <<>>
    BY <1>1, ContentsEmpty DEF Queued
  <2>2. Running = <<>> /\ Content(csChunk) = <<>>
    BY <1>1, StreamAssumption DEF Running, Content
  <2>3. Pipe = Running \o (Queued \o Content(csChunk))
    BY DEF Pipe, Waiting, Commands, Queued, Contents
  <2> QED BY <2>1, <2>2, <2>3
<1> QED BY <1>3, <1>6, <1>7

Orders == OrderInv /\ SingleInv /\ ListInv

LEMMA OrdersKept == IInv /\ Orders /\ [Next]_vars => Orders'
  BY OrderStep, SingleStep, ListStep DEF Orders

(* Asked in its three parts: a flush, a list, and a command of the call's own. *)
AskedFlush == IF "emitFlush" \in Range(todo) THEN <<Flush>> ELSE <<>>
AskedList  == IF "list" \in Range(todo) THEN Contents(cmds, ListLeft) ELSE <<>>
AskedEmit  == IF "emit" \in Range(todo) THEN <<Fresh>> ELSE <<>>
AskedOK ==
    /\ AskedFlush \in Seq(Int) /\ AskedList \in Seq(Int) /\ AskedEmit \in Seq(Int)
    /\ Asked = (AskedFlush \o AskedList) \o AskedEmit /\ Asked \in Seq(Int)
    /\ Waiting \in Seq(Int) /\ Running \in Seq(Int) /\ Pipe = Running \o Waiting
    /\ \A c \in Chunks : cmds[c] \in Seq(Int)

LEMMA AskedTyped == (IInv => AskedOK) /\ (IInv' => AskedOK')
<1>1. ASSUME IInv PROVE AskedOK
  <2>1. /\ cmds \in [Chunks -> CmdSeq] /\ CmdSeq \subseteq Seq(Int) /\ PartsOK /\ LeftOK
    BY <1>1, PipeTyped, LeftTyped, StreamAssumption
       DEF IInv, ChunkInv, ChunkTypes, CmdSeq
  <2>2. AskedFlush \in Seq(Int) /\ AskedEmit \in Seq(Int)
    BY DEF AskedFlush, AskedEmit, Flush, Fresh
  <2>3. AskedList \in Seq(Int)
    <3>1. Contents(cmds, ListLeft) \in CmdSeq
      BY <2>1, ContentsOf DEF LeftOK, CmdSeq
    <3> QED BY <2>1, <3>1 DEF AskedList
  <2>4. Asked = (AskedFlush \o AskedList) \o AskedEmit
    BY DEF Asked, AskedFlush, AskedList, AskedEmit, Commands, Contents, ListLeft
  <2>5. Running \in Seq(Int) /\ Waiting \in Seq(Int) /\ Pipe = Running \o Waiting
    <3> DEFINE a == Queued
               b == Content(csChunk)
    <3>1. a \in Seq(Int) /\ b \in Seq(Int) /\ Waiting = a \o b
      BY <2>1 DEF PartsOK, Waiting, Commands, Queued, Contents
    <3> HIDE DEF a, b
    <3>2. a \o b \in Seq(Int)
      BY <3>1
    <3> QED BY <2>1, <3>1, <3>2 DEF PartsOK, Pipe
  <2>6. \A c \in Chunks : cmds[c] \in Seq(Int)
    BY <2>1
  <2> DEFINE f == AskedFlush
             l == AskedList
             e == AskedEmit
  <2>7. (f \o l) \o e \in Seq(Int)
    <3>1. f \in Seq(Int) /\ l \in Seq(Int) /\ e \in Seq(Int)
      BY <2>2, <2>3
    <3> HIDE DEF f, l, e
    <3> QED BY <3>1
  <2> QED BY <2>2, <2>3, <2>4, <2>5, <2>6, <2>7 DEF AskedOK
<1> QED BY <1>1, PTL

LEMMA CancelLeft ==
  ASSUME NEW a \in Seq(Int), NEW b \in Seq(Int), NEW c \in Seq(Int), a \o b = a \o c
  PROVE  b = c
<1> DEFINE u == a \o b
           v == a \o c
<1>1. /\ Len(u) = Len(a) + Len(b) /\ \A i \in 1 .. Len(b) : u[Len(a) + i] = b[i]
      /\ Len(v) = Len(a) + Len(c) /\ \A i \in 1 .. Len(c) : v[Len(a) + i] = c[i]
      /\ Len(a) \in Nat /\ Len(b) \in Nat /\ Len(c) \in Nat
  BY ConcatFacts
<1>2. u = v
  OBVIOUS
<1> HIDE DEF u, v
<1>3. Len(b) = Len(c) /\ \A i \in 1 .. Len(b) : b[i] = c[i]
  BY <1>1, <1>2
<1> QED BY <1>3, SeqEqual

LEMMA Associates ==
  ASSUME NEW a, NEW b, NEW c, a \in Seq(Int) /\ b \in Seq(Int) /\ c \in Seq(Int)
  PROVE  (a \o b) \o c = a \o (b \o c)
  BY ConcatAssociative

LEMMA CancelTwo ==
  ASSUME NEW r \in Seq(Int), NEW w \in Seq(Int), NEW t \in Seq(Int), NEW v \in Seq(Int),
         NEW x, x = w \o t, r \o v = (r \o w) \o t
  PROVE  v = x
<1>0. r \in Seq(Int) /\ w \in Seq(Int) /\ t \in Seq(Int)
  OBVIOUS
<1>1. (r \o w) \o t = r \o (w \o t)
  BY ONLY <1>0, Associates
<1>2. x \in Seq(Int) /\ r \o v = r \o x
  BY <1>1
<1> QED BY <1>2, CancelLeft

(* What is left of a sequence whose front is taken. *)
LEMMA BehindFront ==
  ASSUME NEW s \in Seq(Int), NEW b \in Seq(Int), NEW a, a = s \o b
  PROVE  Len(s) \in 0 .. Len(a) /\ b = SubSeq(a, Len(s) + 1, Len(a))
<1> DEFINE n == Len(s)
<1>1. /\ Len(a) = n + Len(b) /\ n \in Nat /\ Len(b) \in Nat /\ a \in Seq(Int)
      /\ \A i \in 1 .. Len(b) : a[n + i] = b[i]
  BY ConcatFacts
<1> DEFINE u == SubSeq(a, n + 1, Len(a))
<1> HIDE DEF n
<1>2. n + 1 \in Int /\ Len(a) \in Int /\ \A i \in n + 1 .. Len(a) : a[i] \in Int
  BY <1>1
<1>3. /\ u \in Seq(Int)
      /\ Len(u) = IF n + 1 <= Len(a) THEN Len(a) - (n + 1) + 1 ELSE 0
      /\ \A i \in 1 .. Len(a) - (n + 1) + 1 : u[i] = a[n + 1 + i - 1]
  BY <1>1, <1>2
<1>4. Len(u) = Len(b)
  BY <1>1, <1>3
<1>5. ASSUME NEW i \in 1 .. Len(b) PROVE u[i] = b[i]
  <2>1. i \in 1 .. Len(a) - (n + 1) + 1 /\ n + 1 + i - 1 = n + i
    BY <1>1
  <2> QED BY <1>1, <1>3, <2>1
<1>6. b = u
  BY <1>3, <1>4, <1>5, SeqEqual
<1> QED BY <1>1, <1>6 DEF n

(* The commands of the list that a call executes are nobody else's to empty. *)
LEMMA AskedListSame ==
  ASSUME IInv, Orders, [Next]_vars, ~Call, ~ExecuteCommandList
  PROVE  AskedList' = AskedList
<1>1. IInv' /\ OrderInv /\ SingleInv /\ ("list" \in Range(todo') <=> "list" \in Range(todo))
  BY InvStep, ListSteps DEF Orders
<1>2. CASE "list" \notin Range(todo)
  BY <1>1, <1>2 DEF AskedList
<1>3. CASE "list" \in Range(todo)
  <2>1. hasList /\ todo # <<>>
    BY <1>3 DEF IInv, TodoInv, ListKept, Range
  <2>2. UNCHANGED <<cmdList, nextChunk>>
    BY <2>1 DEF Next, AppStep, DeferStep, CsStep, vars, listVars, AllocCsChunk, EmitCs,
           DispatchCsChunk, FlushCsChunk, DeviceFlush, SetBusy, Synchronize, Stop,
           ReleaseCommandList, DeferEmit, FinishCommandList, EmitToCommandList, CsLock,
           CsWake, ExecuteAll, Terminated
  <2>3. ListLeft' = ListLeft /\ LeftOK
    BY <1>1, <1>3, <2>2, LeftTyped DEF ListLeft
  <2>4. ASSUME NEW c \in Range(ListLeft) PROVE cmds'[c] = cmds[c]
    <3>1. c \in Chunks /\ c \in Shared /\ c \in Shared'
      BY <2>2, <2>3, SeqRange DEF LeftOK, Shared
    <3>2. cmds \in [Chunks -> CmdSeq]
      BY DEF IInv, ChunkInv, ChunkTypes, CmdSeq
    <3>3. CASE EmitCs /\ cmds' # cmds
      <4>1. cmds' = [cmds EXCEPT ![csChunk] = Append(@, Emitted)] /\ csChunk \in Chunks
        BY <3>3, StreamAssumption
           DEF EmitCs, DispatchCsChunk, chunkVars, Emitted, IInv, ChunkInv, ChunkTypes, HasChunk
      <4>2. csChunk # c
        BY <3>1, <4>1, StreamAssumption DEF IInv, ChunkInv, Private
      <4> QED BY <3>1, <3>2, <4>1, <4>2
    <3>4. CASE DeferEmit
      <4>1. cmds' = [cmds EXCEPT ![deferChunk'] = Append(@, numCmds')]
        BY <3>4 DEF DeferEmit
      <4>2. deferChunk' # c
        BY <1>1, <3>1 DEF IInv, ChunkInv, Private
      <4> QED BY <3>1, <3>2, <4>1, <4>2
    <3>5. CASE CsLock
      <4>1. (\E s : Release(s)) \/ cmds' = cmds
        BY <3>5 DEF CsLock
      <4> QED BY <1>1, <3>1, <4>1, ReleaseSame
    <3>6. CASE ExecuteAll
      <4>1. cmds' = IF executing \in single THEN [cmds EXCEPT ![executing] = <<>>] ELSE cmds
        BY <3>6 DEF ExecuteAll
      <4>2. ASSUME executing \in single, c = executing PROVE FALSE
        <5>1. Runs(c) <= 1 /\ Executes(c) = 1
          BY <1>1, <3>6, <4>2 DEF SingleInv, Executes, One, ExecuteAll
        <5>2. /\ Occurrences(c, chunksQueued) \in Nat /\ Occurrences(c, deferList) \in Nat
              /\ Occurrences(c, ListLeft) \in Nat
              /\ Runs(c) = Executes(c) + Occurrences(c, chunksQueued)
                           + Occurrences(c, deferList) + Occurrences(c, ListLeft)
          BY RunsFacts
        <5> DEFINE q == Occurrences(c, chunksQueued)
                   d == Occurrences(c, deferList)
                   l == Occurrences(c, ListLeft)
        <5>3. q \in Nat /\ d \in Nat /\ l \in Nat /\ 1 + q + d + l <= 1 /\ (l = 0 <=> c \notin Range(ListLeft))
          BY <2>3, <5>1, <5>2, OccType DEF LeftOK
        <5> HIDE DEF q, d, l
        <5>4. l = 0
          BY <5>3
        <5> QED BY <5>3, <5>4
      <4> QED BY <3>1, <3>2, <4>1, <4>2
    <3>7. cmds' = cmds \/ EmitCs \/ DeferEmit \/ CsLock \/ ExecuteAll
      BY <2>1 DEF Next, AppStep, DeferStep, CsStep, vars, chunkVars, AllocCsChunk, FlushCsChunk,
             DispatchCsChunk, DeviceFlush, SetBusy, Synchronize, Stop, ReleaseCommandList,
             FinishCommandList, EmitToCommandList, CsWake, Terminated
    <3> QED BY <3>3, <3>4, <3>5, <3>6, <3>7
  <2>5. Contents(cmds', ListLeft) = Contents(cmds, ListLeft)
    BY <2>3, <2>4, ContentsSame DEF LeftOK
  <2> QED BY <1>1, <1>3, <2>3, <2>5 DEF AskedList
<1> QED BY <1>2, <1>3

(* What a step takes from the commands that are asked for, or puts before them. *)
LEMMA AskedEmits ==
  ASSUME IInv, Orders, [Next]_vars, EmitCs, ~Full(csChunk)
  PROVE  \E x \in {Fresh, Emitted} : Asked = <<x>> \o Asked'
<1>1. AskedOK /\ AskedOK' /\ TodoSets
  BY InvStep, AskedTyped, TodoChange DEF Orders, OrderInv
<1> DEFINE R == Range(todo)
           F == Range(Tail(todo))
           h == Head(todo)
           N == Range(todo')
<1>2. N = F /\ R = F \cup {h} /\ F \subseteq After(h) /\ h \in {"emit", "emitFlush"}
  BY <1>1 DEF EmitCs, TodoSets
<1>3. ~Call /\ ~ExecuteCommandList
  BY DEF EmitCs, Call, ExecuteCommandList
<1>4. AskedList' = AskedList
  BY <1>3, AskedListSame
<1>5. CASE h = "emit"
  <2>1. /\ "emitFlush" \notin R /\ "list" \notin R /\ "emit" \in R
        /\ "emitFlush" \notin N /\ "list" \notin N /\ "emit" \notin N
    <3> HIDE DEF R, F, h, N
    <3> QED BY <1>2, <1>5 DEF After
  <2>2. AskedFlush = <<>> /\ AskedList = <<>> /\ AskedEmit = <<Fresh>>
    BY <2>1 DEF AskedFlush, AskedList, AskedEmit
  <2>3. AskedFlush' = <<>> /\ AskedList' = <<>> /\ AskedEmit' = <<>>
    BY <2>1 DEF AskedFlush, AskedList, AskedEmit
  <2>4. Asked = (<<>> \o <<>>) \o <<Fresh>> /\ Asked' = (<<>> \o <<>>) \o <<>>
    BY <1>1, <2>2, <2>3 DEF AskedOK
  <2>5. Asked = <<Fresh>> \o Asked'
    BY <2>4
  <2> QED BY <2>5
<1>6. CASE h = "emitFlush"
  <2>1. "emitFlush" \in R /\ "emitFlush" \notin N /\ ("emit" \in N <=> "emit" \in R)
    <3> HIDE DEF R, F, h, N
    <3> QED BY <1>2, <1>6 DEF After
  <2>2. AskedFlush = <<Flush>> /\ AskedFlush' = <<>> /\ AskedEmit' = AskedEmit
    BY <2>1 DEF AskedFlush, AskedEmit
  <2> DEFINE l == AskedList
             e == AskedEmit
  <2>3. l \in Seq(Int) /\ e \in Seq(Int)
        /\ Asked = (<<Flush>> \o l) \o e /\ Asked' = (<<>> \o l) \o e
    BY <1>1, <1>4, <2>2 DEF AskedOK
  <2> HIDE DEF l, e
  <2>4. (<<Flush>> \o l) \o e = <<Flush>> \o ((<<>> \o l) \o e)
    BY <2>3 DEF Flush
  <2>5. Emitted = Flush
    BY <1>6 DEF Emitted
  <2> QED BY <2>3, <2>4, <2>5
<1> QED BY <1>2, <1>5, <1>6

LEMMA AskedExecutes ==
  ASSUME IInv, Orders, [Next]_vars, ExecuteCommandList
  PROVE  /\ nextChunk > Len(cmdList) => Asked' = Asked
         /\ nextChunk <= Len(cmdList) => Asked = cmds[cmdList[nextChunk]] \o Asked'
<1>1. AskedOK /\ AskedOK' /\ TodoSets
  BY InvStep, AskedTyped, TodoChange DEF Orders, OrderInv
<1> DEFINE R == Range(todo)
           F == Range(Tail(todo))
           h == Head(todo)
           N == Range(todo')
<1>2. /\ R = F \cup {h} /\ F \subseteq After(h) /\ h = "list"
      /\ UNCHANGED <<cmdList, cmds>> /\ cmdList \in Seq(Chunks)
      /\ nextChunk \in 1 .. Len(cmdList) + 1 /\ cmds \in [Chunks -> CmdSeq]
  BY <1>1 DEF ExecuteCommandList, TodoSets, IInv, TodoInv, ListKept, ChunkInv, ChunkTypes, CmdSeq
<1>3. /\ "list" \in R /\ "emitFlush" \notin R /\ "list" \notin F /\ "emitFlush" \notin F
      /\ ("emit" \in R <=> "emit" \in F)
  <2> HIDE DEF R, F, h, N
  <2> QED BY <1>2 DEF After
<1>4. AskedFlush = <<>> /\ AskedList = Contents(cmds, SubSeq(cmdList, nextChunk, Len(cmdList)))
  BY <1>3 DEF AskedFlush, AskedList, ListLeft
<1>5. ASSUME nextChunk > Len(cmdList) PROVE Asked' = Asked
  <2>1. todo' = Tail(todo)
    BY <1>2, <1>5 DEF ExecuteCommandList
  <2>2. AskedFlush' = <<>> /\ AskedList' = <<>> /\ AskedEmit' = AskedEmit
    BY <1>3, <2>1 DEF AskedFlush, AskedList, AskedEmit
  <2>3. AskedList = <<>>
    BY <1>2, <1>4, <1>5, SubSeqFacts, ContentsEmpty
  <2> QED BY <1>1, <1>4, <2>2, <2>3 DEF AskedOK
<1>6. ASSUME nextChunk <= Len(cmdList) PROVE Asked = cmds[cmdList[nextChunk]] \o Asked'
  <2>1. todo' = todo /\ nextChunk' = nextChunk + 1
    BY <1>6 DEF ExecuteCommandList
  <2>2. AskedFlush' = <<>> /\ AskedEmit' = AskedEmit
    BY <1>3, <2>1 DEF AskedFlush, AskedEmit
  <2>3. AskedList' = Contents(cmds, SubSeq(cmdList, nextChunk + 1, Len(cmdList)))
    BY <1>2, <1>3, <2>1 DEF AskedList, ListLeft
  <2> DEFINE q == SubSeq(cmdList, nextChunk, Len(cmdList))
  <2>4. /\ q \in Seq(Chunks) /\ q # <<>> /\ Head(q) = cmdList[nextChunk]
        /\ Tail(q) = SubSeq(cmdList, nextChunk + 1, Len(cmdList))
    BY <1>2, <1>6, SubSeqFacts
  <2> HIDE DEF q
  <2>5. Contents(cmds, q) = cmds[Head(q)] \o Contents(cmds, Tail(q)) /\ Head(q) \in Chunks
    BY <1>2, <2>4, ContentsPop DEF CmdSeq
  <2> DEFINE t == cmds[cmdList[nextChunk]]
             l == AskedList'
             e == AskedEmit
  <2>6. /\ t \in Seq(Int) /\ l \in Seq(Int) /\ e \in Seq(Int)
        /\ Asked = (<<>> \o (t \o l)) \o e /\ Asked' = (<<>> \o l) \o e
    BY <1>1, <1>4, <2>2, <2>3, <2>4, <2>5 DEF AskedOK, q
  <2> HIDE DEF t, l, e
  <2>7. (<<>> \o (t \o l)) \o e = t \o ((<<>> \o l) \o e)
    <3>1. <<>> \o (t \o l) = t \o l /\ <<>> \o l = l
      BY <2>6
    <3>2. (t \o l) \o e = t \o (l \o e)
      BY <2>6, ConcatAssociative
    <3> QED BY <3>1, <3>2
  <2> QED BY <2>6, <2>7 DEF t
<1> QED BY <1>5, <1>6

LEMMA AskedElsewhere ==
  ASSUME IInv, Orders, [Next]_vars, ~Call, ~ExecuteCommandList, ~(EmitCs /\ ~Full(csChunk))
  PROVE  Asked' = Asked \/ (DeviceFlush /\ Asked' = <<Flush>> \o Asked)
<1>1. AskedOK /\ AskedOK' /\ TodoSets
  BY InvStep, AskedTyped, TodoChange DEF Orders, OrderInv
<1>2. AskedList' = AskedList
  BY AskedListSame
<1> DEFINE R == Range(todo)
           F == Range(Tail(todo))
           h == Head(todo)
           N == Range(todo')
<1>3. Popped => h \notin {"emit", "emitFlush"}
  <2>1. ASSUME Popped, EmitCs PROVE FALSE
    <3>1. DispatchCsChunk(todo) /\ todo \in Seq(StepNames)
      BY <2>1 DEF EmitCs, IInv, TodoInv, ProgramOK
    <3>2. Tail(todo) = <<"alloc">> \o todo /\ todo # <<>>
      BY <2>1, <3>1 DEF DispatchCsChunk, Popped
    <3>3. Len(Tail(todo)) = Len(todo) - 1 /\ Len(<<"alloc">> \o todo) = 1 + Len(todo) /\ Len(todo) \in Nat
      BY <3>1, <3>2
    <3> DEFINE n == Len(todo)
    <3>4. n \in Nat /\ n - 1 = 1 + n
      BY <3>2, <3>3
    <3> HIDE DEF n
    <3> QED BY <3>4
  <2> QED BY <2>1, PoppedBy DEF AllocCsChunk, FlushCsChunk, DeviceFlush, SetBusy, Synchronize, Stop
<1>4. CASE ("emitFlush" \in N <=> "emitFlush" \in R) /\ ("emit" \in N <=> "emit" \in R)
  <2>1. AskedFlush' = AskedFlush /\ AskedEmit' = AskedEmit
    BY <1>4 DEF AskedFlush, AskedEmit
  <2> QED BY <1>1, <1>2, <2>1 DEF AskedOK
<1>5. CASE todo # <<>> /\ h \in {"flush", "maybeFlush"} /\ N = F \cup {"emitFlush", "dispatch", "notBusy"}
           /\ ~(("emitFlush" \in N <=> "emitFlush" \in R) /\ ("emit" \in N <=> "emit" \in R))
  <2>1. R = F \cup {h} /\ F \subseteq After(h)
    BY <1>1, <1>5 DEF TodoSets
  <2>2. "emitFlush" \in N /\ "emitFlush" \notin R /\ ("emit" \in N <=> "emit" \in R)
    <3> HIDE DEF R, F, h, N
    <3> QED BY <1>5, <2>1 DEF After
  <2>3. AskedFlush' = <<Flush>> /\ AskedFlush = <<>> /\ AskedEmit' = AskedEmit
    BY <2>2 DEF AskedFlush, AskedEmit
  <2> DEFINE l == AskedList
             e == AskedEmit
  <2>4. l \in Seq(Int) /\ e \in Seq(Int)
        /\ Asked' = (<<Flush>> \o l) \o e /\ Asked = (<<>> \o l) \o e
    BY <1>1, <1>2, <2>3 DEF AskedOK
  <2> HIDE DEF l, e
  <2>5. (<<Flush>> \o l) \o e = <<Flush>> \o ((<<>> \o l) \o e)
    BY <2>4 DEF Flush
  <2>6. DeviceFlush
    <3>1. todo' # todo /\ ~ReleaseCommandList /\ ~DeferEmit /\ ~FinishCommandList
      BY <2>2 DEF ReleaseCommandList, DeferEmit, FinishCommandList
    <3>2. h \in {"flush", "maybeFlush"}
      BY <1>5
    <3> QED BY <3>1, <3>2, TodoFrame
         DEF AllocCsChunk, EmitCs, FlushCsChunk, SetBusy, Synchronize, ExecuteCommandList, Stop
  <2> QED BY <2>4, <2>5, <2>6
<1>6. \/ ("emitFlush" \in N <=> "emitFlush" \in R) /\ ("emit" \in N <=> "emit" \in R)
      \/ todo # <<>> /\ h \in {"flush", "maybeFlush"} /\ N = F \cup {"emitFlush", "dispatch", "notBusy"}
  <2>1. /\ todo # <<>> => R = F \cup {h}
        /\ \/ N = R
           \/ todo # <<>> /\ N = F /\ h \notin {"emit", "emitFlush"}
           \/ N = R \cup {"alloc"}
           \/ todo # <<>> /\ h = "dispatch" /\ N = F \cup {"alloc"}
           \/ todo # <<>> /\ h \in {"flush", "maybeFlush"}
                 /\ N = F \cup {"emitFlush", "dispatch", "notBusy"}
           \/ todo # <<>> /\ h = "sync" /\ N = F \cup {"wait"}
    BY <1>1, <1>3 DEF TodoSets, Popped
  <2> HIDE DEF R, F, h, N
  <2> QED BY <2>1
<1> QED BY <1>4, <1>5, <1>6

(* Only the dxvk-cs thread begins and ends the commands of a chunk. *)
LEMMA RunningKept ==
  ASSUME IInv, [Next]_vars, ~CsLock, ~CsWake, ~ExecuteAll
  PROVE  Running' = Running
<1>1. UNCHANGED <<csPc, executing>>
  BY DEF Next, AppStep, DeferStep, CsStep, vars, csVars, Call, AllocCsChunk, EmitCs,
         DispatchCsChunk, FlushCsChunk, DeviceFlush, SetBusy, Synchronize, ExecuteCommandList,
         Stop, ReleaseCommandList, DeferEmit, FinishCommandList, EmitToCommandList, Terminated
<1>2. CASE csPc # "exec"
  BY <1>1, <1>2 DEF Running
<1>3. CASE csPc = "exec"
  <2>1. executing \in Chunks /\ executing # NoChunk /\ cmds \in [Chunks -> CmdSeq]
    BY <1>3, StreamAssumption DEF IInv, ChunkInv, ChunkTypes, ExecutingOK, CmdSeq
  <2>2. executing \in Shared /\ executing \in Shared' /\ IInv'
    BY <1>1, InvStep DEF Shared
  <2>3. cmds'[executing] = cmds[executing]
    <3>1. CASE EmitCs /\ cmds' # cmds
      <4>1. cmds' = [cmds EXCEPT ![csChunk] = Append(@, Emitted)] /\ csChunk \in Chunks
        BY <3>1, StreamAssumption
           DEF EmitCs, DispatchCsChunk, chunkVars, Emitted, IInv, ChunkInv, ChunkTypes, HasChunk
      <4>2. csChunk # executing
        BY <2>2, <4>1, StreamAssumption DEF IInv, ChunkInv, Private
      <4> QED BY <2>1, <4>1, <4>2
    <3>2. CASE DeferEmit
      <4>1. cmds' = [cmds EXCEPT ![deferChunk'] = Append(@, numCmds')]
        BY <3>2 DEF DeferEmit
      <4>2. deferChunk' # executing
        BY <2>2 DEF IInv, ChunkInv, Private
      <4> QED BY <2>1, <4>1, <4>2
    <3>3. CASE ReleaseCommandList
      BY <2>1, <2>2, <3>3, ReleaseSame DEF ReleaseCommandList
    <3>4. cmds' = cmds \/ EmitCs \/ DeferEmit \/ ReleaseCommandList
      BY DEF Next, AppStep, DeferStep, CsStep, vars, chunkVars, Call, AllocCsChunk, FlushCsChunk,
             DispatchCsChunk, DeviceFlush, SetBusy, Synchronize, ExecuteCommandList, Stop,
             FinishCommandList, EmitToCommandList, Terminated
    <3> QED BY <3>1, <3>2, <3>3, <3>4
  <2> QED BY <1>1, <1>3, <2>1, <2>3 DEF Running, Content
<1> QED BY <1>2, <1>3

(* Commands that leave the calls enter the pipe. *)
LEMMA IssueOf ==
  ASSUME AskedOK, AskedOK', NEW s \in Seq(Int), NEW t \in Seq(Int), Len(s) = Len(t),
         \A i \in 1 .. Len(s) : s[i] # Fresh => t[i] = s[i],
         Asked = s \o Asked', Pipe' = Pipe \o t, Running' = Running
  PROVE  InOrder!Issue
<1> DEFINE a == Asked
           b == Asked'
           w == Waiting
           v == Waiting'
           n == Len(s)
<1>1. a \in Seq(Int) /\ b \in Seq(Int) /\ w \in Seq(Int) /\ v \in Seq(Int) /\ a = s \o b
  BY DEF AskedOK
<1>2. v = w \o t
  <2> DEFINE r == Running
  <2>1. r \in Seq(Int) /\ r \o v = (r \o w) \o t
    BY DEF AskedOK
  <2>2. r \in Seq(Int) /\ w \in Seq(Int) /\ t \in Seq(Int) /\ v \in Seq(Int)
    BY <1>1, <2>1
  <2> DEFINE x == w \o t
  <2>3. x = w \o t
    OBVIOUS
  <2> HIDE DEF r, v, w, x
  <2>4. v = x
    BY <2>1, <2>2, <2>3, CancelTwo
  <2> QED BY <2>3, <2>4
<1> HIDE DEF a, b, w, v
<1>3. n \in 0 .. Len(a) /\ b = SubSeq(a, n + 1, Len(a))
  BY <1>1, BehindFront
<1>4. Len(v) = Len(w) + n /\ \A i \in 1 .. n : v[Len(w) + i] = t[i]
  BY <1>1, <1>2, ConcatFacts
<1>5. IsPrefix(w, v)
  BY <1>1, <1>2, PrefixOfConcat
<1>6. \A i \in 1 .. n : a[i] # Fresh => v[Len(w) + i] = a[i]
  <2>1. \A i \in 1 .. n : a[i] = s[i]
    BY <1>1, ConcatFacts
  <2> QED BY <1>4, <2>1
<1> HIDE DEF n
<1>7. /\ n \in 0 .. Len(Asked) /\ Asked' = SubSeq(Asked, n + 1, Len(Asked))
      /\ IsPrefix(Waiting, Waiting') /\ Len(Waiting') = Len(Waiting) + n
      /\ \A i \in 1 .. n : Asked[i] # Fresh => Waiting'[Len(Waiting) + i] = Asked[i]
  BY <1>3, <1>4, <1>5, <1>6 DEF a, b, w, v
<1> QED BY <1>7 DEF InOrder!Issue, InOrder!IsPrefix, IsPrefix

LEMMA PipeRefines ==
  ASSUME IInv, Orders, [Next]_vars
  PROVE  [InOrder!Next]_(InOrder!vars)
<1>1. AskedOK /\ AskedOK' /\ IInv'
  BY InvStep, AskedTyped
<1>2. ASSUME Pipe' = Pipe, Running' = Running PROVE Waiting' = Waiting
  <2> DEFINE r == Running
             w == Waiting
             v == Waiting'
  <2>1. r \in Seq(Int) /\ w \in Seq(Int) /\ v \in Seq(Int) /\ r \o v = r \o w
    BY <1>1, <1>2 DEF AskedOK
  <2> HIDE DEF r, w, v
  <2>2. v = w
    BY <2>1, CancelLeft
  <2> QED BY <2>2 DEF w, v
<1>3. CASE EmitCs /\ ~Full(csChunk)
  <2>1. PICK x \in {Fresh, Emitted} : Asked = <<x>> \o Asked'
    BY <1>3, AskedEmits
  <2>2. Emitted \in Int /\ x \in Int
    BY DEF Emitted, Flush, Fresh, IInv, TodoInv, CommandsBounded
  <2>3. Pipe' = Pipe \o <<Emitted>>
    <3> DEFINE p == Pipe
               e == Emitted
    <3>1. p \in Seq(Int) /\ e \in Int /\ Pipe' = Append(p, e)
      <4>1. p \in CmdSeq
        BY PipeTyped DEF PartsOK
      <4> QED BY <1>1, <1>3, <2>2, <4>1, EmitPipe, StreamAssumption DEF CmdSeq
    <3> HIDE DEF p, e
    <3>2. Append(p, e) = p \o <<e>>
      BY <3>1, AppendIsConcat
    <3> QED BY <3>1, <3>2 DEF p, e
  <2>4. Running' = Running
    <3>1. ~CsLock /\ ~CsWake /\ ~ExecuteAll
      <4>1. todo' # todo
        <5>1. todo \in Seq(StepNames) /\ todo # <<>> /\ todo' = Tail(todo)
          BY <1>3 DEF EmitCs, IInv, TodoInv, ProgramOK
        <5> DEFINE n == Len(todo)
        <5>2. n \in Nat /\ Len(Tail(todo)) = n - 1
          BY <5>1, HeadTailProperties
        <5> HIDE DEF n
        <5>3. n - 1 # n
          BY <5>2
        <5> QED BY <5>1, <5>2, <5>3 DEF n
      <4> QED BY <4>1 DEF CsLock, CsWake, ExecuteAll
    <3> QED BY <3>1, RunningKept
  <2>5. InOrder!Issue
    <3>1. <<x>> \in Seq(Int) /\ <<Emitted>> \in Seq(Int) /\ Len(<<x>>) = 1 /\ Len(<<Emitted>>) = 1
      BY <2>2
    <3>2. \A i \in 1 .. 1 : <<x>>[i] # Fresh => <<Emitted>>[i] = <<x>>[i]
      OBVIOUS
    <3> QED BY <1>1, <2>1, <2>3, <2>4, <3>1, <3>2, IssueOf
  <2> QED BY <2>5 DEF InOrder!Next
<1>4. CASE ExecuteCommandList
  <2>1. ~CsLock /\ ~CsWake /\ ~ExecuteAll
    BY <1>4 DEF ExecuteCommandList, csVars, CsLock, CsWake, ExecuteAll, TakeChunk, NextTurn
  <2>2. Running' = Running
    BY <2>1, RunningKept
  <2>3. /\ nextChunk > Len(cmdList) => Pipe' = Pipe
        /\ nextChunk <= Len(cmdList) => /\ cmdList[nextChunk] \in Chunks
                                        /\ Pipe' = Pipe \o cmds[cmdList[nextChunk]]
    <3>1. nextChunk \in 1 .. Len(cmdList) + 1 /\ Len(cmdList) \in Nat
      BY DEF IInv, TodoInv, ListKept
    <3>2. \/ nextChunk > Len(cmdList) /\ Pipe' = Pipe
          \/ /\ nextChunk <= Len(cmdList) /\ cmdList[nextChunk] \in Chunks
             /\ Pipe' = Pipe \o cmds[cmdList[nextChunk]]
      BY <1>1, <1>4, ListPipe DEF Orders
    <3> DEFINE n == Len(cmdList)
    <3>3. n \in Nat /\ nextChunk \in Int
      BY <3>1
    <3>4. ~(nextChunk > n /\ nextChunk <= n)
      <4> HIDE DEF n
      <4> QED BY <3>3
    <3> HIDE DEF n
    <3> QED BY <3>2, <3>4 DEF n
  <2>4. /\ nextChunk > Len(cmdList) => Asked' = Asked
        /\ nextChunk <= Len(cmdList) => Asked = cmds[cmdList[nextChunk]] \o Asked'
    BY <1>4, AskedExecutes
  <2>5. CASE nextChunk > Len(cmdList)
    BY <1>2, <2>2, <2>3, <2>4, <2>5 DEF InOrder!vars
  <2>6. CASE nextChunk <= Len(cmdList)
    <3> DEFINE t == cmds[cmdList[nextChunk]]
    <3>1. t \in Seq(Int) /\ Asked = t \o Asked' /\ Pipe' = Pipe \o t
      BY <1>1, <2>3, <2>4, <2>6 DEF AskedOK
    <3> HIDE DEF t
    <3>2. InOrder!Issue
      BY <1>1, <2>2, <3>1, IssueOf
    <3> QED BY <3>2 DEF InOrder!Next
  <2>7. nextChunk > Len(cmdList) \/ nextChunk <= Len(cmdList)
    BY DEF IInv, TodoInv, ListKept
  <2> QED BY <2>5, <2>6, <2>7
<1>5. CASE Call
  <2>1. Asked = <<>>
    <3>1. todo = <<>>
      BY <1>5 DEF Call
    <3>2. AskedFlush = <<>> /\ AskedList = <<>> /\ AskedEmit = <<>>
      BY <3>1 DEF AskedFlush, AskedList, AskedEmit, Range
    <3> QED BY <1>1, <3>2 DEF AskedOK
  <2>2. UNCHANGED <<Pipe, Running>>
    BY <1>5 DEF Call, chunkVars, csVars, Pipe, Running, Waiting, Commands, Content
  <2>3. IsSuffix(Asked, Asked')
    <3> DEFINE b == Asked'
    <3>1. b \in Seq(Int)
      BY <1>1 DEF AskedOK
    <3> HIDE DEF b
    <3>2. b \o <<>> = b /\ <<>> \in Seq(Int)
      BY <3>1
    <3>3. IsSuffix(<<>>, b)
      BY <3>1, <3>2, SuffixOfConcat
    <3> QED BY <2>1, <3>3 DEF b
  <2> QED BY <1>2, <2>2, <2>3 DEF InOrder!Next, InOrder!Ask, InOrder!IsSuffix, IsSuffix,
             InOrder!IsPrefix, IsPrefix, InOrder!Reverse, Reverse
<1>6. CASE DeviceFlush
  <2>1. UNCHANGED <<Pipe, Running>>
    BY <1>6 DEF DeviceFlush, chunkVars, csVars, Pipe, Running, Waiting, Commands, Content
  <2>2. Asked' = Asked \/ Asked' = <<Flush>> \o Asked
    <3>1. ~Call /\ ~ExecuteCommandList /\ ~EmitCs
      BY <1>6 DEF DeviceFlush, Call, ExecuteCommandList, EmitCs
    <3> QED BY <3>1, AskedElsewhere
  <2>3. CASE Asked' = Asked
    BY <1>2, <2>1, <2>3 DEF InOrder!vars
  <2>4. CASE Asked' = <<Flush>> \o Asked
    <3> DEFINE a == Asked
    <3>1. a \in Seq(Int) /\ <<Flush>> \in Seq(Int)
      BY <1>1 DEF AskedOK, Flush
    <3> HIDE DEF a
    <3>2. IsSuffix(a, <<Flush>> \o a)
      BY <3>1, SuffixOfConcat
    <3>3. IsSuffix(Asked, Asked')
      BY <2>4, <3>2 DEF a
    <3> QED BY <1>2, <2>1, <3>3 DEF InOrder!Next, InOrder!Ask, InOrder!IsSuffix, IsSuffix,
               InOrder!IsPrefix, IsPrefix, InOrder!Reverse, Reverse
  <2> QED BY <2>2, <2>3, <2>4
<1>7. CASE CsLock \/ CsWake
  <2>1. Pipe' = Pipe
    BY <1>1, <1>7, TakePipe
  <2>2. Running = <<>>
    BY <1>7 DEF CsLock, CsWake, Running
  <2>3. Asked' = Asked
    <3>1. ~Call /\ ~ExecuteCommandList /\ ~EmitCs /\ ~DeviceFlush
      BY <1>7 DEF CsLock, CsWake, TakeChunk, Call, ExecuteCommandList, EmitCs, DispatchCsChunk,
             DeviceFlush, csVars
    <3> QED BY <3>1, AskedElsewhere
  <2>4. Waiting = Running' \o Waiting'
    <3> DEFINE w == Waiting
    <3>1. w \in Seq(Int) /\ <<>> \o w = Running' \o Waiting'
      BY <1>1, <2>1, <2>2 DEF AskedOK
    <3> HIDE DEF w
    <3>2. <<>> \o w = w
      BY <3>1
    <3> QED BY <3>1, <3>2 DEF w
  <2> QED BY <2>2, <2>3, <2>4 DEF InOrder!Next, InOrder!Begin
<1>8. CASE ExecuteAll
  <2>1. /\ Pipe = cmds[executing] \o Pipe' /\ Running = cmds[executing] /\ Running' = <<>>
    <3>1. Pipe = cmds[executing] \o Pipe'
      BY <1>1, <1>8, ExecutePipe DEF Orders
    <3>2. executing # NoChunk
      BY <1>8, StreamAssumption DEF ExecuteAll, IInv, ChunkInv, ExecutingOK
    <3> QED BY <1>8, <3>1, <3>2 DEF ExecuteAll, NextTurn, Running, Content
  <2>2. Waiting' = Waiting
    <3> DEFINE r == Running
               w == Waiting
               v == Waiting'
    <3>1. r \in Seq(Int) /\ w \in Seq(Int) /\ v \in Seq(Int) /\ r \o w = r \o (<<>> \o v)
      BY <1>1, <2>1 DEF AskedOK
    <3> HIDE DEF r, w, v
    <3>2. <<>> \o v = v
      BY <3>1
    <3>3. w = v
      BY <3>1, <3>2, CancelLeft
    <3> QED BY <3>3 DEF w, v
  <2>3. Asked' = Asked
    <3>1. ~Call /\ ~ExecuteCommandList /\ ~EmitCs /\ ~DeviceFlush
      BY <1>8 DEF ExecuteAll, NextTurn, Call, ExecuteCommandList, EmitCs, DispatchCsChunk,
             DeviceFlush, csVars
    <3> QED BY <3>1, AskedElsewhere
  <2> QED BY <2>1, <2>2, <2>3 DEF InOrder!Next, InOrder!Finish
<1>9. CASE ~(EmitCs /\ ~Full(csChunk)) /\ ~ExecuteCommandList /\ ~Call /\ ~DeviceFlush
           /\ ~CsLock /\ ~CsWake /\ ~ExecuteAll
  <2>1. Asked' = Asked /\ Running' = Running
    BY <1>9, AskedElsewhere, RunningKept
  <2>2. Pipe' = Pipe
    BY <1>9, PipeStep DEF Orders
  <2> QED BY <1>2, <2>1, <2>2 DEF InOrder!vars
<1> QED BY <1>3, <1>4, <1>5, <1>6, <1>7, <1>8, <1>9

LEMMA InitPipe == Init => InOrder!Init
<1> SUFFICES ASSUME Init PROVE Asked = <<>> /\ Waiting = <<>> /\ Running = <<>>
  BY DEF InOrder!Init
<1>1. /\ todo = <<>> /\ chunksQueued = <<>> /\ csPc = "lock"
      /\ cmds = [c \in Chunks |-> <<>>] /\ csChunk \in Chunks /\ csChunk # NoChunk
  BY StreamAssumption DEF Init
<1>2. Asked = <<>>
  BY <1>1 DEF Asked, Range
<1>3. Running = <<>>
  BY <1>1 DEF Running
<1>4. Waiting = <<>>
  <2>1. Contents(cmds, chunksQueued) = <<>>
    BY <1>1, ContentsEmpty
  <2>2. Waiting = <<>> \o <<>>
    BY <1>1, <2>1 DEF Waiting, Commands, Content, Contents
  <2> QED BY <2>2
<1> QED BY <1>2, <1>3, <1>4

(* Every command a call asks for, a flush, a list or one of its own, is issued
   exactly once and executed by the dxvk-cs thread exactly once, in the order of
   the calls, whatever chunks it travels in: a second push that is refused, a
   chunk that is not dispatched, a flag or a list that makes a chunk run twice
   would lose commands or repeat them (dxvk_cs.cpp, d3d9_device.h:856,
   d3d11_context_imm.cpp:676, d3d11_context_def.cpp). *)
THEOREM CommandsOrdered == Spec => CommandsInOrder
<1>1. Init => Orders /\ InOrder!Init
  BY InitOrders, InitPipe DEF Orders
<1>2. IInv /\ Orders /\ [Next]_vars => Orders'
  BY OrdersKept
<1>3. IInv /\ Orders /\ [Next]_vars => [InOrder!Next]_(InOrder!vars)
  BY PipeRefines
<1> QED BY <1>1, <1>2, <1>3, Invariance, PTL DEF Spec, CommandsInOrder, InOrder!Spec

-----------------------------------------------------------------------------
(* Flushes, and the end of the context *)

(* Everything issued has been flushed, or has a flush behind it. *)
Clean == IF Pipe = <<>> THEN ~recorded ELSE Last(Pipe) = Flush

(* The context believes so only if it is true or it has something to flush. *)
BusyInv ==
    ~csIsBusy => Clean \/ Content(csChunk) # <<>> \/ "busy" \in Range(todo)

(* It is true from the flush to the end of a call that relies on it. *)
CleanInv ==
    Range(todo) \cap {"notBusy", "stop"} # {} /\ Range(todo) \cap {"flush", "emitFlush"} = {}
        => Clean

(* Nothing is left for a thread that is told to stop. *)
Drained == chunksQueued = <<>> /\ executing = NoChunk /\ ~recorded
StopInv ==
    /\ Range(todo) = {"stop"} => Drained
    /\ stopped => todo = <<>> /\ Drained

LEMMA LastOfConcat ==
  ASSUME NEW s \in Seq(Int), NEW t \in Seq(Int)
  PROVE  /\ t # <<>> => s \o t # <<>> /\ Last(s \o t) = Last(t)
         /\ t = <<>> => s \o t = s
<1> DEFINE u == s \o t
<1>1. /\ u \in Seq(Int) /\ Len(u) = Len(s) + Len(t) /\ Len(s) \in Nat /\ Len(t) \in Nat
      /\ \A i \in 1 .. Len(t) : u[Len(s) + i] = t[i]
  BY ConcatFacts
<1> HIDE DEF u
<1>2. ASSUME t # <<>> PROVE u # <<>> /\ Last(u) = Last(t)
  <2>1. Len(t) \in 1 .. Len(t)
    BY <1>1, <1>2, EmptySeq
  <2>2. u[Len(s) + Len(t)] = t[Len(t)] /\ Len(u) # 0
    BY <1>1, <2>1
  <2>3. u # <<>>
    BY <1>1, <2>2, EmptySeq
  <2> QED BY <1>1, <2>2, <2>3 DEF Last
<1>3. ASSUME t = <<>> PROVE s \o t = s
  BY <1>3
<1> QED BY <1>2, <1>3 DEF u

(* What has been flushed stays so until the next command. *)
LEMMA CleanMoves ==
  ASSUME IInv, Orders, [Next]_vars
  PROVE  /\ Clean => \/ Clean'
                     \/ EmitCs /\ ~Full(csChunk) /\ Head(todo) = "emit"
                     \/ ExecuteCommandList /\ todo' = todo
         /\ EmitCs /\ ~Full(csChunk) /\ Head(todo) = "emitFlush" => Clean'
<1>1. /\ \/ UNCHANGED <<Pipe, recorded>>
         \/ EmitCs /\ ~Full(csChunk) /\ UNCHANGED recorded /\ Pipe' = Append(Pipe, Emitted)
         \/ /\ ExecuteCommandList /\ todo' = todo /\ UNCHANGED recorded
            /\ \E x \in Chunks : Pipe' = Pipe \o cmds[x]
         \/ ExecuteAll /\ Pipe = cmds[executing] \o Pipe' /\ cmds[executing] \in CmdSeq
  BY PipeStep DEF Orders
<1>2. Pipe \in Seq(Int) /\ Pipe' \in Seq(Int)
  <2>1. CmdSeq \subseteq Seq(Int)
    BY StreamAssumption DEF CmdSeq
  <2> QED BY <2>1, InvStep, PipeTyped DEF PartsOK
<1>3. ASSUME EmitCs, ~Full(csChunk), Head(todo) = "emitFlush" PROVE Clean'
  <2>1. Pipe' = Append(Pipe, Emitted)
    BY <1>3, InvStep, EmitPipe
  <2>2. Emitted = Flush /\ Flush \in Int
    BY <1>3 DEF Emitted, Flush
  <2>3. Pipe' # <<>> /\ Last(Pipe') = Flush
    BY <1>2, <2>1, <2>2 DEF Last
  <2> QED BY <2>3 DEF Clean, Last
<1>4. ASSUME Clean, UNCHANGED <<Pipe, recorded>> PROVE Clean'
  BY <1>4 DEF Clean, Last
<1>5. ASSUME Clean, EmitCs, ~Full(csChunk)
      PROVE  Clean' \/ (EmitCs /\ ~Full(csChunk) /\ Head(todo) = "emit")
  <2>1. Head(todo) \in {"emit", "emitFlush"}
    BY <1>5 DEF EmitCs
  <2>2. CASE Head(todo) = "emit"
    BY <1>5, <2>2
  <2>3. CASE Head(todo) = "emitFlush"
    BY <1>3, <1>5, <2>3
  <2> QED BY <2>1, <2>2, <2>3
<1>6. ASSUME Clean, ExecuteAll, Pipe = cmds[executing] \o Pipe', cmds[executing] \in CmdSeq
      PROVE  Clean'
  <2> DEFINE t == cmds[executing]
             s == Pipe'
  <2>1. t \in Seq(Int) /\ s \in Seq(Int) /\ Pipe = t \o s
    BY <1>2, <1>6, StreamAssumption DEF CmdSeq
  <2>2. recorded' = IF t = <<>> THEN recorded ELSE Last(t) # Flush
    BY <1>6 DEF ExecuteAll
  <2>3. Clean' = IF s = <<>> THEN ~recorded' ELSE Last(s) = Flush
    BY DEF Clean, Last
  <2>4. IF Pipe = <<>> THEN ~recorded ELSE Last(Pipe) = Flush
    BY <1>6 DEF Clean
  <2> HIDE DEF t, s
  <2>5. CASE s # <<>>
    <3>1. Pipe # <<>> /\ Last(Pipe) = Last(s)
      BY <2>1, <2>5, LastOfConcat
    <3> QED BY <2>3, <2>4, <2>5, <3>1
  <2>6. CASE s = <<>>
    <3>1. Pipe = t
      BY <2>1, <2>6, LastOfConcat
    <3> QED BY <2>2, <2>3, <2>4, <2>6, <3>1
  <2> QED BY <2>5, <2>6
<1> QED BY <1>1, <1>3, <1>4, <1>5, <1>6

(* Who touches the chunk of the immediate context. *)
LEMMA ContentKept ==
  ASSUME IInv, [Next]_vars, ~EmitCs, ~FlushCsChunk, ~AllocCsChunk
  PROVE  Content(csChunk)' = Content(csChunk)
<1>1. csChunk' = csChunk
  BY DEF Next, AppStep, DeferStep, CsStep, vars, Call, DeviceFlush, SetBusy, Synchronize,
         ExecuteCommandList, Stop, ReleaseCommandList, DeferEmit, FinishCommandList,
         EmitToCommandList, CsLock, CsWake, ExecuteAll, Terminated
<1>2. IInv'
  BY InvStep
<1>3. CASE csChunk = NoChunk
  BY <1>1, <1>3 DEF Content
<1>4. CASE csChunk # NoChunk
  <2>1. csChunk \in Chunks /\ DOMAIN cmds = Chunks /\ csChunk # executing
    BY <1>4 DEF IInv, ChunkInv, ChunkTypes, Private, Shared
  <2>2. \/ UNCHANGED cmds
        \/ DeferEmit
        \/ \E s : Release(s)
        \/ ExecuteAll
    BY DEF Next, AppStep, DeferStep, CsStep, vars, chunkVars, Call, DeviceFlush, SetBusy,
           Synchronize, ExecuteCommandList, Stop, ReleaseCommandList, FinishCommandList,
           EmitToCommandList, CsLock, CsWake, Terminated
  <2>3. CASE DeferEmit
    <3>1. cmds' = [cmds EXCEPT ![deferChunk'] = Append(@, numCmds')] /\ csChunk # deferChunk'
      BY <1>1, <1>2, <2>3 DEF DeferEmit, IInv, ChunkInv, Private
    <3> QED BY <1>1, <1>4, <2>1, <3>1 DEF Content
  <2>4. CASE \E s : Release(s)
    BY <1>1, <1>2, <1>4, <2>1, <2>4, ReleaseSame DEF Content
  <2>5. CASE ExecuteAll
    BY <1>1, <1>4, <2>1, <2>5 DEF ExecuteAll, Content
  <2> QED BY <1>1, <1>4, <2>2, <2>3, <2>4, <2>5 DEF Content
<1> QED BY <1>3, <1>4

LEMMA BusyStep ==
  ASSUME IInv, Orders, BusyInv, CleanInv, [Next]_vars
  PROVE  BusyInv'
<1> DEFINE R == Range(todo)
           F == Range(Tail(todo))
           h == Head(todo)
           N == Range(todo')
<1> SUFFICES ASSUME ~csIsBusy'
             PROVE  Clean' \/ Content(csChunk)' # <<>> \/ "busy" \in N
  BY DEF BusyInv
<1>1. TodoSets
  BY TodoChange DEF Orders, OrderInv
<1>2. CASE SetBusy
  <2>1. todo # <<>> /\ h = "notBusy"
    BY <1>2 DEF SetBusy
  <2>2. R = F \cup {h} /\ F \subseteq After(h)
    BY <1>1, <2>1 DEF TodoSets
  <2>3. R \cap {"notBusy", "stop"} # {} /\ R \cap {"flush", "emitFlush"} = {}
    <3> HIDE DEF R, F, h
    <3> QED BY <2>1, <2>2 DEF After
  <2>4. Clean
    BY <2>3 DEF CleanInv
  <2> QED BY <1>2, <2>4, CleanMoves DEF SetBusy, EmitCs, ExecuteCommandList
<1>3. CASE EmitCs
  <2>1. CASE Full(csChunk)
    BY <1>3, <2>1 DEF EmitCs, DispatchCsChunk, MarkBusy
  <2>2. CASE ~Full(csChunk)
    <3>1. /\ cmds' = [cmds EXCEPT ![csChunk] = Append(@, Emitted)] /\ csChunk' = csChunk
          /\ todo # <<>> /\ h \in {"emit", "emitFlush"}
      BY <1>3, <2>2 DEF EmitCs, Emitted
    <3>2. csChunk \in Chunks /\ csChunk # NoChunk /\ cmds \in [Chunks -> CmdSeq]
      BY <3>1, StreamAssumption DEF IInv, ChunkInv, ChunkTypes, HasChunk, CmdSeq
    <3>3. Content(csChunk)' = Append(cmds[csChunk], Emitted) /\ cmds[csChunk] \in CmdSeq
      BY <3>1, <3>2 DEF Content
    <3>4. Append(cmds[csChunk], Emitted) # <<>>
      BY <3>3 DEF CmdSeq
    <3> QED BY <3>3, <3>4
  <2> QED BY <2>1, <2>2
<1>4. CASE ~SetBusy /\ ~EmitCs
  <2>1. ~DispatchCsChunk(todo) /\ ~DispatchCsChunk(Tail(todo))
    BY DEF DispatchCsChunk, MarkBusy
  <2>2. csIsBusy' = csIsBusy
    BY <1>4, <2>1 DEF Next, AppStep, DeferStep, CsStep, vars, Call, AllocCsChunk, FlushCsChunk,
           DeviceFlush, Synchronize, ExecuteCommandList, Stop, ReleaseCommandList, DeferEmit,
           FinishCommandList, EmitToCommandList, CsLock, CsWake, ExecuteAll, Terminated
  <2>3. Clean \/ Content(csChunk) # <<>> \/ "busy" \in R
    BY <2>2 DEF BusyInv
  <2>4. ASSUME Content(csChunk) # <<>> PROVE Content(csChunk)' # <<>>
    <3>1. ~AllocCsChunk
      BY <2>4 DEF AllocCsChunk, Content, IInv, ChunkInv, HasChunk
    <3>2. ~FlushCsChunk
      BY <2>1, <2>4, StreamAssumption DEF FlushCsChunk, Content, IInv, ChunkInv, ChunkTypes
    <3> QED BY <1>4, <2>4, <3>1, <3>2, ContentKept
  <2>5. "busy" \in R => "busy" \in N
    <3>1. Popped => h # "busy"
      BY <1>4, PoppedBy DEF AllocCsChunk, FlushCsChunk, DeviceFlush, Synchronize,
             ExecuteCommandList, Stop
    <3>2. /\ todo # <<>> => R = F \cup {h}
          /\ \/ N = R
             \/ todo = <<>>
             \/ todo # <<>> /\ N = F /\ h # "busy"
             \/ N = R \cup {"alloc"}
             \/ todo # <<>> /\ h = "dispatch" /\ N = F \cup {"alloc"}
             \/ todo # <<>> /\ h \in {"flush", "maybeFlush"}
                  /\ N = F \cup {"emitFlush", "dispatch", "notBusy"}
             \/ todo # <<>> /\ h = "sync" /\ N = F \cup {"wait"}
      BY <1>1, <3>1 DEF TodoSets, Popped
    <3>3. todo = <<>> => R = {}
      BY DEF Range
    <3> HIDE DEF R, F, h, N
    <3> QED BY <3>2, <3>3
  <2>6. ASSUME Clean PROVE Clean' \/ "busy" \in N
    <3>1. ASSUME ExecuteCommandList, todo' = todo PROVE "busy" \in N
      <4>1. todo # <<>> /\ h = "list"
        BY <3>1 DEF ExecuteCommandList
      <4>2. "list" \in R
        BY <1>1, <4>1 DEF TodoSets
      <4> QED BY <3>1, <4>2 DEF Orders, OrderInv
    <3> QED BY <1>4, <2>6, <3>1, CleanMoves
  <2> QED BY <2>3, <2>4, <2>5, <2>6
<1> QED BY <1>2, <1>3, <1>4

LEMMA CleanStep ==
  ASSUME IInv, Orders, BusyInv, CleanInv, [Next]_vars
  PROVE  CleanInv'
<1> DEFINE R == Range(todo)
           F == Range(Tail(todo))
           h == Head(todo)
           N == Range(todo')
<1> SUFFICES ASSUME N \cap {"notBusy", "stop"} # {}, N \cap {"flush", "emitFlush"} = {}
             PROVE  Clean'
  BY DEF CleanInv
<1>1. TodoSets
  BY TodoChange DEF Orders, OrderInv
<1>2. /\ todo # <<>> => R = F \cup {h} /\ F \subseteq After(h)
      /\ \/ N = R
         \/ N \in {{"emit"}, {"flush"}, {"dispatch", "sync"},
               {"flush", "dispatch", "sync", "stop"},
               {"dispatch", "maybeFlush", "list", "emit", "busy"}}
         \/ todo # <<>> /\ N = F /\ Popped
         \/ N = R \cup {"alloc"}
         \/ todo # <<>> /\ h = "dispatch" /\ N = F \cup {"alloc"}
         \/ todo # <<>> /\ h \in {"flush", "maybeFlush"}
              /\ N = F \cup {"emitFlush", "dispatch", "notBusy"}
         \/ todo # <<>> /\ h = "sync" /\ N = F \cup {"wait"}
  BY <1>1 DEF TodoSets, Popped
<1>3. \/ R \cap {"notBusy", "stop"} # {} /\ R \cap {"flush", "emitFlush"} = {}
      \/ todo # <<>> /\ N = F /\ Popped /\ h \in {"flush", "emitFlush"}
  <2> HIDE DEF R, F, h, N
  <2> QED BY <1>2
<1>4. CASE R \cap {"notBusy", "stop"} # {} /\ R \cap {"flush", "emitFlush"} = {}
  <2>1. Clean
    BY <1>4 DEF CleanInv
  <2>2. ASSUME todo # <<>> PROVE h # "list" /\ ~(N = F /\ h = "emit")
    <3>1. R = F \cup {h} /\ F \subseteq After(h)
      BY <1>2, <2>2
    <3> HIDE DEF R, F, h, N
    <3> QED BY <1>4, <3>1 DEF After
  <2>3. ~(EmitCs /\ ~Full(csChunk) /\ h = "emit")
    BY <2>2 DEF EmitCs
  <2>4. ~ExecuteCommandList
    BY <2>2 DEF ExecuteCommandList
  <2> QED BY <2>1, <2>3, <2>4, CleanMoves
<1>5. CASE todo # <<>> /\ N = F /\ Popped /\ h = "emitFlush"
  <2>1. EmitCs
    BY <1>5, PoppedBy DEF AllocCsChunk, FlushCsChunk, DeviceFlush, SetBusy, Synchronize,
           ExecuteCommandList, Stop
  <2>2. ~Full(csChunk)
    <3>1. ASSUME Full(csChunk) PROVE FALSE
      <4>1. DispatchCsChunk(todo)
        BY <2>1, <3>1 DEF EmitCs
      <4>2. N = R \cup {"alloc"}
        <5>1. Dispatched(todo)
          BY <1>5, <4>1 DEF Dispatched, DispatchCsChunk
        <5> QED BY <5>1, TodoRanges DEF Orders, OrderInv
      <4>3. R = F \cup {h}
        BY <1>2, <1>5
      <4> QED BY <1>5, <4>2, <4>3
    <3> QED BY <3>1
  <2> QED BY <1>5, <2>1, <2>2, CleanMoves
<1>6. CASE todo # <<>> /\ N = F /\ Popped /\ h = "flush"
  <2>1. DeviceFlush
    BY <1>6, PoppedBy DEF AllocCsChunk, EmitCs, FlushCsChunk, SetBusy, Synchronize,
           ExecuteCommandList, Stop
  <2>2. todo' # FlushProgram \o Tail(todo)
    <3>1. ASSUME todo' = FlushProgram \o Tail(todo) PROVE FALSE
      <4>1. FlushBegun
        BY <1>6, <3>1 DEF FlushBegun
      <4>2. N = F \cup {"emitFlush", "dispatch", "notBusy"}
        BY <4>1, TodoRanges DEF Orders, OrderInv
      <4> QED BY <4>2
    <3> QED BY <3>1
  <2>3. ~csIsBusy /\ cmds[csChunk] = <<>>
    BY <1>6, <2>1, <2>2 DEF DeviceFlush
  <2>4. Content(csChunk) = <<>>
    BY <2>3 DEF Content
  <2>5. "busy" \notin R
    <3>1. R = F \cup {h} /\ F \subseteq After(h)
      BY <1>2, <1>6
    <3> HIDE DEF R, F, h, N
    <3> QED BY <1>6, <3>1 DEF After
  <2>6. Clean
    BY <2>3, <2>4, <2>5 DEF BusyInv
  <2> QED BY <1>6, <2>6, CleanMoves DEF EmitCs, ExecuteCommandList
<1> QED BY <1>3, <1>4, <1>5, <1>6

LEMMA DrainedKept ==
  ASSUME IInv, [Next]_vars, Drained, ~EmitCs, ~FlushCsChunk, ~ExecuteCommandList
  PROVE  Drained'
<1>1. chunksQueued = <<>> /\ executing = NoChunk /\ ~recorded
  BY DEF Drained
<1>2. CASE UNCHANGED <<chunksQueued, executing, recorded>>
  BY <1>1, <1>2 DEF Drained
<1>3. CASE CsLock \/ CsWake
  <2>1. TakeChunk /\ UNCHANGED recorded
    BY <1>3 DEF CsLock, CsWake
  <2>2. chunksQueued' = <<>> /\ executing' = NoChunk
    BY <1>1, <2>1 DEF TakeChunk
  <2> QED BY <1>1, <2>1, <2>2 DEF Drained
<1>4. ~ExecuteAll
  BY <1>1 DEF ExecuteAll, IInv, ChunkInv, ExecutingOK
<1> QED BY <1>2, <1>3, <1>4 DEF Next, AppStep, DeferStep, CsStep, vars, csVars, Call,
           AllocCsChunk, DeviceFlush, SetBusy, Synchronize, Stop, ReleaseCommandList,
           DeferEmit, FinishCommandList, EmitToCommandList, Terminated

(* Between the wait that ends a context and the end, the application does nothing. *)
LEMMA StopStep ==
  ASSUME IInv, Orders, DrainInv, CleanInv, StopInv, [Next]_vars
  PROVE  StopInv'
<1> DEFINE R == Range(todo)
           F == Range(Tail(todo))
           h == Head(todo)
           N == Range(todo')
<1>1. TodoSets
  BY TodoChange DEF Orders, OrderInv
<1>2. /\ R = {"stop"} => Drained
      /\ stopped => todo = <<>> /\ Drained
  BY DEF StopInv
<1>3. /\ todo # <<>> => R = F \cup {h} /\ F \subseteq After(h)
      /\ \/ todo' = todo /\ N = R
         \/ Popped /\ todo # <<>> /\ N = F
         \/ N \cap {"emit", "flush", "dispatch", "alloc", "wait"} # {}
  BY <1>1 DEF TodoSets, Popped
<1>4. todo = <<>> => R = {}
  BY DEF Range
<1>5. ASSUME todo # <<>>, R = {"stop"} PROVE h = "stop" /\ F = {}
  <2>1. R = F \cup {h} /\ F \subseteq After(h)
    BY <1>3, <1>5
  <2> HIDE DEF R, F, h, N
  <2> QED BY <1>5, <2>1 DEF After
<1>6. ASSUME todo = <<>> \/ h = "stop", Drained PROVE Drained'
  BY <1>6, DrainedKept DEF EmitCs, FlushCsChunk, ExecuteCommandList
<1>7. ASSUME N = {"stop"} PROVE Drained'
  <2>1. CASE todo' = todo
    <3>1. R = {"stop"}
      BY <1>7, <2>1
    <3> QED BY <1>2, <1>4, <1>5, <1>6, <3>1
  <2>2. CASE Popped /\ todo # <<>> /\ N = F
    <3>1. h \in {"sync", "wait"} /\ "stop" \in R /\ R \cap {"flush", "emitFlush"} = {}
      <4>1. R = F \cup {h} /\ F \subseteq After(h) /\ F = {"stop"}
        BY <1>3, <1>7, <2>2
      <4>2. "stop" \in R => R = {"stop"} \/ R \cap {"sync", "wait"} # {}
        BY DEF Orders, OrderInv
      <4> HIDE DEF R, F, h, N
      <4> QED BY <4>1, <4>2 DEF After
    <3>2. Synchronize /\ chunksQueued = <<>> /\ executing = NoChunk /\ Pipe = <<>>
      BY <2>2, <3>1, SyncReturns DEF Popped
    <3>3. ~recorded
      BY <3>1, <3>2 DEF CleanInv, Clean
    <3> QED BY <3>2, <3>3 DEF Synchronize, csVars, Drained
  <2>3. ~(N \cap {"emit", "flush", "dispatch", "alloc", "wait"} # {})
    BY <1>7
  <2> QED BY <1>3, <2>1, <2>2, <2>3
<1>8. ASSUME stopped' PROVE todo' = <<>> /\ Drained'
  <2>1. CASE stopped
    <3>1. todo = <<>> /\ Drained /\ ~Call
      BY <1>2, <2>1 DEF Call
    <3>2. todo' = todo
      BY <1>1, <3>1 DEF TodoSets, Popped
    <3> QED BY <1>6, <3>1, <3>2
  <2>2. CASE ~stopped
    <3>1. Stop
      BY <1>8, <2>2 DEF Next, AppStep, DeferStep, CsStep, vars, Call, AllocCsChunk, EmitCs,
             DispatchCsChunk, FlushCsChunk, DeviceFlush, SetBusy, Synchronize,
             ExecuteCommandList, ReleaseCommandList, DeferEmit, FinishCommandList,
             EmitToCommandList, CsLock, CsWake, ExecuteAll, Terminated
    <3>2. todo # <<>> /\ h = "stop" /\ todo' = Tail(todo)
      BY <3>1 DEF Stop
    <3>3. R = {"stop"} /\ F = {}
      <4>1. R = F \cup {h} /\ F \subseteq After(h)
        BY <1>3, <3>2
      <4> HIDE DEF R, F, h, N
      <4> QED BY <3>2, <4>1 DEF After
    <3>4. todo' = <<>>
      <4>1. Tail(todo) \in Seq(StepNames)
        BY <3>2, HeadTailProperties DEF IInv, TodoInv, ProgramOK
      <4>2. Len(Tail(todo)) = 0
        <5> DEFINE t == Tail(todo)
        <5>1. t \in Seq(StepNames) /\ Range(t) = {}
          BY <3>3, <4>1
        <5> HIDE DEF t
        <5>2. Len(t) \in Nat /\ 1 \notin 1 .. Len(t)
          BY <5>1 DEF Range
        <5>3. Len(t) = 0
          BY <5>2
        <5> QED BY <5>3 DEF t
      <4> QED BY <3>2, <4>1, <4>2, EmptySeq
    <3> QED BY <1>2, <1>6, <3>2, <3>3, <3>4
  <2> QED BY <2>1, <2>2
<1> QED BY <1>7, <1>8 DEF StopInv

(* Nothing is left unsubmitted. *)
FlushInv == Orders /\ DrainInv /\ BusyInv /\ CleanInv /\ StopInv

LEMMA FlushInvariance == Spec => []FlushInv
<1>1. Init => FlushInv
  <2> SUFFICES ASSUME Init PROVE FlushInv
    OBVIOUS
  <2>1. Orders /\ Pipe = <<>> /\ ~recorded /\ ~stopped /\ todo = <<>>
    BY InitOrders DEF Orders, Init
  <2>2. Range(<<>>) = {}
    BY DEF Range
  <2>3. DrainInv
    BY <2>1 DEF DrainInv, SyncOrder
  <2> QED BY <2>1, <2>2, <2>3 DEF FlushInv, BusyInv, CleanInv, StopInv, Clean
<1>2. IInv /\ FlushInv /\ [Next]_vars => FlushInv'
  <2> SUFFICES ASSUME IInv, FlushInv, [Next]_vars PROVE FlushInv'
    OBVIOUS
  <2>1. Orders /\ DrainInv /\ BusyInv /\ CleanInv /\ StopInv
    BY DEF FlushInv
  <2>2. Orders' /\ DrainInv' /\ BusyInv' /\ CleanInv' /\ StopInv'
    BY <2>1, OrdersKept, DrainStep, BusyStep, CleanStep, StopStep
  <2> QED BY <2>2 DEF FlushInv
<1> QED BY <1>1, <1>2, Invariance, PTL DEF Spec

(* A flush that is skipped had nothing to do, and a context that is destroyed
   has nothing left: the flag m_csIsBusy is raised by every dispatch and after
   every command list, and lowered only behind a flush (d3d9_device.cpp:4318,
   d3d9_device.cpp:4616, d3d11_context_imm.cpp:159). *)
THEOREM NothingIsStranded == Spec => []NothingStranded
<1>1. FlushInv => NothingStranded
  <2> SUFFICES ASSUME FlushInv PROVE NothingStranded
    OBVIOUS
  <2>1. FlushSkipsNothing
    <3> SUFFICES ASSUME todo = <<>>, ~csIsBusy, Content(csChunk) = <<>> PROVE Clean
      BY DEF FlushSkipsNothing, Clean
    <3>1. "busy" \notin Range(todo)
      BY DEF Range
    <3> QED BY <3>1 DEF FlushInv, BusyInv
  <2>2. StopDrained
    BY DEF FlushInv, StopInv, Drained, StopDrained
  <2> QED BY <2>1, <2>2 DEF NothingStranded
<1> QED BY <1>1, FlushInvariance, PTL

-----------------------------------------------------------------------------
(* Sleeping *)

(* The dxvk-cs thread sleeps only when it has nothing to do, the application only
   when there is something to wait for. *)
WakeInv ==
    /\ "add" \in asleep => csPc = "wait" /\ chunksQueued = <<>> /\ ~stopped
    /\ "sync" \in asleep => todo # <<>> /\ Head(todo) = "wait" /\ chunksPending > 0
    /\ csPc = "stopped" => stopped

(* No wake-up is lost: while a call sleeps in synchronize(), the thread it waits
   for is awake and has not stopped; and that thread sleeps on an empty queue. *)
NoLostWakeup ==
    /\ "sync" \in asleep =>
          chunksPending > 0 /\ csPc # "stopped" /\ ~(csPc = "wait" /\ "add" \in asleep)
    /\ "add" \in asleep => chunksQueued = <<>> /\ ~stopped

LEMMA WakeStep ==
  ASSUME IInv, WakeInv, [Next]_vars
  PROVE  WakeInv'
<1>1. /\ asleep \subseteq {"add", "sync"} /\ chunksQueued \in Seq(Chunks)
      /\ chunksPending = Len(chunksQueued) + (IF executing = NoChunk THEN 0 ELSE 1)
  BY DEF IInv, FlagInv, ChunkInv, ChunkTypes, PendingInv
<1>2. chunksPending \in Nat
  BY <1>1
<1>3. /\ "add" \in asleep => csPc = "wait" /\ chunksQueued = <<>> /\ ~stopped
      /\ "sync" \in asleep => todo # <<>> /\ Head(todo) = "wait" /\ chunksPending > 0
      /\ csPc = "stopped" => stopped
  BY DEF WakeInv
<1>4. CASE UNCHANGED <<asleep, csPc, chunksQueued, stopped, todo, chunksPending>>
  BY <1>3, <1>4 DEF WakeInv
<1>5. ASSUME UNCHANGED <<asleep, csPc, chunksQueued, stopped, chunksPending>>,
             todo = <<>> \/ Head(todo) # "wait"
      PROVE  WakeInv'
  BY <1>3, <1>5 DEF WakeInv
<1>6. CASE Call \/ AllocCsChunk \/ DeviceFlush \/ SetBusy
  BY <1>5, <1>6 DEF Call, AllocCsChunk, DeviceFlush, SetBusy, csVars
<1>7. CASE ReleaseCommandList \/ DeferEmit \/ FinishCommandList \/ EmitToCommandList
  BY <1>4, <1>7 DEF ReleaseCommandList, DeferEmit, FinishCommandList, EmitToCommandList, csVars
<1>8. CASE EmitCs \/ FlushCsChunk
  <2>1. todo # <<>> /\ Head(todo) # "wait" /\ "sync" \notin asleep
    BY <1>3, <1>8 DEF EmitCs, FlushCsChunk
  <2>2. CASE \E r : DispatchCsChunk(r)
    BY <1>3, <2>1, <2>2 DEF DispatchCsChunk, WakeInv, csVars
  <2>3. CASE ~\E r : DispatchCsChunk(r)
    BY <1>5, <1>8, <2>1, <2>3 DEF EmitCs, FlushCsChunk, csVars
  <2> QED BY <2>2, <2>3
<1>9. CASE Synchronize
  <2>1. "sync" \notin asleep /\ UNCHANGED <<csPc, chunksQueued, stopped, chunksPending>>
    BY <1>9 DEF Synchronize, csVars
  <2>2. CASE UNCHANGED asleep
    BY <1>3, <2>1, <2>2 DEF WakeInv
  <2>3. CASE asleep' = asleep \cup {"sync"} /\ ~NothingPending /\ Head(todo) = "wait"
             /\ todo # <<>> /\ todo' = todo
    BY <1>2, <1>3, <2>1, <2>3 DEF NothingPending, WakeInv
  <2> QED BY <1>9, <2>2, <2>3 DEF Synchronize
<1>10. CASE ExecuteCommandList
  <2>1. todo # <<>> /\ Head(todo) # "wait" /\ "sync" \notin asleep
    BY <1>3, <1>10 DEF ExecuteCommandList
  <2>2. CASE nextChunk <= Len(cmdList)
    BY <1>3, <1>10, <2>1, <2>2 DEF ExecuteCommandList, WakeInv, csVars
  <2>3. CASE ~(nextChunk <= Len(cmdList))
    BY <1>5, <1>10, <2>1, <2>3 DEF ExecuteCommandList, csVars
  <2> QED BY <2>2, <2>3
<1>11. CASE Stop
  BY <1>3, <1>11 DEF Stop, WakeInv, csVars
<1>12. CASE CsLock
  <2>1. /\ UNCHANGED <<todo, stopped>> /\ "add" \notin asleep /\ TakeChunk
        /\ asleep' = (asleep \ (IF executing # NoChunk THEN NotifySync(chunksPending') ELSE {}))
                     \cup (IF csPc' = "wait" THEN {"add"} ELSE {})
        /\ chunksPending' = IF executing # NoChunk THEN chunksPending - 1 ELSE chunksPending
    BY <1>3, <1>12 DEF CsLock
  <2>2. /\ csPc' = "wait" => chunksQueued' = <<>> /\ ~stopped
        /\ csPc' = "stopped" => stopped
    BY <2>1 DEF TakeChunk
  <2>3. ASSUME "sync" \in asleep' PROVE "sync" \in asleep /\ chunksPending' > 0
    <3>1. "sync" \in asleep /\ (executing # NoChunk => "sync" \notin NotifySync(chunksPending'))
      BY <2>1, <2>3
    <3>2. executing # NoChunk => chunksPending' # 0
      BY <3>1 DEF NotifySync
    <3> QED BY <1>2, <1>3, <2>1, <3>1, <3>2
  <2>4. "add" \in asleep' => csPc' = "wait"
    BY <2>1
  <2> QED BY <1>3, <2>1, <2>2, <2>3, <2>4 DEF WakeInv
<1>13. CASE CsWake
  <2>1. /\ UNCHANGED <<todo, stopped, chunksPending>> /\ "add" \notin asleep /\ TakeChunk
        /\ asleep' = IF csPc' = "wait" THEN asleep \cup {"add"} ELSE asleep
    BY <1>13 DEF CsWake
  <2>2. /\ csPc' = "wait" => chunksQueued' = <<>> /\ ~stopped
        /\ csPc' = "stopped" => stopped
    BY <2>1 DEF TakeChunk
  <2> QED BY <1>3, <2>1, <2>2 DEF WakeInv
<1>14. CASE ExecuteAll
  BY <1>3, <1>14 DEF ExecuteAll, NextTurn, WakeInv
<1>15. CASE Terminated \/ UNCHANGED vars
  BY <1>4, <1>15 DEF Terminated, vars, csVars
<1> QED BY <1>6, <1>7, <1>8, <1>9, <1>10, <1>11, <1>12, <1>13, <1>14, <1>15
      DEF Next, AppStep, DeferStep, CsStep

(* No wake-up is lost between synchronize() and the dxvk-cs thread, in either
   direction: a dispatch and the end notify m_condOnAdd, the last chunk that is
   pending m_condOnSync (dxvk_cs.cpp:116, dxvk_cs.cpp:126, dxvk_cs.cpp:147). *)
THEOREM WakeupsAreKept == Spec => []NoLostWakeup
<1>1. Init => WakeInv
  BY DEF Init, WakeInv
<1>2. IInv /\ WakeInv /\ [Next]_vars => WakeInv'
  BY WakeStep
<1>3. IInv /\ FlushInv /\ WakeInv => NoLostWakeup
  <2> SUFFICES ASSUME IInv, FlushInv, WakeInv PROVE NoLostWakeup
    OBVIOUS
  <2>1. ASSUME "sync" \in asleep
        PROVE  chunksPending > 0 /\ csPc # "stopped" /\ ~(csPc = "wait" /\ "add" \in asleep)
    <3>1. todo # <<>> /\ chunksPending > 0
      BY <2>1 DEF WakeInv
    <3>2. ~stopped
      BY <3>1 DEF FlushInv, StopInv
    <3>3. csPc # "stopped"
      BY <3>2 DEF WakeInv
    <3>4. ASSUME csPc = "wait", "add" \in asleep PROVE FALSE
      <4>1. executing = NoChunk /\ chunksQueued = <<>>
        BY <3>4 DEF WakeInv, IInv, ChunkInv, ExecutingOK
      <4>2. chunksPending = 0
        BY <4>1 DEF IInv, PendingInv
      <4> QED BY <3>1, <4>2
    <3> QED BY <3>1, <3>3, <3>4
  <2> QED BY <2>1 DEF WakeInv, NoLostWakeup
<1> QED BY <1>1, <1>2, <1>3, Invariance, FlushInvariance, PTL DEF Spec
=============================================================================
