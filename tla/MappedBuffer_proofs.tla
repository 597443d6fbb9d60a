------------------------ MODULE MappedBuffer_proofs --------------------------
(***************************************************************************)
(* Machine-checked proofs about the slices of a mapped buffer.              *)
(***************************************************************************)
EXTENDS MappedBuffer, SequenceTheorems, TLAPS

(* SlicesExclusive, with the pools taken together. *)
Pool == fresh \cup freeSlices \cup nextSlices

PoolsApart == /\ fresh \cap freeSlices = {} /\ fresh \cap nextSlices = {}
              /\ freeSlices \cap nextSlices = {}

Once(x) ==
    /\ x \in Pool => x \notin Pending(deferred)
           \cup Pending(finished) \cup Pending(cs) \cup {physSlice} \cup recording.frees \cup Freed
    /\ x \in Pending(deferred) => x \notin
           Pending(finished) \cup Pending(cs) \cup {physSlice} \cup recording.frees \cup Freed
    /\ x \in Pending(finished) => x \notin
           Pending(cs) \cup {physSlice} \cup recording.frees \cup Freed
    /\ x \in Pending(cs) => x \notin {physSlice} \cup recording.frees \cup Freed
    /\ x = physSlice => x \notin recording.frees \cup Freed
    /\ x \in recording.frees => x \notin Freed

LEMMA NineApart ==
  ASSUME NEW a, NEW b, NEW c, NEW d, NEW e, NEW f, NEW g, NEW h, NEW i
  PROVE  Disjoint(<<a, b, c, d, e, f, g, h, i>>) <=>
         \A x : /\ x \in a => x \notin b \cup c \cup d \cup e \cup f \cup g \cup h \cup i
                /\ x \in b => x \notin c \cup d \cup e \cup f \cup g \cup h \cup i
                /\ x \in c => x \notin d \cup e \cup f \cup g \cup h \cup i
                /\ x \in d => x \notin e \cup f \cup g \cup h \cup i
                /\ x \in e => x \notin f \cup g \cup h \cup i
                /\ x \in f => x \notin g \cup h \cup i
                /\ x \in g => x \notin h \cup i
                /\ x \in h => x \notin i
<1> DEFINE t == <<a, b, c, d, e, f, g, h, i>>
<1>1. /\ DOMAIN t = 1 .. 9
      /\ t[1] = a /\ t[2] = b /\ t[3] = c /\ t[4] = d /\ t[5] = e
      /\ t[6] = f /\ t[7] = g /\ t[8] = h /\ t[9] = i
  OBVIOUS
<1>2. Disjoint(t) <=> \A m, n \in 1 .. 9 : m # n => \A x : ~(x \in t[m] /\ x \in t[n])
  <2>1. \A m, n : t[m] \cap t[n] = {} <=> \A x : ~(x \in t[m] /\ x \in t[n])
    OBVIOUS
  <2> HIDE DEF t
  <2> QED BY <1>1, <2>1 DEF Disjoint
<1> HIDE DEF t
<1>3. ASSUME Disjoint(t), NEW x
      PROVE \A m \in 1 .. 9 : x \in t[m] => \A n \in 1 .. 9 : n # m => x \notin t[n]
  BY <1>2, <1>3
<1>4. ASSUME Disjoint(t), NEW x
      PROVE  /\ x \in a => x \notin b \cup c \cup d \cup e \cup f \cup g \cup h \cup i
             /\ x \in b => x \notin c \cup d \cup e \cup f \cup g \cup h \cup i
             /\ x \in c => x \notin d \cup e \cup f \cup g \cup h \cup i
             /\ x \in d => x \notin e \cup f \cup g \cup h \cup i
             /\ x \in e => x \notin f \cup g \cup h \cup i
             /\ x \in f => x \notin g \cup h \cup i
             /\ x \in g => x \notin h \cup i
             /\ x \in h => x \notin i
  <2>1. \A m \in 1 .. 9 : x \in t[m] => \A n \in 1 .. 9 : n # m => x \notin t[n]
    BY <1>3, <1>4
  <2> QED BY <2>1, <1>1
<1>5. ASSUME \A x : /\ x \in a => x \notin b \cup c \cup d \cup e \cup f \cup g \cup h \cup i
                    /\ x \in b => x \notin c \cup d \cup e \cup f \cup g \cup h \cup i
                    /\ x \in c => x \notin d \cup e \cup f \cup g \cup h \cup i
                    /\ x \in d => x \notin e \cup f \cup g \cup h \cup i
                    /\ x \in e => x \notin f \cup g \cup h \cup i
                    /\ x \in f => x \notin g \cup h \cup i
                    /\ x \in g => x \notin h \cup i
                    /\ x \in h => x \notin i
      PROVE  Disjoint(t)
  <2> SUFFICES ASSUME NEW m \in 1 .. 9, NEW n \in 1 .. 9, m < n, NEW x, x \in t[m], x \in t[n]
               PROVE  FALSE
    BY <1>2
  <2> QED BY <1>1, <1>5
<1> QED BY <1>4, <1>5 DEF t

LEMMA HolderOnce == Disjoint(Holder) <=> PoolsApart /\ \A x : Once(x)
<1> DEFINE Apart ==
      \A x : /\ x \in fresh => x \notin freeSlices \cup nextSlices \cup Pending(deferred)
                 \cup Pending(finished) \cup Pending(cs) \cup {physSlice} \cup recording.frees \cup Freed
             /\ x \in freeSlices => x \notin nextSlices \cup Pending(deferred)
                 \cup Pending(finished) \cup Pending(cs) \cup {physSlice} \cup recording.frees \cup Freed
             /\ x \in nextSlices => x \notin Pending(deferred)
                 \cup Pending(finished) \cup Pending(cs) \cup {physSlice} \cup recording.frees \cup Freed
             /\ x \in Pending(deferred) => x \notin
                 Pending(finished) \cup Pending(cs) \cup {physSlice} \cup recording.frees \cup Freed
             /\ x \in Pending(finished) => x \notin
                 Pending(cs) \cup {physSlice} \cup recording.frees \cup Freed
             /\ x \in Pending(cs) => x \notin {physSlice} \cup recording.frees \cup Freed
             /\ x \in {physSlice} => x \notin recording.frees \cup Freed
             /\ x \in recording.frees => x \notin Freed
<1>1. Disjoint(Holder) <=> Apart
  BY NineApart DEF Holder
<1>2. Apart => PoolsApart /\ \A x : Once(x)
  BY DEF Once, Pool, PoolsApart
<1>3. PoolsApart /\ (\A x : Once(x)) => Apart
  BY DEF Once, Pool, PoolsApart
<1> QED BY <1>1, <1>2, <1>3
-----------------------------------------------------------------------------
(* Sequences of commands *)

LEMMA Commands ==
  ASSUME NEW c \in Command
  PROVE  /\ c.op \in {"use", "rename", "renew", "flush"}
         /\ c.op = "rename" => c.slice \in Slices /\ c = Rename(c.slice)
  BY DEF Command, Use, Rename, Renew, Flush

LEMMA RenameCommand ==
  ASSUME NEW s \in Slices
  PROVE  Rename(s) \in Command /\ Rename(s).op = "rename" /\ Rename(s).slice = s
  BY DEF Command, Rename

LEMMA OtherCommands ==
  /\ Use \in Command /\ Use.op = "use"
  /\ Renew \in Command /\ Renew.op = "renew"
  /\ Flush \in Command /\ Flush.op = "flush"
  BY DEF Command, Use, Renew, Flush

(* Emitting a command makes the slice of a rename pending, and only that. *)
LEMMA Emitted ==
  ASSUME NEW q \in Seq(Command), NEW c \in Command
  PROVE  /\ q \o <<c>> = Append(q, c) /\ Append(q, c) \in Seq(Command)
         /\ Append(q, c) # <<>> /\ Append(q, c)[Len(Append(q, c))] = c
         /\ c.op # "rename" => Pending(Append(q, c)) = Pending(q)
         /\ c.op = "rename" => Pending(Append(q, c)) = Pending(q) \cup {c.slice}
         /\ RenamesOnce(q) /\ (c.op = "rename" => c.slice \notin Pending(q))
               => RenamesOnce(Append(q, c))
<1> DEFINE r == Append(q, c)
<1>1. q \o <<c>> = Append(q, c)
  OBVIOUS
<1>2. /\ r \in Seq(Command) /\ Len(r) = Len(q) + 1 /\ r[Len(q) + 1] = c
      /\ DOMAIN q = 1 .. Len(q) /\ DOMAIN r = 1 .. Len(q) + 1
      /\ \A i \in 1 .. Len(q) : r[i] = q[i]
      /\ r # <<>> /\ Len(q) \in Nat
  OBVIOUS
<1> HIDE DEF r
<1>3. Renames(r) = Renames(q) \cup (IF c.op = "rename" THEN {Len(q) + 1} ELSE {})
  BY <1>2 DEF Renames
<1>4. \A i \in Renames(q) : i \in 1 .. Len(q) /\ r[i] = q[i] /\ i # Len(q) + 1
  BY <1>2 DEF Renames
<1>5. c.op # "rename" => Pending(r) = Pending(q)
  BY <1>3, <1>4 DEF Pending
<1>6. c.op = "rename" => Pending(r) = Pending(q) \cup {c.slice}
  BY <1>2, <1>3, <1>4 DEF Pending
<1>7. ASSUME RenamesOnce(q), c.op = "rename" => c.slice \notin Pending(q)
      PROVE  RenamesOnce(r)
  BY <1>2, <1>3, <1>4, <1>7 DEF RenamesOnce, Pending
<1> QED BY <1>1, <1>2, <1>5, <1>6, <1>7 DEF r

(* Executing the oldest command takes its slice out of the pending ones. *)
LEMMA Executed ==
  ASSUME NEW q \in Seq(Command), q # <<>>, RenamesOnce(q)
  PROVE  /\ Head(q) \in Command /\ Tail(q) \in Seq(Command) /\ RenamesOnce(Tail(q))
         /\ Head(q).op # "rename" => Pending(Tail(q)) = Pending(q)
         /\ Head(q).op = "rename" =>
               /\ Head(q).slice \in Pending(q)
               /\ Pending(Tail(q)) = Pending(q) \ {Head(q).slice}
         /\ Tail(q) # <<>> => Tail(q)[Len(Tail(q))] = q[Len(q)]
         /\ Tail(q) = <<>> => Head(q) = q[Len(q)]
<1> DEFINE r == Tail(q)
<1>1. /\ r \in Seq(Command) /\ Len(r) = Len(q) - 1 /\ Len(q) \in Nat \ {0}
      /\ DOMAIN q = 1 .. Len(q) /\ DOMAIN r = 1 .. Len(q) - 1
      /\ \A i \in 1 .. Len(q) - 1 : r[i] = q[i + 1]
      /\ Head(q) = q[1] /\ Head(q) \in Command
  OBVIOUS
<1>0. r = <<>> <=> Len(r) = 0
  BY <1>1, EmptySeq
<1> HIDE DEF r
<1>2. \A i \in Renames(r) : i + 1 \in Renames(q) /\ r[i] = q[i + 1] /\ i \in Nat
  BY <1>1 DEF Renames
<1>3. \A i \in Renames(q) : i = 1 \/ (i - 1 \in Renames(r) /\ r[i - 1] = q[i])
  BY <1>1 DEF Renames
<1>4. RenamesOnce(r)
  <2> SUFFICES ASSUME NEW i \in Renames(r), NEW j \in Renames(r), r[i].slice = r[j].slice
               PROVE  i = j
    BY DEF RenamesOnce
  <2>1. i + 1 = j + 1
    BY <1>2 DEF RenamesOnce
  <2> QED BY <2>1, <1>2
<1>5. 1 \in Renames(q) <=> Head(q).op = "rename"
  BY <1>1 DEF Renames
<1>6. Head(q).op # "rename" => Pending(r) = Pending(q)
  BY <1>2, <1>3, <1>5 DEF Pending
<1>7. ASSUME Head(q).op = "rename"
      PROVE  /\ Head(q).slice \in Pending(q)
             /\ Pending(r) = Pending(q) \ {Head(q).slice}
  <2>1. Head(q).slice \in Pending(q) /\ 1 \in Renames(q)
    BY <1>1, <1>5, <1>7 DEF Pending
  <2>2. \A i \in Renames(r) : r[i].slice # Head(q).slice
    <3> TAKE i \in Renames(r)
    <3>1. i + 1 # 1 /\ i + 1 \in Renames(q) /\ r[i] = q[i + 1]
      BY <1>2, <1>1 DEF Renames
    <3> QED BY <3>1, <2>1, <1>1 DEF RenamesOnce
  <2>3. ASSUME NEW s \in Pending(r) PROVE s \in Pending(q) /\ s # Head(q).slice
    BY <2>2, <2>3, <1>2 DEF Pending
  <2>4. ASSUME NEW s \in Pending(q), s # Head(q).slice PROVE s \in Pending(r)
    <3>1. PICK i \in Renames(q) : s = q[i].slice
      BY <2>4 DEF Pending
    <3>2. i # 1
      BY <3>1, <2>4, <1>1
    <3> QED BY <3>1, <3>2, <1>3 DEF Pending
  <2> QED BY <2>1, <2>3, <2>4
<1>8. /\ r # <<>> => r[Len(r)] = q[Len(q)]
      /\ r = <<>> => Head(q) = q[Len(q)]
  BY <1>0, <1>1
<1> QED BY <1>1, <1>4, <1>6, <1>7, <1>8 DEF r

(* A command list that is executed adds its commands to those of the stream. *)
LEMMA Joined ==
  ASSUME NEW q \in Seq(Command), NEW r \in Seq(Command)
  PROVE  /\ q \o r \in Seq(Command)
         /\ Pending(q \o r) = Pending(q) \cup Pending(r)
         /\ RenamesOnce(q) /\ RenamesOnce(r) /\ Pending(q) \cap Pending(r) = {}
               => RenamesOnce(q \o r)
<1> DEFINE t == q \o r
<1>1. /\ t \in Seq(Command) /\ Len(t) = Len(q) + Len(r)
      /\ Len(q) \in Nat /\ Len(r) \in Nat
      /\ DOMAIN q = 1 .. Len(q) /\ DOMAIN r = 1 .. Len(r) /\ DOMAIN t = 1 .. Len(q) + Len(r)
      /\ \A i \in 1 .. Len(q) : t[i] = q[i]
      /\ \A i \in Len(q) + 1 .. Len(q) + Len(r) : t[i] = r[i - Len(q)]
  OBVIOUS
<1> HIDE DEF t
<1>2. \A i \in Renames(q) : i \in Renames(t) /\ t[i] = q[i]
  BY <1>1 DEF Renames
<1>3. \A i \in Renames(r) : i + Len(q) \in Renames(t) /\ t[i + Len(q)] = r[i]
  BY <1>1 DEF Renames
<1>4. \A i \in Renames(t) : \/ i \in Renames(q) /\ t[i] = q[i] /\ i <= Len(q)
                            \/ i - Len(q) \in Renames(r) /\ t[i] = r[i - Len(q)] /\ i > Len(q)
  BY <1>1 DEF Renames
<1>5. Pending(t) = Pending(q) \cup Pending(r)
  BY <1>2, <1>3, <1>4 DEF Pending
<1>6. ASSUME RenamesOnce(q), RenamesOnce(r), Pending(q) \cap Pending(r) = {}
      PROVE  RenamesOnce(t)
  <2> SUFFICES ASSUME NEW i \in Renames(t), NEW j \in Renames(t), t[i].slice = t[j].slice
               PROVE  i = j
    BY DEF RenamesOnce
  <2>1. i \in Int /\ j \in Int
    BY <1>1 DEF Renames
  <2>2. CASE i \in Renames(q) /\ t[i] = q[i] /\ j \in Renames(q) /\ t[j] = q[j]
    BY <1>6, <2>2 DEF RenamesOnce
  <2>3. CASE /\ i - Len(q) \in Renames(r) /\ t[i] = r[i - Len(q)]
             /\ j - Len(q) \in Renames(r) /\ t[j] = r[j - Len(q)]
    <3>1. i - Len(q) = j - Len(q)
      BY <1>6, <2>3 DEF RenamesOnce
    <3> QED BY <3>1, <2>1, <1>1
  <2>4. CASE \/ i \in Renames(q) /\ t[i] = q[i] /\ j - Len(q) \in Renames(r) /\ t[j] = r[j - Len(q)]
             \/ j \in Renames(q) /\ t[j] = q[j] /\ i - Len(q) \in Renames(r) /\ t[i] = r[i - Len(q)]
    BY <1>6, <2>4 DEF Pending
  <2> QED BY <1>4, <2>2, <2>3, <2>4
<1> QED BY <1>1, <1>5, <1>6 DEF t
-----------------------------------------------------------------------------
(* Sequences of command lists *)

FreedBy(ls)    == UNION {ls[i].frees : i \in DOMAIN ls}
FreesApart(ls) == \A i, j \in DOMAIN ls : i # j => ls[i].frees \cap ls[j].frees = {}

LEMMA FreesApartDisjoint ==
  ASSUME NEW ls
  PROVE  Disjoint([i \in DOMAIN ls |-> ls[i].frees]) <=> FreesApart(ls)
  BY DEF Disjoint, FreesApart

LEMMA CmdListFields ==
  ASSUME NEW l \in CmdList
  PROVE  /\ l.uses \in SUBSET Slices /\ l.frees \in SUBSET Slices /\ l.tracked \in BOOLEAN
         /\ l.phase \in {"recorded", "issued", "executed"}
  BY DEF CmdList

(* Submitting a list. *)
LEMMA Submitted ==
  ASSUME NEW ls \in Seq(CmdList), NEW l \in CmdList
  PROVE  LET r == Append(ls, l) IN
         /\ r \in Seq(CmdList) /\ Len(r) = Len(ls) + 1 /\ r[Len(ls) + 1] = l
         /\ Len(ls) \in Nat /\ DOMAIN ls = 1 .. Len(ls) /\ DOMAIN r = 1 .. Len(ls) + 1
         /\ \A i \in 1 .. Len(ls) : r[i] = ls[i]
         /\ FreedBy(r) = FreedBy(ls) \cup l.frees
         /\ FreesApart(ls) /\ FreedBy(ls) \cap l.frees = {} => FreesApart(r)
<1> DEFINE r == Append(ls, l)
<1>1. /\ r \in Seq(CmdList) /\ Len(r) = Len(ls) + 1 /\ r[Len(ls) + 1] = l
      /\ Len(ls) \in Nat /\ DOMAIN ls = 1 .. Len(ls) /\ DOMAIN r = 1 .. Len(ls) + 1
      /\ \A i \in 1 .. Len(ls) : r[i] = ls[i]
  OBVIOUS
<1> HIDE DEF r
<1>2. FreedBy(r) = FreedBy(ls) \cup l.frees
  <2>1. \A x : x \in FreedBy(r) <=> \E i \in 1 .. Len(ls) + 1 : x \in r[i].frees
    BY <1>1 DEF FreedBy
  <2>2. \A x : x \in FreedBy(ls) <=> \E i \in 1 .. Len(ls) : x \in ls[i].frees
    BY <1>1 DEF FreedBy
  <2> QED BY <2>1, <2>2, <1>1
<1>3. ASSUME FreesApart(ls), FreedBy(ls) \cap l.frees = {} PROVE FreesApart(r)
  <2>1. \A i \in 1 .. Len(ls) : ls[i].frees \cap l.frees = {}
    BY <1>1, <1>3 DEF FreedBy
  <2> QED BY <2>1, <1>1, <1>3 DEF FreesApart
<1> QED BY <1>1, <1>2, <1>3 DEF r

(* A list leaves. *)
LEMMA Removed ==
  ASSUME lists \in Seq(CmdList), NEW k \in DOMAIN lists
  PROVE  LET r == Without(k) IN
         /\ r \in Seq(CmdList) /\ Len(r) = Len(lists) - 1
         /\ Len(lists) \in Nat \ {0} /\ DOMAIN lists = 1 .. Len(lists) /\ DOMAIN r = 1 .. Len(lists) - 1
         /\ \A i \in DOMAIN r : r[i] = IF i < k THEN lists[i] ELSE lists[i + 1]
         /\ FreedBy(r) \subseteq FreedBy(lists) /\ lists[k].frees \subseteq FreedBy(lists)
         /\ FreesApart(lists) => FreesApart(r) /\ FreedBy(r) \cap lists[k].frees = {}
<1> DEFINE r == Without(k)
<1>1. Len(lists) \in Nat \ {0} /\ DOMAIN lists = 1 .. Len(lists) /\ k \in 1 .. Len(lists)
  OBVIOUS
<1>2. /\ DOMAIN r = 1 .. Len(lists) - 1
      /\ \A i \in 1 .. Len(lists) - 1 : r[i] = IF i < k THEN lists[i] ELSE lists[i + 1]
  BY <1>1 DEF Without
<1>3. r \in Seq(CmdList) /\ Len(r) = Len(lists) - 1
  <2>1. r \in [1 .. Len(lists) - 1 -> CmdList]
    BY <1>1 DEF Without
  <2>2. Len(lists) - 1 \in Nat
    BY <1>1
  <2>3. r \in Seq(CmdList)
    BY <2>1, <2>2
  <2> QED BY <2>2, <2>3, <1>2, LenProperties
<1> HIDE DEF r
<1>4. \A i \in DOMAIN r : \E j \in DOMAIN lists : j # k /\ r[i] = lists[j] /\ j = IF i < k THEN i ELSE i + 1
  BY <1>1, <1>2
<1>5. FreedBy(r) \subseteq FreedBy(lists)
  BY <1>4 DEF FreedBy
<1>6. lists[k].frees \subseteq FreedBy(lists)
  BY DEF FreedBy
<1>7. ASSUME FreesApart(lists) PROVE FreesApart(r)
  <2> SUFFICES ASSUME NEW i \in DOMAIN r, NEW j \in DOMAIN r, i # j
               PROVE  r[i].frees \cap r[j].frees = {}
    BY DEF FreesApart
  <2>1. PICK m \in DOMAIN lists : r[i] = lists[m] /\ m = IF i < k THEN i ELSE i + 1
    BY <1>4
  <2>2. PICK n \in DOMAIN lists : r[j] = lists[n] /\ n = IF j < k THEN j ELSE j + 1
    BY <1>4
  <2>3. m # n
    BY <2>1, <2>2, <1>1, <1>2
  <2> QED BY <2>1, <2>2, <2>3, <1>7 DEF FreesApart
<1>8. ASSUME FreesApart(lists) PROVE FreedBy(r) \cap lists[k].frees = {}
  BY <1>4, <1>8 DEF FreesApart, FreedBy
<1> QED BY <1>1, <1>2, <1>3, <1>5, <1>6, <1>7, <1>8 DEF r

LEMMA TailIsWithout ==
  ASSUME lists \in Seq(CmdList), lists # <<>>
  PROVE  Tail(lists) = Without(1) /\ 1 \in DOMAIN lists
<1>1. /\ Tail(lists) \in Seq(CmdList) /\ Len(Tail(lists)) = Len(lists) - 1
      /\ Len(lists) \in Nat \ {0}
      /\ \A i \in 1 .. Len(lists) - 1 : Tail(lists)[i] = lists[i + 1]
  BY HeadTailProperties, EmptySeq
<1>2. 1 \in DOMAIN lists
  BY <1>1
<1>3. /\ Without(1) \in Seq(CmdList) /\ Len(Without(1)) = Len(lists) - 1
      /\ \A i \in 1 .. Len(lists) - 1 : Without(1)[i] = lists[i + 1]
  <2>1. /\ Without(1) \in Seq(CmdList) /\ Len(Without(1)) = Len(lists) - 1
        /\ DOMAIN Without(1) = 1 .. Len(lists) - 1
        /\ \A i \in DOMAIN Without(1) : Without(1)[i] = IF i < 1 THEN lists[i] ELSE lists[i + 1]
    BY <1>2, Removed
  <2> QED BY <2>1, <1>1
<1> QED BY <1>1, <1>2, <1>3, SeqEqual

(* A list that advances keeps the slices it returns. *)
WithList(ls, k, l) == [ls EXCEPT ![k] = l]

LEMMA Advanced ==
  ASSUME NEW ls \in Seq(CmdList), NEW k \in DOMAIN ls, NEW l \in CmdList, l.frees = ls[k].frees
  PROVE  LET r == WithList(ls, k, l) IN
         /\ r \in Seq(CmdList) /\ DOMAIN r = DOMAIN ls /\ Len(r) = Len(ls)
         /\ \A i \in DOMAIN ls : r[i] = IF i = k THEN l ELSE ls[i]
         /\ FreedBy(r) = FreedBy(ls)
         /\ FreesApart(ls) => FreesApart(r)
<1> DEFINE r == WithList(ls, k, l)
<1>1. /\ r \in Seq(CmdList) /\ DOMAIN r = DOMAIN ls /\ Len(r) = Len(ls)
      /\ \A i \in DOMAIN ls : r[i] = IF i = k THEN l ELSE ls[i]
  BY DEF WithList
<1> HIDE DEF r
<1>2. \A i \in DOMAIN ls : r[i].frees = ls[i].frees
  BY <1>1
<1>3. FreedBy(r) = FreedBy(ls)
  BY <1>1, <1>2 DEF FreedBy
<1>4. FreesApart(ls) => FreesApart(r)
  BY <1>1, <1>2 DEF FreesApart
<1> QED BY <1>1, <1>3, <1>4 DEF r
-----------------------------------------------------------------------------
(* Pools, lists and types *)

(* A slice that is allocated leaves the pools. *)
LEMMA Allocated ==
  ASSUME fresh \in SUBSET Slices, freeSlices \in SUBSET Slices, nextSlices \in SUBSET Slices,
         sliceCount \in 1 .. MaxCount, NEW s, AllocSlice(s)
  PROVE  /\ fresh' \in SUBSET Slices /\ freeSlices' \in SUBSET Slices
         /\ nextSlices' \in SUBSET Slices /\ sliceCount' \in 1 .. MaxCount
         /\ s \in Pool /\ s \in Slices /\ Pool' \subseteq Pool
         /\ PoolsApart => PoolsApart' /\ s \notin Pool'
<1>1. CASE TakeFree(s)
  BY <1>1 DEF TakeFree, Pool, PoolsApart
<1>2. CASE SwapLists(s)
  BY <1>2 DEF SwapLists, Pool, PoolsApart
<1>3. CASE AllocBuffer(s)
  <2>1. PICK batch \in SUBSET fresh :
          /\ s \in batch /\ freeSlices' = batch \ {s} /\ fresh' = fresh \ batch
    BY <1>3 DEF AllocBuffer
  <2>2. sliceCount' \in 1 .. MaxCount
    BY <1>3, SlicesAssumption DEF AllocBuffer
  <2>3. nextSlices' = nextSlices
    BY <1>3 DEF AllocBuffer
  <2> QED BY <2>1, <2>2, <2>3 DEF Pool, PoolsApart
<1> QED BY <1>1, <1>2, <1>3 DEF AllocSlice

LEMMA EmptyIsList == EmptyList \in CmdList
  BY DEF EmptyList, CmdList

(* vkQueueSubmit for the oldest recorded list. *)
LEMMA Issued ==
  ASSUME lists \in Seq(CmdList), Issue
  PROVE  \E k \in DOMAIN lists :
         /\ FirstIn("recorded", k)
         /\ lists' \in Seq(CmdList) /\ DOMAIN lists' = DOMAIN lists /\ Len(lists') = Len(lists)
         /\ FreedBy(lists') = FreedBy(lists) /\ (FreesApart(lists) => FreesApart(lists'))
         /\ \A i \in DOMAIN lists :
               /\ lists'[i].frees = lists[i].frees
               /\ lists'[i].uses = lists[i].uses
               /\ lists'[i].tracked = lists[i].tracked
               /\ lists'[i].phase = IF i = k THEN "issued" ELSE lists[i].phase
<1>1. PICK k \in DOMAIN lists : FirstIn("recorded", k) /\ lists' = [lists EXCEPT ![k] = [lists[k] EXCEPT !.phase = "issued"]]
  BY DEF Issue
<1> DEFINE l == [lists[k] EXCEPT !.phase = "issued"]
<1>2. lists[k] \in CmdList
  OBVIOUS
<1>3. l \in CmdList /\ l.frees = lists[k].frees
  BY <1>2 DEF CmdList
<1>4. /\ l.uses = lists[k].uses
      /\ l.tracked = lists[k].tracked
      /\ l.phase = "issued"
  BY <1>2 DEF CmdList
<1>5. lists' = WithList(lists, k, l)
  BY <1>1 DEF WithList
<1> HIDE DEF l
<1>6. /\ lists' \in Seq(CmdList) /\ DOMAIN lists' = DOMAIN lists /\ Len(lists') = Len(lists)
      /\ \A i \in DOMAIN lists : lists'[i] = IF i = k THEN l ELSE lists[i]
      /\ FreedBy(lists') = FreedBy(lists) /\ (FreesApart(lists) => FreesApart(lists'))
  BY <1>3, <1>5, Advanced
<1> QED BY <1>1, <1>3, <1>4, <1>6

(* The GPU is done with the oldest list it was given. *)
LEMMA GpuExecuted ==
  ASSUME lists \in Seq(CmdList), GpuExecutes
  PROVE  \E k \in DOMAIN lists :
         /\ FirstIn("issued", k)
         /\ lists' \in Seq(CmdList) /\ DOMAIN lists' = DOMAIN lists /\ Len(lists') = Len(lists)
         /\ FreedBy(lists') = FreedBy(lists) /\ (FreesApart(lists) => FreesApart(lists'))
         /\ \A i \in DOMAIN lists :
               /\ lists'[i].frees = lists[i].frees
               /\ lists'[i].uses = IF i = k THEN {} ELSE lists[i].uses
               /\ lists'[i].tracked = lists[i].tracked
               /\ lists'[i].phase = IF i = k THEN "executed" ELSE lists[i].phase
<1>1. PICK k \in DOMAIN lists : FirstIn("issued", k) /\ lists' = [lists EXCEPT ![k] = [lists[k] EXCEPT !.phase = "executed", !.uses = {}]]
  BY DEF GpuExecutes
<1> DEFINE l == [lists[k] EXCEPT !.phase = "executed", !.uses = {}]
<1>2. lists[k] \in CmdList
  OBVIOUS
<1>3. l \in CmdList /\ l.frees = lists[k].frees
  BY <1>2 DEF CmdList
<1>4. /\ l.uses = {}
      /\ l.tracked = lists[k].tracked
      /\ l.phase = "executed"
  BY <1>2 DEF CmdList
<1>5. lists' = WithList(lists, k, l)
  BY <1>1 DEF WithList
<1> HIDE DEF l
<1>6. /\ lists' \in Seq(CmdList) /\ DOMAIN lists' = DOMAIN lists /\ Len(lists') = Len(lists)
      /\ \A i \in DOMAIN lists : lists'[i] = IF i = k THEN l ELSE lists[i]
      /\ FreedBy(lists') = FreedBy(lists) /\ (FreesApart(lists) => FreesApart(lists'))
  BY <1>3, <1>5, Advanced
<1> QED BY <1>1, <1>3, <1>4, <1>6

(* The finish thread drops the uses of a list. *)
LEMMA Released ==
  ASSUME lists \in Seq(CmdList), ReleaseResources
  PROVE  \E k \in DOMAIN lists :
         /\ k = 1 /\ lists[k].phase = "executed"
         /\ lists' \in Seq(CmdList) /\ DOMAIN lists' = DOMAIN lists /\ Len(lists') = Len(lists)
         /\ FreedBy(lists') = FreedBy(lists) /\ (FreesApart(lists) => FreesApart(lists'))
         /\ \A i \in DOMAIN lists :
               /\ lists'[i].frees = lists[i].frees
               /\ lists'[i].uses = lists[i].uses
               /\ i # k => lists'[i].tracked = lists[i].tracked
               /\ lists'[i].phase = lists[i].phase
<1>1. PICK k \in DOMAIN lists : k = 1 /\ lists[k].phase = "executed" /\ lists' = [lists EXCEPT ![k] = [lists[k] EXCEPT !.tracked = FALSE]]
  BY TailIsWithout DEF ReleaseResources
<1> DEFINE l == [lists[k] EXCEPT !.tracked = FALSE]
<1>2. lists[k] \in CmdList
  OBVIOUS
<1>3. l \in CmdList /\ l.frees = lists[k].frees
  BY <1>2 DEF CmdList
<1>4. /\ l.uses = lists[k].uses
      /\ ~l.tracked
      /\ l.phase = lists[k].phase
  BY <1>2 DEF CmdList
<1>5. lists' = WithList(lists, k, l)
  BY <1>1 DEF WithList
<1> HIDE DEF l
<1>6. /\ lists' \in Seq(CmdList) /\ DOMAIN lists' = DOMAIN lists /\ Len(lists') = Len(lists)
      /\ \A i \in DOMAIN lists : lists'[i] = IF i = k THEN l ELSE lists[i]
      /\ FreedBy(lists') = FreedBy(lists) /\ (FreesApart(lists) => FreesApart(lists'))
  BY <1>3, <1>5, Advanced
<1> QED BY <1>1, <1>3, <1>4, <1>6

LEMMA TypeStep ==
  ASSUME TypeOK, [Next]_vars
  PROVE  TypeOK'
<1> USE DEF TypeOK
<1>1. ASSUME NEW s \in Slices, AllocSlice(s)
      PROVE  /\ fresh' \subseteq Slices /\ freeSlices' \subseteq Slices
             /\ nextSlices' \subseteq Slices /\ sliceCount' \in 1 .. MaxCount
  BY <1>1, Allocated
<1>2. ASSUME NEW commands \in Seq(Command), EmitCs(commands)
      PROVE  cs' \in Seq(Command) /\ csIsBusy' \in BOOLEAN
  BY <1>2, Joined DEF EmitCs
<1>3. ASSUME FlushCs
      PROVE  cs' \in Seq(Command) /\ csIsBusy' \in BOOLEAN
  BY <1>3, OtherCommands, Emitted DEF FlushCs, csVars
<1>4. \A c \in Command : <<c>> \in Seq(Command)
  OBVIOUS
<1>5. CASE MapDiscard
  <2>1. PICK s \in Slices : AllocSlice(s) /\ mapped' = s /\ EmitCs(<<Rename(s)>>)
    BY <1>5 DEF MapDiscard
  <2>2. cs' \in Seq(Command) /\ csIsBusy' \in BOOLEAN
    BY <2>1, <1>2, <1>4, RenameCommand
  <2> QED BY <1>5, <2>1, <2>2, <1>1 DEF MapDiscard, defVars
<1>6. CASE MapWait
  <2>1. cs' \in Seq(Command) /\ csIsBusy' \in BOOLEAN
    BY <1>6, <1>3 DEF MapWait, csVars
  <2> QED BY <1>6, <2>1 DEF MapWait, poolVars, defVars
<1>7. CASE MapReturns
  BY <1>7 DEF MapReturns, poolVars, defVars, csVars
<1>8. CASE Unmap
  BY <1>8 DEF Unmap, poolVars, defVars, csVars
<1>9. CASE DrawOrFlush
  <2>1. cs' \in Seq(Command) /\ csIsBusy' \in BOOLEAN
    BY <1>9, <1>2, <1>3, <1>4, OtherCommands DEF DrawOrFlush
  <2> QED BY <1>9, <2>1 DEF DrawOrFlush, poolVars, defVars, apiVars
<1>10. CASE ExecuteCommandList
  <2>1. cs' \in Seq(Command) /\ csIsBusy' \in BOOLEAN
    BY <1>10, <1>2 DEF ExecuteCommandList
  <2>2. finished' \in Seq(Command)
    BY <1>10 DEF ExecuteCommandList
  <2>3. foreign' \in BOOLEAN
    BY <1>10 DEF ExecuteCommandList
  <2> QED BY <1>10, <2>1, <2>2, <2>3 DEF ExecuteCommandList, poolVars
<1>11. CASE ReleaseCommandList
  <2>1. finished' \in Seq(Command)
    BY <1>11 DEF ReleaseCommandList
  <2> QED BY <1>11, <2>1 DEF ReleaseCommandList, poolVars, apiVars, csVars
<1>12. CASE DeferDiscard
  <2>1. CASE ~singleUse
    <3>1. deferred' \in Seq(Command)
      BY <1>12, <2>1, OtherCommands, Emitted DEF DeferDiscard
    <3> QED BY <1>12, <2>1, <3>1 DEF DeferDiscard, poolVars, apiVars, csVars
  <2>2. CASE singleUse
    <3>1. PICK s \in Slices : AllocSlice(s) /\ deferred' = Append(deferred, Rename(s))
      BY <1>12, <2>2 DEF DeferDiscard
    <3>2. deferred' \in Seq(Command)
      BY <3>1, RenameCommand, Emitted
    <3> QED BY <1>12, <3>1, <3>2, <1>1 DEF DeferDiscard, apiVars, csVars
  <2> QED BY <2>1, <2>2
<1>13. CASE DeferUse
  <2>1. deferred' \in Seq(Command)
    BY <1>13, OtherCommands, Emitted DEF DeferUse
  <2> QED BY <1>13, <2>1 DEF DeferUse, poolVars, apiVars, csVars
<1>14. CASE FinishCommandList
  <2>1. deferred' \in Seq(Command) /\ finished' \in Seq(Command)
    BY <1>14 DEF FinishCommandList
  <2> QED BY <1>14, <2>1 DEF FinishCommandList, poolVars, apiVars, csVars
<1>15. ASSUME NEW s \in Slices, InvalidateBuffer(s)
       PROVE  physSlice' \in Slices /\ recording' \in CmdList
  <2>1. [recording EXCEPT !.frees = @ \cup {physSlice}] \in CmdList
    BY DEF CmdList
  <2> QED BY <1>15, <2>1 DEF InvalidateBuffer
<1>16. cs # <<>> => Tail(cs) \in Seq(Command) /\ Head(cs) \in Command
  OBVIOUS
<1>17. CASE CsUse
  <2>1. recording' \in CmdList
    BY <1>17 DEF CsUse, CmdList
  <2> QED BY <1>17, <1>16, <2>1 DEF CsUse, poolVars, apiVars, defVars
<1>18. CASE CsRename
  <2>1. physSlice' \in Slices /\ recording' \in CmdList
    BY <1>18, <1>15, <1>16, Commands DEF CsRename
  <2> QED BY <1>18, <1>16, <2>1 DEF CsRename, poolVars, apiVars, defVars
<1>19. CASE CsRenew
  <2>1. PICK s \in Slices : AllocSlice(s) /\ InvalidateBuffer(s)
    BY <1>19 DEF CsRenew
  <2> QED BY <1>19, <1>1, <1>15, <1>16, <2>1 DEF CsRenew, apiVars, defVars
<1>20. CASE CsFlush
  <2>1. lists' \in Seq(CmdList) /\ recording' \in CmdList
    BY <1>20, Submitted, EmptyIsList DEF CsFlush
  <2> QED BY <1>20, <1>16, <2>1 DEF CsFlush, poolVars, apiVars, defVars
<1>21. \A k \in DOMAIN lists : lists[k] \in CmdList
  OBVIOUS
<1>22. CASE Issue
  <2>1. lists' \in Seq(CmdList)
    BY <1>22, Issued
  <2> QED BY <1>22, <2>1 DEF Issue, poolVars, apiVars, csVars, defVars
<1>23. CASE ListFails
  <2>1. PICK k \in DOMAIN lists : lists' = Without(k) /\ FreeSlices(lists[k])
    BY <1>23 DEF ListFails
  <2>2. lists' \in Seq(CmdList)
    BY <2>1, Removed
  <2>3. nextSlices' \subseteq Slices
    BY <2>1, <1>21, CmdListFields DEF FreeSlices
  <2>4. failures' \in 0 .. MaxFailures
    BY <1>23, SlicesAssumption DEF ListFails
  <2> QED BY <1>23, <2>2, <2>3, <2>4 DEF ListFails, apiVars, csVars, defVars
<1>24. CASE GpuExecutes
  <2>1. lists' \in Seq(CmdList)
    BY <1>24, GpuExecuted
  <2> QED BY <1>24, <2>1 DEF GpuExecutes, poolVars, apiVars, csVars, defVars
<1>25. CASE ReleaseResources
  <2>1. lists' \in Seq(CmdList)
    BY <1>25, Released
  <2> QED BY <1>25, <2>1 DEF ReleaseResources, poolVars, apiVars, csVars, defVars
<1>26. CASE RecycleList
  <2>1. 1 \in DOMAIN lists /\ lists' \in Seq(CmdList)
    BY <1>26, TailIsWithout DEF RecycleList
  <2>2. nextSlices' \subseteq Slices
    BY <1>26, <2>1, <1>21, CmdListFields DEF RecycleList, FreeSlices
  <2> QED BY <1>26, <2>1, <2>2 DEF RecycleList, apiVars, csVars, defVars
<1>27. CASE UNCHANGED vars
  BY <1>27 DEF vars
<1> QED BY <1>5, <1>6, <1>7, <1>8, <1>9, <1>10, <1>11, <1>12, <1>13, <1>14, <1>17, <1>18, <1>19,
       <1>20, <1>22, <1>23, <1>24, <1>25, <1>26, <1>27 DEF Next

LEMMA TypeInit == Init => TypeOK
<1> SUFFICES ASSUME Init PROVE TypeOK
  OBVIOUS
<1>1. sliceCount \in 1 .. MaxCount /\ failures \in 0 .. MaxFailures
  BY SlicesAssumption DEF Init
<1>2. cs \in Seq(Command) /\ deferred \in Seq(Command) /\ finished \in Seq(Command)
      /\ lists \in Seq(CmdList)
  BY DEF Init
<1> QED BY <1>1, <1>2, EmptyIsList, SlicesAssumption DEF Init, TypeOK

(* The pools, the stream and the command lists hold slices of the buffer. *)
THEOREM TypeCorrect == Spec => []TypeOK
  BY TypeInit, TypeStep, PTL DEF Spec
-----------------------------------------------------------------------------
(* Every slice is in one place *)

Exclusive ==
    /\ PoolsApart /\ \A x : Once(x)
    /\ RenamesOnce(deferred) /\ RenamesOnce(finished) /\ RenamesOnce(cs)
    /\ FreesApart(lists)

LEMMA ExclusiveSame == SlicesExclusive <=> Exclusive
  BY HolderOnce, FreesApartDisjoint DEF SlicesExclusive, Exclusive

(* A list that may be executed again holds no slice of its own. *)
MultiUse == ~singleUse => Pending(deferred) = {} /\ Pending(finished) = {}

LEMMA FreedSame == Freed = FreedBy(lists)
  BY DEF Freed, FreedBy

LEMMA NothingPending == Pending(<<>>) = {} /\ RenamesOnce(<<>>)
  BY DEF Pending, Renames, RenamesOnce

LEMMA ExclusiveStep ==
  ASSUME TypeOK, Exclusive, MultiUse, [Next]_vars
  PROVE  Exclusive' /\ MultiUse'
<1> USE DEF Exclusive, MultiUse
<1>0. /\ cs \in Seq(Command) /\ deferred \in Seq(Command) /\ finished \in Seq(Command)
      /\ lists \in Seq(CmdList) /\ recording \in CmdList /\ physSlice \in Slices
      /\ fresh \in SUBSET Slices /\ freeSlices \in SUBSET Slices /\ nextSlices \in SUBSET Slices
      /\ sliceCount \in 1 .. MaxCount
  BY DEF TypeOK
<1>1. CASE MapDiscard
  <2>1. PICK s \in Slices : AllocSlice(s) /\ mapped' = s /\ EmitCs(<<Rename(s)>>)
    BY <1>1 DEF MapDiscard
  <2>2. s \in Pool /\ Pool' \subseteq Pool /\ PoolsApart' /\ s \notin Pool'
    BY <1>0, <2>1, Allocated
  <2>3. cs' = Append(cs, Rename(s))
    BY <1>0, <2>1, RenameCommand, Emitted DEF EmitCs
  <2>4. s \notin Pending(cs)
    BY <2>2 DEF Once
  <2>5. Pending(cs') = Pending(cs) \cup {s} /\ RenamesOnce(cs')
    BY <1>0, <2>3, <2>4, RenameCommand, Emitted
  <2>6. UNCHANGED <<physSlice, recording, lists, singleUse, deferred, finished>>
    BY <1>1 DEF MapDiscard, defVars
  <2> QED BY <2>2, <2>5, <2>6 DEF Once, Freed
<1>2. ASSUME FlushCs \/ EmitCs(<<Use>>)
      PROVE  Pending(cs') = Pending(cs) /\ RenamesOnce(cs')
  <2>1. ASSUME NEW c \in {Use, Flush}
        PROVE  /\ cs \o <<c>> = Append(cs, c) /\ RenamesOnce(Append(cs, c))
               /\ Pending(Append(cs, c)) = Pending(cs)
    <3>1. c \in Command /\ c.op # "rename"
      BY OtherCommands
    <3> QED BY <1>0, <3>1, Emitted
  <2>2. cs' = Append(cs, Flush) \/ cs' = cs \/ cs' = cs \o <<Use>>
    BY <1>2 DEF FlushCs, EmitCs, csVars
  <2> QED BY <2>1, <2>2
<1>3. ASSUME UNCHANGED <<poolVars, physSlice, recording, lists, singleUse, defVars>>,
             Pending(cs') = Pending(cs), RenamesOnce(cs')
      PROVE  Exclusive' /\ MultiUse'
  BY <1>3 DEF poolVars, defVars, Pool, PoolsApart, Once, Freed
<1>4. CASE MapWait
  BY <1>2, <1>3, <1>4 DEF MapWait, csVars
<1>5. CASE MapReturns
  BY <1>3, <1>5 DEF MapReturns, csVars
<1>6. CASE Unmap
  BY <1>3, <1>6 DEF Unmap, csVars
<1>7. CASE DrawOrFlush
  BY <1>2, <1>3, <1>7 DEF DrawOrFlush
<1>8. CASE ExecuteCommandList
  <2>1. Pending(cs') = Pending(cs) \cup Pending(finished) /\ RenamesOnce(cs')
    <3>1. Pending(cs) \cap Pending(finished) = {}
      BY DEF Once
    <3>2. cs' = cs \o finished
      BY <1>8 DEF ExecuteCommandList, EmitCs
    <3> QED BY <1>0, <3>1, <3>2, Joined
  <2>2. Pending(finished') = {} /\ RenamesOnce(finished')
    BY <1>8, NothingPending DEF ExecuteCommandList
  <2>3. UNCHANGED <<poolVars, physSlice, recording, lists, singleUse, deferred>>
    BY <1>8 DEF ExecuteCommandList
  <2> QED BY <2>1, <2>2, <2>3 DEF poolVars, Pool, PoolsApart, Once, Freed
<1>9. CASE ReleaseCommandList
  <2>1. Pending(finished') = {} /\ RenamesOnce(finished')
    BY <1>9, NothingPending DEF ReleaseCommandList
  <2>2. UNCHANGED <<poolVars, physSlice, csVars, recording, lists, singleUse, deferred>>
    BY <1>9 DEF ReleaseCommandList
  <2> QED BY <2>1, <2>2 DEF poolVars, csVars, Pool, PoolsApart, Once, Freed
<1>10. CASE DeferDiscard /\ singleUse
  <2>1. PICK s \in Slices : AllocSlice(s) /\ deferred' = Append(deferred, Rename(s))
    BY <1>10 DEF DeferDiscard
  <2>2. s \in Pool /\ Pool' \subseteq Pool /\ PoolsApart' /\ s \notin Pool'
    BY <1>0, <2>1, Allocated
  <2>3. s \notin Pending(deferred)
    BY <2>2 DEF Once
  <2>4. Pending(deferred') = Pending(deferred) \cup {s} /\ RenamesOnce(deferred')
    BY <1>0, <2>1, <2>3, RenameCommand, Emitted
  <2>5. UNCHANGED <<physSlice, csVars, recording, lists, singleUse, finished>>
    BY <1>10 DEF DeferDiscard
  <2> QED BY <1>10, <2>2, <2>4, <2>5 DEF Once, Freed, csVars
<1>11. ASSUME NEW c \in Command, c.op # "rename", deferred' = Append(deferred, c),
              UNCHANGED <<poolVars, physSlice, csVars, recording, lists, singleUse, finished>>
       PROVE  Exclusive' /\ MultiUse'
  <2>1. Pending(deferred') = Pending(deferred) /\ RenamesOnce(deferred')
    BY <1>0, <1>11, Emitted
  <2> QED BY <1>11, <2>1 DEF poolVars, csVars, Pool, PoolsApart, Once, Freed
<1>12. CASE DeferDiscard /\ ~singleUse
  BY <1>11, <1>12, OtherCommands DEF DeferDiscard
<1>13. CASE DeferUse
  BY <1>11, <1>13, OtherCommands DEF DeferUse
<1>14. CASE FinishCommandList
  <2>1. /\ Pending(deferred') = {} /\ RenamesOnce(deferred')
        /\ Pending(finished') = Pending(deferred) /\ RenamesOnce(finished')
    BY <1>14, NothingPending DEF FinishCommandList
  <2>2. UNCHANGED <<poolVars, physSlice, csVars, recording, lists, singleUse>>
    BY <1>14 DEF FinishCommandList
  <2> QED BY <2>1, <2>2 DEF poolVars, csVars, Pool, PoolsApart, Once, Freed
<1>15. CASE CsUse
  <2>1. Pending(cs') = Pending(cs) /\ RenamesOnce(cs')
    BY <1>0, <1>15, OtherCommands, Executed DEF CsUse
  <2>2. recording'.frees = recording.frees
    BY <1>0, <1>15 DEF CsUse, CmdList
  <2>3. UNCHANGED <<poolVars, physSlice, lists, singleUse, defVars>>
    BY <1>15 DEF CsUse
  <2> QED BY <2>1, <2>2, <2>3 DEF poolVars, defVars, Pool, PoolsApart, Once, Freed
<1>16. ASSUME NEW s, InvalidateBuffer(s)
       PROVE  recording'.frees = recording.frees \cup {physSlice} /\ physSlice' = s
  BY <1>0, <1>16 DEF InvalidateBuffer, CmdList
<1>17. CASE CsRename
  <2> DEFINE s == Head(cs).slice
  <2>1. s \in Pending(cs) /\ Pending(cs') = Pending(cs) \ {s} /\ RenamesOnce(cs')
    BY <1>0, <1>17, Executed DEF CsRename
  <2>2. recording'.frees = recording.frees \cup {physSlice} /\ physSlice' = s
    BY <1>16, <1>17 DEF CsRename
  <2>3. UNCHANGED <<poolVars, lists, singleUse, defVars>>
    BY <1>17 DEF CsRename
  <2> HIDE DEF s
  <2> QED BY <2>1, <2>2, <2>3 DEF poolVars, defVars, Pool, PoolsApart, Once, Freed
<1>18. CASE CsRenew
  <2>1. PICK s \in Slices : AllocSlice(s) /\ InvalidateBuffer(s)
    BY <1>18 DEF CsRenew
  <2>2. s \in Pool /\ Pool' \subseteq Pool /\ PoolsApart' /\ s \notin Pool'
    BY <1>0, <2>1, Allocated
  <2>3. recording'.frees = recording.frees \cup {physSlice} /\ physSlice' = s
    BY <1>16, <2>1
  <2>4. Pending(cs') = Pending(cs) /\ RenamesOnce(cs')
    BY <1>0, <1>18, OtherCommands, Executed DEF CsRenew
  <2>5. UNCHANGED <<lists, singleUse, defVars>>
    BY <1>18 DEF CsRenew
  <2> QED BY <2>2, <2>3, <2>4, <2>5 DEF defVars, Once, Freed
<1>19. CASE CsFlush
  <2>1. Pending(cs') = Pending(cs) /\ RenamesOnce(cs')
    BY <1>0, <1>19, OtherCommands, Executed DEF CsFlush
  <2>2. FreedBy(lists) \cap recording.frees = {}
    BY FreedSame DEF Once
  <2>3. FreesApart(lists') /\ FreedBy(lists') = FreedBy(lists) \cup recording.frees
    BY <1>0, <1>19, <2>2, Submitted DEF CsFlush
  <2>4. recording'.frees = {}
    BY <1>19 DEF CsFlush, EmptyList
  <2>5. UNCHANGED <<poolVars, physSlice, singleUse, defVars>>
    BY <1>19 DEF CsFlush
  <2>6. Freed' = Freed \cup recording.frees
    BY <2>3 DEF Freed, FreedBy
  <2> QED BY <2>1, <2>3, <2>4, <2>5, <2>6 DEF poolVars, defVars, Pool, PoolsApart, Once
<1>20. ASSUME UNCHANGED <<poolVars, physSlice, csVars, recording, singleUse, defVars>>,
              FreesApart(lists'), FreedBy(lists') = FreedBy(lists)
       PROVE  Exclusive' /\ MultiUse'
  <2>1. Freed' = Freed
    BY <1>20 DEF Freed, FreedBy
  <2> QED BY <1>20, <2>1 DEF poolVars, csVars, defVars, Pool, PoolsApart, Once
<1>21. CASE Issue
  BY <1>0, <1>20, <1>21, Issued DEF Issue
<1>22. CASE GpuExecutes
  BY <1>0, <1>20, <1>22, GpuExecuted DEF GpuExecutes
<1>23. CASE ReleaseResources
  BY <1>0, <1>20, <1>23, Released DEF ReleaseResources
<1>24. ASSUME NEW k \in DOMAIN lists, lists' = Without(k), FreeSlices(lists[k]),
              UNCHANGED <<fresh, freeSlices, physSlice, csVars, recording, singleUse, defVars>>
       PROVE  Exclusive' /\ MultiUse'
  <2>1. /\ FreesApart(lists') /\ FreedBy(lists') \cap lists[k].frees = {}
        /\ FreedBy(lists') \subseteq FreedBy(lists) /\ lists[k].frees \subseteq FreedBy(lists)
    BY <1>0, <1>24, Removed
  <2>2. Freed = FreedBy(lists) /\ Freed' = FreedBy(lists')
    BY DEF Freed, FreedBy
  <2>3. nextSlices' = nextSlices \cup lists[k].frees
    BY <1>24 DEF FreeSlices
  <2>4. PoolsApart'
    BY <1>24, <2>1, <2>2, <2>3 DEF PoolsApart, Pool, Once
  <2> QED BY <1>24, <2>1, <2>2, <2>3, <2>4 DEF csVars, defVars, Pool, Once
<1>25. CASE ListFails
  BY <1>24, <1>25 DEF ListFails
<1>26. CASE RecycleList
  BY <1>0, <1>24, <1>26, TailIsWithout DEF RecycleList
<1>27. CASE UNCHANGED vars
  BY <1>3, <1>27 DEF vars, poolVars, defVars
<1> QED BY <1>1, <1>4, <1>5, <1>6, <1>7, <1>8, <1>9, <1>10, <1>12, <1>13, <1>14, <1>15, <1>17,
       <1>18, <1>19, <1>21, <1>22, <1>23, <1>25, <1>26, <1>27 DEF Next

LEMMA ExclusiveInit == Init => Exclusive /\ MultiUse
<1> SUFFICES ASSUME Init PROVE Exclusive /\ MultiUse
  OBVIOUS
<1>1. /\ Pending(cs) = {} /\ Pending(deferred) = {} /\ Pending(finished) = {}
      /\ RenamesOnce(cs) /\ RenamesOnce(deferred) /\ RenamesOnce(finished)
  BY NothingPending DEF Init
<1>2. Freed = {} /\ FreesApart(lists)
  BY DEF Init, Freed, FreesApart
<1>3. recording.frees = {} /\ Pool = Slices \ {physSlice} /\ PoolsApart
  BY DEF Init, EmptyList, Pool, PoolsApart
<1> QED BY <1>1, <1>2, <1>3 DEF Exclusive, MultiUse, Once

(* Every slice is in one place, whatever threads allocate, rename and free  *)
(* and whichever lists fail.                                               *)
THEOREM SlicesAreExclusive == Spec => []SlicesExclusive
<1>1. TypeOK /\ (Exclusive /\ MultiUse) /\ [Next]_vars => (Exclusive /\ MultiUse)'
  BY ExclusiveStep
<1>2. Exclusive => SlicesExclusive
  BY ExclusiveSame
<1> QED BY ExclusiveInit, TypeCorrect, <1>1, <1>2, PTL DEF Spec
-----------------------------------------------------------------------------
(* No slice is reused while it is needed *)

(* Submission and completion keep the order of the lists. *)
InOrder ==
    \A i, j \in DOMAIN lists : i < j =>
        /\ lists[i].phase = "recorded" => lists[j].phase = "recorded"
        /\ lists[j].phase = "executed" => lists[i].phase = "executed"

(* What accesses the buffer keeps it in use, until the GPU is done. *)
UsesTracked ==
    /\ recording.phase = "recorded" /\ (recording.uses # {} => recording.tracked)
    /\ \A i \in DOMAIN lists :
          /\ lists[i].uses # {} => lists[i].tracked
          /\ lists[i].phase = "executed" => lists[i].uses = {}

(* A slice that a list accesses is the current one, or it was replaced by   *)
(* that list, by a later one or by the list being recorded: whoever returns  *)
(* it retires no earlier than the list that accesses it.                     *)
Covered == failures = 0 =>
    /\ \A s \in recording.uses : s = physSlice \/ s \in recording.frees
    /\ \A i \in DOMAIN lists : \A s \in lists[i].uses :
          \/ s = physSlice \/ s \in recording.frees
          \/ \E j \in DOMAIN lists : i <= j /\ s \in lists[j].frees

Reuse == InOrder /\ UsesTracked /\ Covered

LEMMA ReuseImplied ==
  ASSUME Exclusive, Covered
  PROVE  SafeReuse
<1> SUFFICES ASSUME failures = 0, NEW s \in Handed, s \in Busy PROVE FALSE
  BY DEF SafeReuse, FreeSlicesIdle
<1>1. s = physSlice \/ s \in recording.frees \/ s \in Freed
  BY DEF Covered, Busy, Freed
<1>2. s \in Pool \cup Pending(deferred) \cup Pending(finished) \cup Pending(cs)
  BY DEF Handed, Pool
<1> QED BY <1>1, <1>2 DEF Exclusive, Once

LEMMA ReuseStep ==
  ASSUME TypeOK, Reuse, [Next]_vars
  PROVE  Reuse'
<1> USE DEF Reuse
<1>0. /\ lists \in Seq(CmdList) /\ recording \in CmdList /\ failures \in Nat
      /\ lists # <<>> => 1 \in DOMAIN lists
  BY TailIsWithout DEF TypeOK
<1>1. ASSUME UNCHANGED <<physSlice, recording, lists, failures>>
      PROVE  Reuse'
  BY <1>1 DEF InOrder, UsesTracked, Covered
<1>2. CASE MapDiscard \/ MapWait \/ MapReturns \/ Unmap \/ DrawOrFlush \/ ExecuteCommandList
           \/ ReleaseCommandList \/ DeferDiscard \/ DeferUse \/ FinishCommandList
  BY <1>1, <1>2 DEF MapDiscard, MapWait, MapReturns, Unmap, DrawOrFlush, ExecuteCommandList,
       ReleaseCommandList, DeferDiscard, DeferUse, FinishCommandList
<1>3. CASE CsUse
  <2>1. /\ recording'.uses = recording.uses \cup {physSlice} /\ recording'.tracked = TRUE
        /\ recording'.frees = recording.frees /\ recording'.phase = recording.phase
    BY <1>0, <1>3 DEF CsUse, CmdList
  <2>2. UNCHANGED <<physSlice, lists, failures>>
    BY <1>3 DEF CsUse
  <2> QED BY <2>1, <2>2 DEF InOrder, UsesTracked, Covered
<1>4. CASE CsRename \/ CsRenew
  <2>1. /\ recording'.frees = recording.frees \cup {physSlice}
        /\ recording'.uses = recording.uses /\ recording'.tracked = recording.tracked
        /\ recording'.phase = recording.phase
    BY <1>0, <1>4 DEF CsRename, CsRenew, InvalidateBuffer, CmdList
  <2>2. UNCHANGED <<lists, failures>>
    BY <1>4 DEF CsRename, CsRenew
  <2> QED BY <2>1, <2>2 DEF InOrder, UsesTracked, Covered
<1>5. CASE CsFlush
  <2> DEFINE n == Len(lists)
  <2>1. /\ n \in Nat /\ DOMAIN lists = 1 .. n /\ DOMAIN lists' = 1 .. n + 1
        /\ lists'[n + 1] = recording /\ \A i \in 1 .. n : lists'[i] = lists[i]
    BY <1>0, <1>5, Submitted DEF CsFlush
  <2>2. /\ recording'.uses = {} /\ recording'.frees = {} /\ recording'.phase = "recorded"
        /\ UNCHANGED <<physSlice, failures>>
    BY <1>5 DEF CsFlush, EmptyList
  <2> HIDE DEF n
  <2>3. InOrder'
    BY <2>1 DEF InOrder, UsesTracked
  <2>4. UsesTracked'
    BY <2>1, <2>2 DEF UsesTracked
  <2>5. Covered'
    <3> SUFFICES ASSUME failures = 0, NEW i \in 1 .. n + 1, NEW s \in lists'[i].uses
                 PROVE  s = physSlice \/ \E j \in 1 .. n + 1 : i <= j /\ s \in lists'[j].frees
      BY <2>1, <2>2 DEF Covered
    <3>1. CASE i = n + 1
      BY <2>1, <3>1 DEF Covered
    <3>2. CASE i \in 1 .. n
      BY <2>1, <3>2 DEF Covered
    <3> QED BY <2>1, <3>1, <3>2
  <2> QED BY <2>3, <2>4, <2>5
<1>6. CASE Issue
  <2>1. PICK k \in DOMAIN lists :
        /\ FirstIn("recorded", k) /\ DOMAIN lists' = DOMAIN lists
        /\ \A i \in DOMAIN lists :
              /\ lists'[i].frees = lists[i].frees /\ lists'[i].uses = lists[i].uses
              /\ lists'[i].tracked = lists[i].tracked
              /\ lists'[i].phase = IF i = k THEN "issued" ELSE lists[i].phase
    BY <1>0, <1>6, Issued
  <2>2. UNCHANGED <<physSlice, recording, failures>>
    BY <1>6 DEF Issue
  <2>3. DOMAIN lists = 1 .. Len(lists) /\ Len(lists) \in Nat
    BY <1>0
  <2>4. InOrder'
    BY <2>1, <2>3 DEF InOrder, FirstIn
  <2>5. UsesTracked' /\ Covered'
    BY <2>1, <2>2 DEF UsesTracked, Covered
  <2> QED BY <2>4, <2>5
<1>7. CASE GpuExecutes
  <2>1. PICK k \in DOMAIN lists :
        /\ FirstIn("issued", k) /\ DOMAIN lists' = DOMAIN lists
        /\ \A i \in DOMAIN lists :
              /\ lists'[i].frees = lists[i].frees
              /\ lists'[i].uses = IF i = k THEN {} ELSE lists[i].uses
              /\ lists'[i].tracked = lists[i].tracked
              /\ lists'[i].phase = IF i = k THEN "executed" ELSE lists[i].phase
    BY <1>0, <1>7, GpuExecuted
  <2>2. UNCHANGED <<physSlice, recording, failures>>
    BY <1>7 DEF GpuExecutes
  <2>3. DOMAIN lists = 1 .. Len(lists) /\ Len(lists) \in Nat
    BY <1>0
  <2>4. \A i \in DOMAIN lists : i < k => lists[i].phase = "executed"
    <3> SUFFICES ASSUME NEW i \in DOMAIN lists, i < k PROVE lists[i].phase = "executed"
      OBVIOUS
    <3>1. lists[i].phase # "issued" /\ lists[k].phase = "issued"
      BY <2>1, <2>3 DEF FirstIn
    <3>2. lists[i].phase # "recorded"
      BY <3>1 DEF InOrder
    <3>3. lists[i] \in CmdList
      BY <1>0
    <3> QED BY <3>1, <3>2, <3>3, CmdListFields
  <2>5. InOrder'
    BY <2>1, <2>3, <2>4 DEF InOrder, FirstIn
  <2>6. UsesTracked' /\ Covered'
    BY <2>1, <2>2 DEF UsesTracked, Covered
  <2> QED BY <2>5, <2>6
<1>8. CASE ReleaseResources
  <2>1. PICK k \in DOMAIN lists :
        /\ lists[k].phase = "executed" /\ DOMAIN lists' = DOMAIN lists
        /\ \A i \in DOMAIN lists :
              /\ lists'[i].frees = lists[i].frees /\ lists'[i].uses = lists[i].uses
              /\ i # k => lists'[i].tracked = lists[i].tracked
              /\ lists'[i].phase = lists[i].phase
    BY <1>0, <1>8, Released
  <2>2. UNCHANGED <<physSlice, recording, failures>>
    BY <1>8 DEF ReleaseResources
  <2>3. InOrder'
    BY <2>1 DEF InOrder
  <2>4. UsesTracked'
    BY <2>1, <2>2 DEF UsesTracked
  <2>5. Covered'
    BY <2>1, <2>2 DEF Covered
  <2> QED BY <2>3, <2>4, <2>5
<1>9. ASSUME NEW k \in DOMAIN lists, lists' = Without(k), UNCHANGED recording
      PROVE  InOrder' /\ UsesTracked'
  <2>1. /\ DOMAIN lists = 1 .. Len(lists) /\ DOMAIN lists' = 1 .. Len(lists) - 1
        /\ \A i \in DOMAIN lists' : lists'[i] = IF i < k THEN lists[i] ELSE lists[i + 1]
        /\ Len(lists) \in Nat \ {0}
    BY <1>0, <1>9, Removed
  <2> QED BY <1>9, <2>1 DEF InOrder, UsesTracked
<1>10. CASE ListFails
  <2>1. failures' # 0
    BY <1>0, <1>10 DEF ListFails
  <2>2. PICK k \in DOMAIN lists : lists' = Without(k)
    BY <1>10 DEF ListFails
  <2>3. UNCHANGED recording
    BY <1>10 DEF ListFails
  <2>4. InOrder' /\ UsesTracked'
    BY <1>9, <2>2, <2>3
  <2> QED BY <2>1, <2>4 DEF Covered
<1>11. CASE RecycleList
  <2>1. lists' = Without(1) /\ 1 \in DOMAIN lists
    BY <1>0, <1>11, TailIsWithout DEF RecycleList
  <2>2. /\ DOMAIN lists = 1 .. Len(lists) /\ DOMAIN lists' = 1 .. Len(lists) - 1
        /\ \A i \in DOMAIN lists' : lists'[i] = lists[i + 1]
        /\ Len(lists) \in Nat \ {0}
    <3>1. /\ DOMAIN lists = 1 .. Len(lists) /\ DOMAIN lists' = 1 .. Len(lists) - 1
          /\ \A i \in DOMAIN lists' : lists'[i] = IF i < 1 THEN lists[i] ELSE lists[i + 1]
          /\ Len(lists) \in Nat \ {0}
      BY <1>0, <2>1, Removed
    <3> QED BY <3>1
  <2>3. Covered'
    <3> SUFFICES ASSUME failures = 0, NEW i \in DOMAIN lists', NEW s \in lists'[i].uses
                 PROVE  \/ s = physSlice \/ s \in recording.frees
                        \/ \E j \in DOMAIN lists' : i <= j /\ s \in lists'[j].frees
      BY <1>11 DEF Covered, RecycleList
    <3>1. s \in lists[i + 1].uses /\ i + 1 \in DOMAIN lists
      BY <2>2
    <3>2. ASSUME NEW m \in DOMAIN lists, i + 1 <= m, s \in lists[m].frees
          PROVE  m - 1 \in DOMAIN lists' /\ i <= m - 1 /\ s \in lists'[m - 1].frees
      BY <2>2, <3>2
    <3> QED BY <3>1, <3>2 DEF Covered
  <2>4. UNCHANGED recording
    BY <1>11 DEF RecycleList
  <2>5. InOrder' /\ UsesTracked'
    BY <1>9, <2>1, <2>4
  <2> QED BY <2>3, <2>5
<1>12. CASE UNCHANGED vars
  BY <1>1, <1>12 DEF vars
<1> QED BY <1>2, <1>3, <1>4, <1>5, <1>6, <1>7, <1>8, <1>10, <1>11, <1>12 DEF Next

LEMMA ReuseInit == Init => Reuse
  BY DEF Init, Reuse, InOrder, UsesTracked, Covered, EmptyList

LEMMA ReuseAlways == Spec => [](TypeOK /\ (Exclusive /\ MultiUse) /\ Reuse)
<1>1. TypeOK /\ (Exclusive /\ MultiUse) /\ [Next]_vars => (Exclusive /\ MultiUse)'
  BY ExclusiveStep
<1>2. TypeOK /\ Reuse /\ [Next]_vars => Reuse'
  BY ReuseStep
<1> QED BY ExclusiveInit, ReuseInit, TypeCorrect, <1>1, <1>2, PTL DEF Spec

(* While no list fails, no slice is handed out that a command list     *)
(* still needs.                                                             *)
THEOREM ReuseIsSafe == Spec => []SafeReuse
<1>1. TypeOK /\ (Exclusive /\ MultiUse) /\ Reuse => SafeReuse
  BY ReuseImplied DEF Reuse
<1> QED BY ReuseAlways, <1>1, PTL
-----------------------------------------------------------------------------
(* What the application may do with the memory it was given *)

(* m is the slice that a command after q accesses, if the buffer has slice p *)
(* before q, and q says so by itself.                                       *)
NewestAfter(q, p, m) ==
    \/ Replaces(q) = {} /\ m = p
    \/ \E k \in Replaces(q) : (\A j \in Replaces(q) : j <= k) /\ q[k] = Rename(m)

LEMMA NewestSame ==
  ASSUME TypeOK, NEW m, NewestAfter(cs, physSlice, m)
  PROVE  m = Newest
<1>1. CASE Replaces(cs) = {}
  BY <1>1 DEF NewestAfter, Newest
<1>2. CASE Replaces(cs) # {}
  <2>1. PICK k \in Replaces(cs) : (\A j \in Replaces(cs) : j <= k) /\ cs[k] = Rename(m)
    BY <1>2 DEF NewestAfter
  <2>2. \A i \in Replaces(cs) : i \in Nat
    BY DEF TypeOK, Replaces
  <2>3. k = CHOOSE i \in Replaces(cs) : \A j \in Replaces(cs) : j <= i
    <3>1. \A i \in Replaces(cs) : (\A j \in Replaces(cs) : j <= i) => i = k
      BY <2>1, <2>2
    <3> QED BY <2>1, <3>1
  <2>4. cs[k].op = "rename" /\ cs[k].slice = m
    BY <2>1 DEF Rename
  <2> QED BY <1>2, <2>3, <2>4 DEF Newest
<1> QED BY <1>1, <1>2

LEMMA NewestEmitted ==
  ASSUME NEW q \in Seq(Command), NEW c \in Command, NEW p, NEW m
  PROVE  /\ c.op \in {"use", "flush"} /\ NewestAfter(q, p, m) => NewestAfter(Append(q, c), p, m)
         /\ c = Rename(m) => NewestAfter(Append(q, c), p, m)
<1> DEFINE r == Append(q, c)
<1>1. /\ Len(r) = Len(q) + 1 /\ r[Len(q) + 1] = c
      /\ DOMAIN q = 1 .. Len(q) /\ DOMAIN r = 1 .. Len(q) + 1
      /\ \A i \in 1 .. Len(q) : r[i] = q[i]
      /\ Len(q) \in Nat
  OBVIOUS
<1> HIDE DEF r
<1>2. c.op \in {"use", "flush"} => Replaces(r) = Replaces(q)
  BY <1>1 DEF Replaces
<1>3. ASSUME c.op \in {"use", "flush"}, NewestAfter(q, p, m)
      PROVE  NewestAfter(r, p, m)
  <2>1. \A k \in Replaces(q) : r[k] = q[k]
    BY <1>1 DEF Replaces
  <2> QED BY <1>2, <1>3, <2>1 DEF NewestAfter
<1>4. ASSUME c = Rename(m)
      PROVE  NewestAfter(r, p, m)
  <2>1. Len(q) + 1 \in Replaces(r) /\ \A j \in Replaces(r) : j <= Len(q) + 1
    BY <1>1, <1>4 DEF Replaces, Rename
  <2> QED BY <1>1, <1>4, <2>1 DEF NewestAfter
<1> QED BY <1>3, <1>4 DEF r

LEMMA NewestJoined ==
  ASSUME NEW q \in Seq(Command), NEW r \in Seq(Command), Replaces(r) = {}, NEW p, NEW m,
         NewestAfter(q, p, m)
  PROVE  NewestAfter(q \o r, p, m)
<1> DEFINE t == q \o r
<1>1. /\ Len(q) \in Nat /\ Len(r) \in Nat
      /\ DOMAIN q = 1 .. Len(q) /\ DOMAIN r = 1 .. Len(r) /\ DOMAIN t = 1 .. Len(q) + Len(r)
      /\ \A i \in 1 .. Len(q) : t[i] = q[i]
      /\ \A i \in Len(q) + 1 .. Len(q) + Len(r) : t[i] = r[i - Len(q)] /\ i - Len(q) \in 1 .. Len(r)
  OBVIOUS
<1> HIDE DEF t
<1>2. Replaces(t) = Replaces(q)
  <2>1. \A i \in 1 .. Len(r) : r[i].op \notin {"rename", "renew"}
    BY <1>1 DEF Replaces
  <2>2. \A i \in 1 .. Len(q) + Len(r) : i \in 1 .. Len(q) \/ t[i].op \notin {"rename", "renew"}
    BY <1>1, <2>1
  <2> QED BY <1>1, <2>2 DEF Replaces
<1>3. \A k \in Replaces(q) : t[k] = q[k]
  BY <1>1 DEF Replaces
<1> QED BY <1>2, <1>3 DEF NewestAfter, t

LEMMA NewestExecuted ==
  ASSUME NEW q \in Seq(Command), q # <<>>, NEW p, NEW m, NewestAfter(q, p, m)
  PROVE  /\ Head(q).op \in {"use", "flush"} => NewestAfter(Tail(q), p, m)
         /\ Head(q).op = "rename" => NewestAfter(Tail(q), Head(q).slice, m)
         /\ Head(q).op = "renew" => \A n : NewestAfter(Tail(q), n, m)
<1> DEFINE r == Tail(q)
<1>1. /\ Len(r) = Len(q) - 1 /\ Len(q) \in Nat \ {0}
      /\ DOMAIN q = 1 .. Len(q) /\ DOMAIN r = 1 .. Len(q) - 1
      /\ \A i \in 1 .. Len(q) - 1 : r[i] = q[i + 1]
      /\ Head(q) = q[1]
  BY HeadTailProperties, EmptySeq
<1> HIDE DEF r
<1>2. \A i \in Replaces(r) : i + 1 \in Replaces(q) /\ i \in Nat /\ i > 0
  BY <1>1 DEF Replaces
<1>3. \A i \in Replaces(q) : i = 1 \/ (i - 1 \in Replaces(r) /\ r[i - 1] = q[i])
  BY <1>1 DEF Replaces
<1>4. \A i \in Replaces(q) : i \in Nat
  BY <1>1 DEF Replaces
<1>5. 1 \in Replaces(q) <=> Head(q).op \in {"rename", "renew"}
  BY <1>1 DEF Replaces
<1>6. CASE Replaces(q) = {}
  <2>1. Replaces(r) = {}
    BY <1>2, <1>6
  <2>2. m = p
    BY <1>6 DEF NewestAfter
  <2> QED BY <1>5, <1>6, <2>1, <2>2 DEF NewestAfter, r
<1>7. CASE Replaces(q) # {}
  <2>1. PICK k \in Replaces(q) : (\A j \in Replaces(q) : j <= k) /\ q[k] = Rename(m)
    BY <1>7 DEF NewestAfter
  <2>2. CASE k = 1
    <3>1. Replaces(r) = {}
      <4> SUFFICES ASSUME NEW i \in Replaces(r) PROVE FALSE
        OBVIOUS
      <4>1. i + 1 <= 1 /\ i \in Nat /\ i > 0
        BY <1>2, <2>1, <2>2
      <4> QED BY <4>1
    <3>2. Head(q) = Rename(m) /\ Head(q).op = "rename" /\ Head(q).slice = m
      BY <1>1, <2>1, <2>2 DEF Rename
    <3> QED BY <3>1, <3>2 DEF NewestAfter, r
  <2>3. CASE k # 1
    <3>1. k - 1 \in Replaces(r) /\ r[k - 1] = Rename(m)
      BY <1>3, <2>1, <2>3
    <3>2. \A j \in Replaces(r) : j <= k - 1
      BY <1>2, <1>4, <2>1
    <3> QED BY <3>1, <3>2 DEF NewestAfter, r
  <2> QED BY <2>2, <2>3
<1> QED BY <1>6, <1>7

(* The memory the application was given by a discard is renamed to by the    *)
(* last command, or is the buffer's and nothing accesses it yet.            *)
Discarded ==
    access = "discard" =>
        \/ cs # <<>> /\ cs[Len(cs)] = Rename(mapped)
        \/ cs = <<>> /\ mapped = physSlice /\ (failures = 0 => mapped \notin Busy)

Written == access = "write" => cs = <<>> /\ Busy = {}

Waiting ==
    access = "waiting" => \/ cs # <<>> /\ cs[Len(cs)] = Flush
                          \/ cs = <<>> /\ ~recording.tracked

Flushed == ~csIsBusy => \/ cs # <<>> /\ cs[Len(cs)] = Flush
                        \/ cs = <<>> /\ ~recording.tracked

MappedNewest == ~foreign => NewestAfter(cs, physSlice, mapped)

LEMMA MappedStep ==
  ASSUME TypeOK, MappedNewest, [Next]_vars
  PROVE  MappedNewest'
<1> USE DEF MappedNewest
<1>0. cs \in Seq(Command) /\ finished \in Seq(Command) /\ mapped \in Slices
  BY DEF TypeOK
<1>1. CASE MapDiscard
  <2>1. PICK s \in Slices : mapped' = s /\ EmitCs(<<Rename(s)>>)
    BY <1>1 DEF MapDiscard
  <2>2. cs' = Append(cs, Rename(s)) /\ Rename(s) \in Command
    BY <1>0, <2>1, RenameCommand, Emitted DEF EmitCs
  <2>3. NewestAfter(cs', physSlice', s)
    BY <1>0, <2>2, NewestEmitted
  <2> QED BY <2>1, <2>3
<1>2. ASSUME UNCHANGED <<physSlice, mapped, foreign>>, FlushCs \/ EmitCs(<<Use>>) \/ cs' = cs
      PROVE  MappedNewest'
  <2>1. ASSUME NEW c \in {Use, Flush}
        PROVE  /\ cs \o <<c>> = Append(cs, c)
               /\ ~foreign => NewestAfter(Append(cs, c), physSlice, mapped)
    <3>1. c \in Command /\ c.op \in {"use", "flush"}
      BY OtherCommands
    <3>2. cs \o <<c>> = Append(cs, c)
      BY <1>0, <3>1, Emitted
    <3> QED BY <1>0, <3>1, <3>2, NewestEmitted
  <2>2. cs' = Append(cs, Flush) \/ cs' = cs \/ cs' = cs \o <<Use>>
    BY <1>2 DEF FlushCs, EmitCs, csVars
  <2> QED BY <1>2, <2>1, <2>2
<1>3. CASE MapWait \/ MapReturns \/ Unmap \/ DrawOrFlush \/ ReleaseCommandList
           \/ DeferDiscard \/ DeferUse \/ FinishCommandList
  BY <1>2, <1>3 DEF MapWait, MapReturns, Unmap, DrawOrFlush, ReleaseCommandList,
       DeferDiscard, DeferUse, FinishCommandList, apiVars, csVars
<1>4. CASE ExecuteCommandList
  <2>1. /\ cs' = cs \o finished /\ UNCHANGED <<physSlice, mapped>>
        /\ foreign' = (foreign \/ Replaces(finished) # {})
    BY <1>4 DEF ExecuteCommandList, EmitCs
  <2>2. CASE Replaces(finished) = {} /\ ~foreign
    <3>1. NewestAfter(cs \o finished, physSlice, mapped)
      BY <1>0, <2>2, NewestJoined
    <3> QED BY <2>1, <3>1
  <2>3. CASE Replaces(finished) # {} \/ foreign
    BY <2>1, <2>3
  <2> QED BY <2>2, <2>3
<1>5. ASSUME cs # <<>>, ~foreign
      PROVE  /\ Head(cs).op \in {"use", "flush"} => NewestAfter(Tail(cs), physSlice, mapped)
             /\ Head(cs).op = "rename" => NewestAfter(Tail(cs), Head(cs).slice, mapped)
             /\ Head(cs).op = "renew" => \A n : NewestAfter(Tail(cs), n, mapped)
  BY <1>0, <1>5, NewestExecuted
<1>6. CASE CsUse \/ CsFlush
  BY <1>5, <1>6, OtherCommands DEF CsUse, CsFlush, apiVars
<1>7. CASE CsRename
  BY <1>5, <1>7 DEF CsRename, InvalidateBuffer, apiVars
<1>8. CASE CsRenew
  BY <1>5, <1>8, OtherCommands DEF CsRenew, apiVars
<1>9. CASE Issue \/ ListFails \/ GpuExecutes \/ ReleaseResources \/ RecycleList
  BY <1>2, <1>9 DEF Issue, ListFails, GpuExecutes, ReleaseResources, RecycleList, apiVars, csVars
<1>10. CASE UNCHANGED vars
  BY <1>2, <1>10 DEF vars
<1> QED BY <1>1, <1>3, <1>4, <1>6, <1>7, <1>8, <1>9, <1>10 DEF Next

(* The pointer that Map returns without asking the dxvk-cs thread is the     *)
(* memory that later commands access.                                       *)
THEOREM MappedIsTheNewest == Spec => []MappedIsNewest
<1>1. Init => MappedNewest
  BY DEF Init, MappedNewest, NewestAfter, Replaces
<1>2. TypeOK /\ MappedNewest /\ [Next]_vars => MappedNewest'
  BY MappedStep
<1>3. TypeOK /\ MappedNewest => MappedIsNewest
  BY NewestSame DEF MappedNewest, MappedIsNewest
<1> QED BY TypeCorrect, <1>1, <1>2, <1>3, PTL DEF Spec
-----------------------------------------------------------------------------
Access == Discarded /\ Written /\ Waiting /\ Flushed

LEMMA AccessStep ==
  ASSUME TypeOK, Exclusive, Reuse, Access, [Next]_vars
  PROVE  Access'
<1> USE DEF Access
<1>0. /\ cs \in Seq(Command) /\ lists \in Seq(CmdList) /\ recording \in CmdList
      /\ failures \in Nat /\ RenamesOnce(cs)
  BY DEF TypeOK, Exclusive
<1>1. ASSUME NEW c \in Command
      PROVE  /\ cs \o <<c>> = Append(cs, c) /\ Append(cs, c) # <<>>
             /\ Append(cs, c)[Len(Append(cs, c))] = c
  BY <1>0, Emitted
<1>2. CASE MapDiscard
  <2>1. PICK s \in Slices : mapped' = s /\ EmitCs(<<Rename(s)>>)
    BY <1>2 DEF MapDiscard
  <2>2. cs' # <<>> /\ cs'[Len(cs')] = Rename(s) /\ csIsBusy'
    BY <1>1, <2>1, RenameCommand DEF EmitCs
  <2>3. access' = "discard"
    BY <1>2 DEF MapDiscard
  <2> QED BY <2>1, <2>2, <2>3 DEF Discarded, Written, Waiting, Flushed
<1>3. ASSUME FlushCs
      PROVE  \/ cs' # <<>> /\ cs'[Len(cs')] = Flush
             \/ cs' = cs /\ csIsBusy' = csIsBusy /\ ~csIsBusy
  BY <1>1, <1>3, OtherCommands DEF FlushCs, csVars
<1>4. CASE MapWait
  <2>1. cs = <<>> /\ access = "none" /\ UNCHANGED <<physSlice, mapped, recording, lists, failures>>
    BY <1>4 DEF MapWait
  <2>2. CASE ~InUse /\ access' = "write" /\ UNCHANGED csVars
    <3>1. Busy = {}
      BY <2>2 DEF InUse, Reuse, UsesTracked, Busy
    <3> QED BY <2>1, <2>2, <3>1 DEF csVars, Discarded, Written, Waiting, Flushed, Busy
  <2>3. CASE FlushCs /\ access' \in {"none", "waiting"}
    BY <1>3, <2>1, <2>3 DEF Discarded, Written, Waiting, Flushed
  <2> QED BY <1>4, <2>1, <2>2, <2>3 DEF MapWait
<1>5. CASE MapReturns
  <2>1. Busy = {} /\ cs = <<>>
    BY <1>5 DEF MapReturns, InUse, Reuse, UsesTracked, Busy
  <2> QED BY <1>5, <2>1 DEF MapReturns, csVars, Discarded, Written, Waiting, Flushed, Busy
<1>6. CASE Unmap
  BY <1>6 DEF Unmap, csVars, Discarded, Written, Waiting, Flushed
<1>7. CASE DrawOrFlush
  <2>1. access' = "none" /\ UNCHANGED recording
    BY <1>7 DEF DrawOrFlush, apiVars
  <2>2. CASE EmitCs(<<Use>>)
    BY <2>1, <2>2 DEF EmitCs, Discarded, Written, Waiting, Flushed
  <2>3. CASE FlushCs
    BY <1>3, <2>1, <2>3 DEF Discarded, Written, Waiting, Flushed
  <2> QED BY <1>7, <2>2, <2>3 DEF DrawOrFlush
<1>8. CASE ExecuteCommandList
  BY <1>8 DEF ExecuteCommandList, EmitCs, Discarded, Written, Waiting, Flushed
<1>9. ASSUME UNCHANGED <<access, mapped, csVars, physSlice, recording>>, Busy' \subseteq Busy,
             failures' = 0 => failures = 0
      PROVE  Access'
  BY <1>9 DEF csVars, Discarded, Written, Waiting, Flushed
<1>10. UNCHANGED <<recording, lists>> => Busy' = Busy
  BY DEF Busy
<1>11. CASE ReleaseCommandList \/ DeferDiscard \/ DeferUse \/ FinishCommandList
  BY <1>9, <1>10, <1>11 DEF ReleaseCommandList, DeferDiscard, DeferUse, FinishCommandList, apiVars
<1>12. ASSUME cs # <<>>, cs' = Tail(cs), UNCHANGED <<access, mapped, csIsBusy>>,
              Head(cs) # Flush
       PROVE  Written' /\ Waiting' /\ Flushed'
  <2>1. /\ cs' # <<>> => cs'[Len(cs')] = cs[Len(cs)]
        /\ cs' = <<>> => Head(cs) = cs[Len(cs)]
    BY <1>0, <1>12, Executed
  <2> QED BY <1>12, <2>1 DEF Written, Waiting, Flushed
<1>13. ASSUME cs # <<>>, cs' = Tail(cs), UNCHANGED <<access, mapped>>,
              \A s \in Slices : Head(cs) # Rename(s), mapped \in Slices
       PROVE  Discarded'
  <2>1. /\ cs' # <<>> => cs'[Len(cs')] = cs[Len(cs)]
        /\ cs' = <<>> => Head(cs) = cs[Len(cs)]
    BY <1>0, <1>13, Executed
  <2> QED BY <1>13, <2>1 DEF Discarded
<1>14. /\ Use # Flush /\ Renew # Flush
       /\ \A s \in Slices : Rename(s) # Flush /\ Rename(s) # Use /\ Rename(s) # Renew
       /\ mapped \in Slices
  BY OtherCommands, RenameCommand DEF TypeOK
<1>15. CASE CsUse
  BY <1>12, <1>13, <1>14, <1>15 DEF CsUse, apiVars
<1>16. CASE CsRenew
  BY <1>12, <1>13, <1>14, <1>16 DEF CsRenew, apiVars
<1>17. CASE CsRename
  <2>1. /\ Head(cs).op = "rename" /\ cs # <<>> /\ cs' = Tail(cs)
        /\ physSlice' = Head(cs).slice
        /\ recording'.uses = recording.uses /\ UNCHANGED <<access, mapped, csIsBusy, lists, failures>>
    BY <1>0, <1>17 DEF CsRename, InvalidateBuffer, CmdList, apiVars
  <2>2. /\ cs' # <<>> => cs'[Len(cs')] = cs[Len(cs)]
        /\ cs' = <<>> => Head(cs) = cs[Len(cs)]
        /\ Head(cs).slice \in Pending(cs)
    BY <1>0, <2>1, Executed
  <2>3. Busy' = Busy
    BY <2>1 DEF Busy
  <2>4. failures = 0 => Head(cs).slice \notin Busy
    BY <2>2, ReuseImplied DEF Reuse, SafeReuse, FreeSlicesIdle, Handed
  <2>5. \A s \in Slices : Rename(s).slice = s
    BY RenameCommand
  <2>6. Discarded'
    BY <1>14, <2>1, <2>2, <2>3, <2>4, <2>5 DEF Discarded
  <2>7. Head(cs) # Flush
    BY <2>1, OtherCommands
  <2> QED BY <1>12, <2>1, <2>6, <2>7
<1>18. CASE CsFlush
  <2>1. /\ cs # <<>> /\ cs' = Tail(cs) /\ recording' = EmptyList /\ Head(cs) = Flush
        /\ UNCHANGED <<access, mapped, csIsBusy, physSlice, failures>>
    BY <1>18 DEF CsFlush, apiVars
  <2>2. ~recording'.tracked
    BY <2>1 DEF EmptyList
  <2>3. /\ cs' # <<>> => cs'[Len(cs')] = cs[Len(cs)]
        /\ cs' = <<>> => Head(cs) = cs[Len(cs)]
    BY <1>0, <2>1, Executed
  <2>4. Written' /\ Waiting' /\ Flushed'
    BY <2>1, <2>2, <2>3 DEF Written, Waiting, Flushed
  <2>5. Discarded'
    BY <1>13, <1>14, <2>1
  <2> QED BY <2>4, <2>5
<1>19. CASE Issue
  <2>1. \A i \in DOMAIN lists' : i \in DOMAIN lists /\ lists'[i].uses = lists[i].uses
    BY <1>0, <1>19, Issued
  <2>2. Busy' \subseteq Busy
    BY <1>19, <2>1 DEF Issue, Busy
  <2> QED BY <1>9, <1>19, <2>2 DEF Issue, apiVars
<1>20. CASE GpuExecutes
  <2>1. \A i \in DOMAIN lists' : i \in DOMAIN lists /\ lists'[i].uses \subseteq lists[i].uses
    BY <1>0, <1>20, GpuExecuted
  <2>2. Busy' \subseteq Busy
    BY <1>20, <2>1 DEF GpuExecutes, Busy
  <2> QED BY <1>9, <1>20, <2>2 DEF GpuExecutes, apiVars
<1>21. CASE ReleaseResources
  <2>1. \A i \in DOMAIN lists' : i \in DOMAIN lists /\ lists'[i].uses = lists[i].uses
    BY <1>0, <1>21, Released
  <2>2. Busy' \subseteq Busy
    BY <1>21, <2>1 DEF ReleaseResources, Busy
  <2> QED BY <1>9, <1>21, <2>2 DEF ReleaseResources, apiVars
<1>22. ASSUME NEW k \in DOMAIN lists, lists' = Without(k), UNCHANGED recording
       PROVE  Busy' \subseteq Busy
  <2>1. \A i \in DOMAIN lists' : \E j \in DOMAIN lists : lists'[i] = lists[j]
    <3>1. /\ DOMAIN lists = 1 .. Len(lists) /\ DOMAIN lists' = 1 .. Len(lists) - 1
          /\ \A i \in DOMAIN lists' : lists'[i] = IF i < k THEN lists[i] ELSE lists[i + 1]
          /\ Len(lists) \in Nat \ {0}
      BY <1>0, <1>22, Removed
    <3> QED BY <3>1
  <2> QED BY <1>22, <2>1 DEF Busy
<1>23. CASE ListFails
  <2>1. Busy' \subseteq Busy
    BY <1>22, <1>23 DEF ListFails
  <2>2. failures' # 0
    BY <1>0, <1>23 DEF ListFails
  <2> QED BY <1>9, <1>23, <2>1, <2>2 DEF ListFails, apiVars
<1>24. CASE RecycleList
  <2>1. Busy' \subseteq Busy
    BY <1>0, <1>22, <1>24, TailIsWithout DEF RecycleList
  <2> QED BY <1>9, <1>24, <2>1 DEF RecycleList, apiVars
<1>25. CASE UNCHANGED vars
  BY <1>9, <1>10, <1>25 DEF vars, csVars
<1> QED BY <1>2, <1>4, <1>5, <1>6, <1>7, <1>8, <1>11, <1>15, <1>16, <1>17, <1>18, <1>19, <1>20,
       <1>21, <1>23, <1>24, <1>25 DEF Next

LEMMA AccessAlways == Spec => [](TypeOK /\ Exclusive /\ Reuse /\ Access)
<1>1. Init => Access
  BY DEF Init, Access, Discarded, Written, Waiting, Flushed, EmptyList
<1>2. TypeOK /\ (Exclusive /\ MultiUse) /\ Reuse /\ Access /\ [Next]_vars => Access'
  BY AccessStep
<1> QED BY ReuseAlways, <1>1, <1>2, PTL DEF Spec

(* Memory that a discard or a wait has given to the application is accessed  *)
(* by no command that is recorded or runs.                                  *)
THEOREM MapsArePrivate == Spec => []MapIsPrivate
<1>1. TypeOK /\ Exclusive /\ Reuse /\ Access => MapIsPrivate
  <2> SUFFICES ASSUME TypeOK, Exclusive, Reuse, Access, access \in {"discard", "write"}, failures = 0
               PROVE  mapped \notin Busy
    BY DEF MapIsPrivate
  <2>1. CASE cs # <<>> /\ cs[Len(cs)] = Rename(mapped)
    <3>1. Len(cs) \in DOMAIN cs /\ mapped \in Slices
      BY <2>1, EmptySeq DEF TypeOK
    <3>2. mapped \in Pending(cs)
      BY <2>1, <3>1, RenameCommand DEF Pending, Renames
    <3> QED BY <3>2, ReuseImplied DEF Reuse, SafeReuse, FreeSlicesIdle, Handed
  <2>2. CASE Busy = {} \/ mapped \notin Busy
    BY <2>2
  <2> QED BY <2>1, <2>2 DEF Access, Discarded, Written
<1> QED BY AccessAlways, <1>1, PTL

(* Map never waits for a command list that has not been submitted.           *)
THEOREM WaitsAreForSubmitted == Spec => []WaitsForSubmitted
<1>1. TypeOK /\ Exclusive /\ Reuse /\ Access => WaitsForSubmitted
  BY DEF Access, Waiting, WaitsForSubmitted
<1> QED BY AccessAlways, <1>1, PTL
=============================================================================
