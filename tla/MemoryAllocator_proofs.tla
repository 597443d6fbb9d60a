----------------------- MODULE MemoryAllocator_proofs -----------------------
(***************************************************************************)
(* Machine-checked proofs about the memory allocator.                       *)
(***************************************************************************)
EXTENDS MemoryAllocator, DataLemmas

----------------------------------------------------------------------------
(* Slices *)

(* Aligning moves an offset up. *)
LEMMA AlignUpBound ==
  ASSUME NEW n \in Nat, NEW align \in Nat \ {0}
  PROVE  AlignUp(n, align) \in Nat /\ AlignUp(n, align) >= n
  BY DEF AlignUp

PairwiseApart(free) == \A s, r \in free : s # r => Apart(s, r)
NoneAdjacent(free) == \A s, r \in free : End(s) # r.offset

(* Cutting a piece out of a free slice leaves free slices that are apart, apart
   from the piece, inside the old ones, and together with it cover what they
   covered; no two of them are adjacent if none were. *)
LEMMA CarveFree ==
  ASSUME NEW free \in SUBSET Slices, NEW s \in free,
         NEW start \in Nat, NEW end \in Nat,
         s.offset <= start, start < end, end <= End(s),
         PairwiseApart(free)
  PROVE  LET left == Carve(free, s, start, end)
             cut == Slice(start, end - start) IN
         /\ left \in SUBSET Slices
         /\ PairwiseApart(left)
         /\ \A p \in left : Apart(p, cut)
         /\ \A p \in left : \E q \in free : q.offset <= p.offset /\ End(p) <= End(q)
         /\ \A q \in free, b \in Nat : Within(b, q) =>
               Within(b, cut) \/ \E p \in left : Within(b, p)
         /\ NoneAdjacent(free) => NoneAdjacent(left)
<1> DEFINE front == Slice(s.offset, start - s.offset)
           back == Slice(end, End(s) - end)
           left == Carve(free, s, start, end)
           cut == Slice(start, end - start)
<1>1. /\ s.offset \in Nat /\ s.length \in Nat \ {0} /\ End(s) = s.offset + s.length
      /\ front.offset = s.offset /\ front.length = start - s.offset
      /\ back.offset = end /\ back.length = End(s) - end
      /\ cut.offset = start /\ cut.length = end - start
  BY DEF Slices, End, Slice
<1>2. \A p \in left : \/ p \in free /\ p # s
                      \/ p = front /\ start - s.offset # 0
                      \/ p = back /\ End(s) - end # 0
  BY <1>1 DEF Carve
<1>3. \A q \in free : q.offset \in Nat /\ q.length \in Nat \ {0} /\ End(q) = q.offset + q.length
  BY DEF Slices, End
<1>4. /\ End(front) = start /\ End(back) = End(s) /\ End(cut) = end
  BY <1>1 DEF End
<1>5. left \in SUBSET Slices
  <2>1. start - s.offset # 0 => front \in Slices
    BY <1>1 DEF Slices, Slice
  <2>2. End(s) - end # 0 => back \in Slices
    BY <1>1 DEF Slices, Slice
  <2> QED BY <1>2, <2>1, <2>2
<1>6. PairwiseApart(left)
  BY <1>1, <1>2, <1>3, <1>4 DEF PairwiseApart, Apart
<1>7. \A p \in left : Apart(p, cut)
  BY <1>1, <1>2, <1>3, <1>4 DEF PairwiseApart, Apart
<1>8. \A p \in left : \E q \in free : q.offset <= p.offset /\ End(p) <= End(q)
  BY <1>1, <1>2, <1>3, <1>4
<1>9. ASSUME NEW q \in free, NEW b \in Nat, Within(b, q)
      PROVE  Within(b, cut) \/ \E p \in left : Within(b, p)
  <2>1. CASE q # s
    BY <2>1, <1>9 DEF Carve
  <2>2. CASE q = s
    <3>1. Within(b, cut) \/ Within(b, front) \/ Within(b, back)
      BY <2>2, <1>9, <1>1, <1>4 DEF Within
    <3>2. Within(b, front) => front \in left
      BY <1>1, <1>4 DEF Within, Carve
    <3>3. Within(b, back) => back \in left
      BY <1>1, <1>4 DEF Within, Carve
    <3> QED BY <3>1, <3>2, <3>3
  <2> QED BY <2>1, <2>2
<1>10. NoneAdjacent(free) => NoneAdjacent(left)
  BY <1>1, <1>2, <1>3, <1>4 DEF NoneAdjacent, PairwiseApart, Apart
<1> QED BY <1>5, <1>6, <1>7, <1>8, <1>9, <1>10

(* Freeing a slice merges it with its neighbours: the free slices stay apart,
   none become adjacent, they cover the old ones and the new, and what was apart
   from all of these still is. *)
LEMMA CoalesceFree ==
  ASSUME NEW free \in SUBSET Slices, NEW m \in Slices,
         PairwiseApart(free), NoneAdjacent(free), \A p \in free : Apart(p, m)
  PROVE  LET new == Coalesce(free, m) IN
         /\ new \in SUBSET Slices
         /\ PairwiseApart(new)
         /\ NoneAdjacent(new)
         /\ \A b \in Nat : Within(b, m) \/ (\E p \in free : Within(b, p))
               => \E q \in new : Within(b, q)
         /\ \A n \in Nat : End(m) <= n /\ (\A p \in free : End(p) <= n)
               => \A q \in new : End(q) <= n
         /\ \A x \in Slices : Apart(x, m) /\ (\A p \in free : Apart(x, p))
               => \A q \in new : Apart(x, q)
<1> DEFINE new == Coalesce(free, m)
           B == Before(free, m)
           A == After(free, m)
           start == IF B = {} THEN m.offset ELSE (CHOOSE s \in B : TRUE).offset
           end == IF A = {} THEN End(m) ELSE End(CHOOSE s \in A : TRUE)
           merged == Slice(start, end - start)
<1>0. new = (free \ (B \cup A)) \cup {merged}
  BY DEF Coalesce
<1>1. \A q \in free \cup {m} : q.offset \in Nat /\ q.length \in Nat \ {0} /\ End(q) = q.offset + q.length
  BY DEF Slices, End
<1>2. \A p, q \in B : p = q
  BY <1>1 DEF Before, PairwiseApart, Apart
<1>3. \A p, q \in A : p = q
  BY <1>1 DEF After, PairwiseApart, Apart
<1>4. \/ B = {} /\ start = m.offset
      \/ \E s \in free : B = {s} /\ End(s) = m.offset /\ start = s.offset
  <2>1. CASE B = {}
    BY <2>1
  <2>2. CASE B # {}
    <3>1. PICK s \in B : TRUE
      BY <2>2
    <3>2. B = {s}
      BY <3>1, <1>2
    <3>3. (CHOOSE r \in B : TRUE) = s
      BY <3>2
    <3>4. s \in free /\ End(s) = m.offset
      BY <3>1 DEF Before
    <3> QED BY <2>2, <3>2, <3>3, <3>4
  <2> QED BY <2>1, <2>2
<1>5. \/ A = {} /\ end = End(m)
      \/ \E s \in free : A = {s} /\ s.offset = End(m) /\ end = End(s)
  <2>1. CASE A = {}
    BY <2>1
  <2>2. CASE A # {}
    <3>1. PICK s \in A : TRUE
      BY <2>2
    <3>2. A = {s}
      BY <3>1, <1>3
    <3>3. (CHOOSE r \in A : TRUE) = s
      BY <3>2
    <3>4. s \in free /\ s.offset = End(m)
      BY <3>1 DEF After
    <3> QED BY <2>2, <3>2, <3>3, <3>4
  <2> QED BY <2>1, <2>2
<1>6. start \in Nat /\ end \in Nat /\ start <= m.offset /\ End(m) <= end
  BY <1>1, <1>4, <1>5
<1>7. merged.offset = start /\ merged.length = end - start /\ End(merged) = end
      /\ merged \in Slices
  <2>1. merged.offset = start /\ merged.length = end - start
    BY DEF Slice
  <2>2. m.offset < End(m)
    BY <1>1
  <2>3. end - start \in Nat \ {0}
    BY <2>2, <1>1, <1>6
  <2>4. merged \in Slices
    BY <2>3, <1>6 DEF Slices, Slice
  <2> QED BY <2>1, <2>4, <1>6 DEF End
<1> HIDE DEF start, end, merged, A, B
<1>8. \A q \in new : q = merged \/ (q \in free /\ End(q) # m.offset /\ q.offset # End(m))
  BY <1>0 DEF A, B, Before, After
<1>9. \A q \in free : q \in new \/ (start <= q.offset /\ End(q) <= end)
  BY <1>0, <1>1, <1>4, <1>5, <1>6
<1>10. \A x \in Slices : Apart(x, m) /\ (\A p \in free : Apart(x, p)) => Apart(x, merged)
  <2> SUFFICES ASSUME NEW x \in Slices, Apart(x, m), \A p \in free : Apart(x, p)
               PROVE  Apart(x, merged)
    OBVIOUS
  <2>1. x.offset \in Nat /\ x.length \in Nat \ {0} /\ End(x) = x.offset + x.length
    BY DEF Slices, End
  <2> QED BY <2>1, <1>1, <1>4, <1>5, <1>6, <1>7 DEF Apart
<1>11. \A q \in new : q # merged => Apart(q, merged) /\ Apart(merged, q)
  <2> SUFFICES ASSUME NEW q \in new, q # merged PROVE Apart(q, merged) /\ Apart(merged, q)
    OBVIOUS
  <2>1. q \in free /\ q \notin A /\ q \notin B
    BY <1>0
  <2>2. \A p \in A \cup B : Apart(q, p)
    BY <2>1, <1>4, <1>5 DEF PairwiseApart
  <2>3. Apart(q, m)
    BY <2>1
  <2> QED BY <2>1, <2>2, <2>3, <1>1, <1>4, <1>5, <1>6, <1>7 DEF Apart
<1>12. new \in SUBSET Slices
  BY <1>7, <1>8
<1>13. PairwiseApart(new)
  BY <1>8, <1>11 DEF PairwiseApart
<1>14. NoneAdjacent(new)
  <2> SUFFICES ASSUME NEW p \in new, NEW q \in new PROVE End(p) # q.offset
    BY DEF NoneAdjacent
  <2>1. CASE p # merged /\ q # merged
    BY <2>1, <1>8 DEF NoneAdjacent
  <2>2. CASE p = merged /\ q = merged
    BY <2>2, <1>1, <1>6, <1>7
  <2>3. CASE p # merged /\ q = merged
    BY <2>3, <1>4, <1>7, <1>8 DEF NoneAdjacent
  <2>4. CASE p = merged /\ q # merged
    BY <2>4, <1>5, <1>7, <1>8 DEF NoneAdjacent
  <2> QED BY <2>1, <2>2, <2>3, <2>4
<1>15. \A b \in Nat : Within(b, m) \/ (\E p \in free : Within(b, p)) => \E q \in new : Within(b, q)
  <2>1. merged \in new
    BY <1>0
  <2> QED BY <2>1, <1>1, <1>6, <1>7, <1>9 DEF Within
<1>16. \A n \in Nat : End(m) <= n /\ (\A p \in free : End(p) <= n) => \A q \in new : End(q) <= n
  BY <1>5, <1>7, <1>8
<1>17. \A x \in Slices : Apart(x, m) /\ (\A p \in free : Apart(x, p)) => \A q \in new : Apart(x, q)
  BY <1>8, <1>10
<1> QED BY <1>12, <1>13, <1>14, <1>15, <1>16, <1>17

----------------------------------------------------------------------------
(* Type correctness *)

LEMMA AttemptFlags ==
  ASSUME NEW r \in Requests, NEW n \in DOMAIN Attempts(r)
  PROVE  Attempts(r)[n].flags \in Flags
<1> DEFINE one == <<[flags |-> r.flags, dedicated |-> r.dedicated # "no"]>>
           two == IF r.dedicated = "preferred"
                  THEN <<[flags |-> r.flags, dedicated |-> FALSE]>> ELSE <<>>
           three == IF r.flags \cap Optional # {}
                    THEN <<[flags |-> r.flags \ Optional, dedicated |-> r.dedicated = "required"]>>
                    ELSE <<>>
           Attempt == [flags : Flags, dedicated : BOOLEAN]
<1>1. r.flags \in Flags /\ r.flags \ Optional \in Flags
  BY AllocatorAssumption DEF Request, Flags
<1>2. one \in Seq(Attempt) /\ two \in Seq(Attempt) /\ three \in Seq(Attempt)
  <2>1. /\ [flags |-> r.flags, dedicated |-> r.dedicated # "no"] \in Attempt
        /\ [flags |-> r.flags, dedicated |-> FALSE] \in Attempt
        /\ [flags |-> r.flags \ Optional, dedicated |-> r.dedicated = "required"] \in Attempt
    BY <1>1
  <2> HIDE DEF Attempt
  <2>2. one \in Seq(Attempt)
    BY <2>1
  <2>3. two \in Seq(Attempt)
    BY <2>1
  <2>4. three \in Seq(Attempt)
    BY <2>1
  <2> QED BY <2>2, <2>3, <2>4
<1>3. Attempts(r) = one \o two \o three
  BY DEF Attempts
<1>4. Attempts(r) \in Seq(Attempt)
  <2> HIDE DEF one, two, three, Attempt
  <2> QED BY <1>2, <1>3
<1>5. n \in 1 .. Len(Attempts(r))
  BY <1>4
<1>6. Attempts(r)[n] \in Attempt
  <2> HIDE DEF Attempt
  <2> QED BY <1>4, <1>5
<1> QED BY <1>6

(* What an allocation is made from: sizes, alignments and types. *)
LEMMA RequestType ==
  ASSUME NEW r \in Requests
  PROVE  /\ r.size \in Nat \ {0} /\ r.align \in Nat \ {0} /\ r.priority \in Nat
         /\ r.types \subseteq Types
  BY AllocatorAssumption DEF Request

(* The piece cut out of a slice for a request it fits. *)
LEMMA PieceOfSlice ==
  ASSUME NEW r \in Requests, NEW s \in Slices, Fits(s, r)
  PROVE  /\ Start(s, r) \in Nat /\ Finish(s, r) \in Nat
         /\ s.offset <= Start(s, r) /\ Start(s, r) < Finish(s, r)
         /\ Finish(s, r) <= End(s)
<1>1. s.offset \in Nat /\ r.size \in Nat \ {0} /\ r.align \in Nat \ {0}
  BY RequestType DEF Slices
<1>2. Start(s, r) \in Nat /\ Start(s, r) >= s.offset
  BY <1>1, AlignUpBound DEF Start
<1>3. Start(s, r) + r.size \in Nat
  BY <1>1, <1>2
<1>4. Finish(s, r) \in Nat /\ Finish(s, r) >= Start(s, r) + r.size
  BY <1>1, <1>3, AlignUpBound DEF Finish
<1> QED BY <1>1, <1>2, <1>4 DEF Fits

LEMMA BestIsFree ==
  ASSUME NEW free, NEW size, NEW s \in Best(free, size) PROVE s \in free
  BY DEF Best, Longest

LEMMA CarveType ==
  ASSUME NEW free \in SUBSET Slices, NEW s \in free, NEW start \in Nat, NEW end \in Nat,
         s.offset <= start, start < end, end <= End(s)
  PROVE  Carve(free, s, start, end) \in SUBSET Slices
<1>1. s.offset \in Nat /\ s.length \in Nat /\ End(s) = s.offset + s.length
  BY DEF Slices, End
<1>2. start - s.offset # 0 => Slice(s.offset, start - s.offset) \in Slices
  BY <1>1 DEF Slice, Slices
<1>3. End(s) - end # 0 => Slice(end, End(s) - end) \in Slices
  BY <1>1 DEF Slice, Slices
<1>4. Slice(s.offset, start - s.offset).length = start - s.offset
      /\ Slice(end, End(s) - end).length = End(s) - end
  BY DEF Slice
<1> QED BY <1>2, <1>3, <1>4 DEF Carve

(* The fact about Hold that every kind of allocation needs. *)
LEMMA HoldType ==
  ASSUME TypeOK, NEW o \in Owners, NEW r \in Requests, NEW t \in Types, NEW i \in Nat,
         NEW offset \in Nat, NEW length \in Nat \ {0}, Hold(o, r, t, i, offset, length)
  PROVE  /\ memory' \in [Owners -> Memory \cup {NoMemory}]
         /\ request' \in [Owners -> Requests \cup {NoMemory}]
         /\ memoryUsed' \in [Heaps -> Int]
         /\ \A p \in Owners : memory'[p] # memory[p] => p = o /\ memory'[p].type = t
                                                       /\ memory'[p].chunk = i
<1>1. [type |-> t, chunk |-> i, offset |-> offset, length |-> length] \in Memory
  BY DEF Memory
<1> QED BY <1>1, AllocatorAssumption DEF TypeOK, Hold

LEMMA AllocType ==
  ASSUME TypeOK, NEW o \in Owners, NEW r \in Requests, NEW t \in Types,
         NEW n \in DOMAIN Attempts(r), NEW grant \in Grants,
         AllocFromType(o, r, t, Attempts(r)[n], grant)
  PROVE  TypeOK'
<1> DEFINE a == Attempts(r)[n]
<1>0. a.flags \in Flags /\ Priority(a, r) \in Nat
  BY AttemptFlags, RequestType DEF Priority
<1> HIDE DEF a
<1>1. CASE AllocDedicated(o, r, t, a, grant)
  <2>1. Hold(o, r, t, 0, 0, r.size) /\ chunks' = chunks /\ AllocDeviceMemory(t, r.size)
    BY <1>1 DEF AllocDedicated
  <2>2. r.size \in Nat \ {0}
    BY RequestType
  <2>3. /\ memory' \in [Owners -> Memory \cup {NoMemory}]
        /\ request' \in [Owners -> Requests \cup {NoMemory}]
        /\ memoryUsed' \in [Heaps -> Int]
        /\ \A p \in Owners : memory'[p] # memory[p] => memory'[p].chunk = 0
    BY <2>1, <2>2, HoldType
  <2>4. memoryAllocated' \in [Heaps -> Int]
    BY <2>1, <2>2, AllocatorAssumption DEF AllocDeviceMemory, TypeOK
  <2>5. \A p \in Owners : memory'[p] # NoMemory => memory'[p].type \in Types
    BY <2>3, AllocatorAssumption DEF Memory
  <2>6. \A p \in Owners : memory'[p] # NoMemory => memory'[p].chunk \in 0 .. Len(chunks'[memory'[p].type])
    <3> SUFFICES ASSUME NEW p \in Owners, memory'[p] # NoMemory
                 PROVE  memory'[p].chunk \in 0 .. Len(chunks[memory'[p].type])
      BY <2>1
    <3>1. chunks[memory'[p].type] \in Seq(Chunk)
      BY <2>5 DEF TypeOK
    <3>2. CASE memory'[p] # memory[p]
      BY <3>1, <3>2, <2>3
    <3>3. CASE memory'[p] = memory[p]
      BY <3>3 DEF TypeOK
    <3> QED BY <3>2, <3>3
  <2> QED BY <2>1, <2>3, <2>4, <2>6 DEF TypeOK
<1>2. CASE AllocFromChunk(o, r, t, a)
  <2>0. PICK i \in 1 .. Len(chunks[t]) :
          \E s \in Best(chunks[t][i].free, r.size) :
             /\ Fits(s, r)
             /\ chunks' = [chunks EXCEPT ![t][i].free = Carve(@, s, Start(s, r), Finish(s, r))]
             /\ Hold(o, r, t, i, Start(s, r), Finish(s, r) - Start(s, r))
    BY <1>2 DEF AllocFromChunk
  <2>1. PICK s \in Best(chunks[t][i].free, r.size) :
          /\ Fits(s, r)
          /\ chunks' = [chunks EXCEPT ![t][i].free = Carve(@, s, Start(s, r), Finish(s, r))]
          /\ Hold(o, r, t, i, Start(s, r), Finish(s, r) - Start(s, r))
    BY <2>0
  <2>2. chunks[t][i] \in Chunk /\ chunks[t][i].free \in SUBSET Slices /\ s \in chunks[t][i].free
    <3>1. chunks[t] \in Seq(Chunk)
      BY DEF TypeOK
    <3>2. chunks[t][i] \in Chunk
      BY <3>1
    <3>3. s \in chunks[t][i].free
      BY BestIsFree
    <3> QED BY <3>2, <3>3 DEF Chunk
  <2>3. /\ Start(s, r) \in Nat /\ Finish(s, r) \in Nat /\ s.offset <= Start(s, r)
        /\ Start(s, r) < Finish(s, r) /\ Finish(s, r) <= End(s)
    BY <2>1, <2>2, PieceOfSlice
  <2>4. Carve(chunks[t][i].free, s, Start(s, r), Finish(s, r)) \in SUBSET Slices
    BY <2>2, <2>3, CarveType
  <2>5. chunks' \in [Types -> Seq(Chunk)] /\ \A u \in Types : Len(chunks'[u]) = Len(chunks[u])
    <3>1. [chunks[t][i] EXCEPT !.free = Carve(@, s, Start(s, r), Finish(s, r))] \in Chunk
      BY <2>2, <2>4 DEF Chunk
    <3>2. [chunks[t] EXCEPT ![i].free = Carve(@, s, Start(s, r), Finish(s, r))] \in Seq(Chunk)
          /\ Len([chunks[t] EXCEPT ![i].free = Carve(@, s, Start(s, r), Finish(s, r))]) = Len(chunks[t])
      BY <3>1 DEF TypeOK
    <3> QED BY <2>1, <3>2 DEF TypeOK
  <2>6. Finish(s, r) - Start(s, r) \in Nat \ {0}
    BY <2>3
  <2>7. /\ memory' \in [Owners -> Memory \cup {NoMemory}]
        /\ request' \in [Owners -> Requests \cup {NoMemory}]
        /\ memoryUsed' \in [Heaps -> Int]
        /\ \A p \in Owners : memory'[p] # memory[p] => memory'[p].type = t /\ memory'[p].chunk = i
    BY <2>1, <2>3, <2>6, HoldType
  <2>8. memoryAllocated' = memoryAllocated
    BY <1>2 DEF AllocFromChunk
  <2>9. \A p \in Owners : memory'[p] # NoMemory => memory'[p].type \in Types
    BY <2>7, AllocatorAssumption DEF Memory
  <2>10. \A p \in Owners : memory'[p] # NoMemory => memory'[p].chunk \in 0 .. Len(chunks'[memory'[p].type])
    <3> SUFFICES ASSUME NEW p \in Owners, memory'[p] # NoMemory
                 PROVE  memory'[p].chunk \in 0 .. Len(chunks'[memory'[p].type])
      OBVIOUS
    <3>1. Len(chunks'[memory'[p].type]) = Len(chunks[memory'[p].type])
      BY <2>5, <2>9
    <3>2. CASE memory'[p] # memory[p]
      BY <3>1, <3>2, <2>7
    <3>3. CASE memory'[p] = memory[p]
      BY <3>1, <3>3 DEF TypeOK
    <3> QED BY <3>2, <3>3
  <2> QED BY <2>5, <2>7, <2>8, <2>10 DEF TypeOK
<1>3. CASE AllocNewChunk(o, r, t, a, grant)
  <2>1. PICK k \in NewChunkSizes(t, r) :
          /\ AllocDeviceMemory(t, k)
          /\ Fits(Slice(0, k), r)
          /\ chunks' = [chunks EXCEPT ![t] = Append(@,
                 [flags |-> a.flags, priority |-> Priority(a, r), size |-> k,
                  free |-> Carve({Slice(0, k)}, Slice(0, k), Start(Slice(0, k), r), Finish(Slice(0, k), r))])]
          /\ Hold(o, r, t, Len(chunks[t]) + 1, Start(Slice(0, k), r),
                  Finish(Slice(0, k), r) - Start(Slice(0, k), r))
    BY <1>3 DEF AllocNewChunk
  <2> DEFINE w == Slice(0, k)
             c == [flags |-> a.flags, priority |-> Priority(a, r), size |-> k,
                   free |-> Carve({w}, w, Start(w, r), Finish(w, r))]
  <2>2. k \in Nat /\ k >= r.size /\ r.size \in Nat \ {0}
    BY RequestType DEF NewChunkSizes
  <2>3. w \in Slices
    BY <2>2 DEF Slices, Slice
  <2>4. /\ Start(w, r) \in Nat /\ Finish(w, r) \in Nat /\ w.offset <= Start(w, r)
        /\ Start(w, r) < Finish(w, r) /\ Finish(w, r) <= End(w)
    BY <2>1, <2>3, PieceOfSlice
  <2>5. c \in Chunk
    <3>1. Carve({w}, w, Start(w, r), Finish(w, r)) \in SUBSET Slices
      <4> HIDE DEF w
      <4> QED BY <2>3, <2>4, CarveType
    <3> QED BY <3>1, <1>0, <2>2 DEF Chunk
  <2> HIDE DEF c
  <2>6. chunks' = [chunks EXCEPT ![t] = Append(@, c)]
    BY <2>1 DEF c
  <2>7. chunks' \in [Types -> Seq(Chunk)] /\ chunks'[t] = Append(chunks[t], c)
        /\ \A u \in Types \ {t} : chunks'[u] = chunks[u]
    BY <2>5, <2>6 DEF TypeOK
  <2>8. Len(chunks[t]) \in Nat /\ Len(chunks'[t]) = Len(chunks[t]) + 1
    BY <2>5, <2>7 DEF TypeOK
  <2>9. Finish(w, r) - Start(w, r) \in Nat \ {0}
    BY <2>4
  <2>10. /\ memory' \in [Owners -> Memory \cup {NoMemory}]
         /\ request' \in [Owners -> Requests \cup {NoMemory}]
         /\ memoryUsed' \in [Heaps -> Int]
         /\ \A p \in Owners : memory'[p] # memory[p] =>
               memory'[p].type = t /\ memory'[p].chunk = Len(chunks[t]) + 1
    <3>1. Len(chunks[t]) + 1 \in Nat
      BY <2>8
    <3> QED BY <2>1, <2>4, <2>9, <3>1, HoldType
  <2>11. memoryAllocated' \in [Heaps -> Int]
    <3>1. AllocDeviceMemory(t, k)
      BY <2>1
    <3> QED BY <3>1, <2>2, AllocatorAssumption DEF AllocDeviceMemory, TypeOK
  <2>12. \A p \in Owners : memory'[p] # NoMemory => memory'[p].type \in Types
    BY <2>10, AllocatorAssumption DEF Memory
  <2>13. \A p \in Owners : memory'[p] # NoMemory => memory'[p].chunk \in 0 .. Len(chunks'[memory'[p].type])
    <3> SUFFICES ASSUME NEW p \in Owners, memory'[p] # NoMemory
                 PROVE  memory'[p].chunk \in 0 .. Len(chunks'[memory'[p].type])
      OBVIOUS
    <3>1. CASE memory'[p] # memory[p]
      BY <3>1, <2>8, <2>10
    <3>2. CASE memory'[p] = memory[p]
      <4>1. memory[p].chunk \in 0 .. Len(chunks[memory[p].type]) /\ memory[p].type \in Types
        BY <3>2, <2>12 DEF TypeOK
      <4> QED BY <3>2, <4>1, <2>7, <2>8
    <3> QED BY <3>1, <3>2
  <2> QED BY <2>7, <2>10, <2>11, <2>13 DEF TypeOK
<1> QED BY <1>1, <1>2, <1>3 DEF AllocFromType, a

LEMMA FreeType ==
  ASSUME TypeOK, NEW o \in Owners, Free(o),
         memory[o].chunk # 0 =>
            Coalesce(chunks[memory[o].type][memory[o].chunk].free,
                     Slice(memory[o].offset, memory[o].length)) \in SUBSET Slices
  PROVE  TypeOK'
<1> DEFINE m == memory[o]
<1>1. m \in Memory /\ m.type \in Types /\ m.length \in Nat /\ m.chunk \in 0 .. Len(chunks[m.type])
  BY DEF Free, TypeOK, Memory
<1>2. /\ memory' = [memory EXCEPT ![o] = NoMemory]
      /\ request' = [request EXCEPT ![o] = NoMemory]
      /\ memoryUsed' = [memoryUsed EXCEPT ![HeapOf[m.type]] = @ - m.length]
  BY DEF Free
<1>3. /\ memory' \in [Owners -> Memory \cup {NoMemory}]
      /\ request' \in [Owners -> Requests \cup {NoMemory}]
      /\ memoryUsed' \in [Heaps -> Int]
  BY <1>1, <1>2, AllocatorAssumption DEF TypeOK
<1>4. memoryAllocated' \in [Heaps -> Int]
  <2>1. memoryAllocated \in [Heaps -> Int]
    BY DEF TypeOK
  <2>2. \/ memoryAllocated' = memoryAllocated
        \/ memoryAllocated' = [memoryAllocated EXCEPT ![HeapOf[m.type]] = @ - m.length]
    BY DEF Free, Release
  <2> QED BY <1>1, <2>1, <2>2, AllocatorAssumption
<1>5. chunks' \in [Types -> Seq(Chunk)] /\ \A t \in Types : Len(chunks'[t]) = Len(chunks[t])
  <2>1. CASE m.chunk = 0
    BY <2>1 DEF Free, TypeOK
  <2>2. CASE m.chunk # 0
    <3> DEFINE new == Coalesce(chunks[m.type][m.chunk].free, Slice(m.offset, m.length))
    <3>1. chunks' = [chunks EXCEPT ![m.type][m.chunk].free = new]
      BY <2>2 DEF Free
    <3>2. new \in SUBSET Slices
      BY <2>2
    <3> HIDE DEF new, m
    <3>3. m.chunk \in 1 .. Len(chunks[m.type]) /\ chunks[m.type] \in Seq(Chunk)
      BY <1>1, <2>2 DEF TypeOK
    <3>4. [chunks[m.type][m.chunk] EXCEPT !.free = new] \in Chunk
      <4>1. chunks[m.type][m.chunk] \in Chunk
        BY <3>3
      <4> QED BY <3>2, <4>1 DEF Chunk
    <3>5. [chunks[m.type] EXCEPT ![m.chunk].free = new] \in Seq(Chunk)
          /\ Len([chunks[m.type] EXCEPT ![m.chunk].free = new]) = Len(chunks[m.type])
      BY <3>3, <3>4
    <3> QED BY <1>1, <3>1, <3>5 DEF TypeOK
  <2> QED BY <2>1, <2>2
<1>6. \A p \in Owners : memory'[p] # NoMemory => memory'[p].chunk \in 0 .. Len(chunks'[memory'[p].type])
  <2> SUFFICES ASSUME NEW p \in Owners, memory'[p] # NoMemory
               PROVE  memory'[p].chunk \in 0 .. Len(chunks'[memory'[p].type])
    OBVIOUS
  <2>1. memory'[p] = memory[p] /\ memory[p].type \in Types
    BY <1>2, AllocatorAssumption DEF TypeOK, Memory
  <2> QED BY <2>1, <1>5 DEF TypeOK
<1> QED BY <1>3, <1>4, <1>5, <1>6 DEF TypeOK

----------------------------------------------------------------------------
(* One chunk, and the memory cut out of it *)

Holds(mem, o, t, i) == mem[o] # NoMemory /\ mem[o].type = t /\ mem[o].chunk = i

(* Partition and Coalesced for chunk i of type t, with what it is. *)
ChunkOK(c, mem, t, i) ==
    /\ PairwiseApart(c.free) /\ NoneAdjacent(c.free)
    /\ \A s \in c.free : End(s) <= c.size
    /\ \A o \in Owners : Holds(mem, o, t, i) =>
          /\ End(mem[o]) <= c.size
          /\ \A p \in Owners \ {o} : Holds(mem, p, t, i) => Apart(mem[o], mem[p])
          /\ \A s \in c.free : Apart(mem[o], s)
    /\ \A b \in 0 .. c.size - 1 :
          \/ \E s \in c.free : Within(b, s)
          \/ \E o \in Owners : Holds(mem, o, t, i) /\ Within(b, mem[o])

AllChunksOK == \A t \in Types : \A i \in 1 .. Len(chunks[t]) : ChunkOK(chunks[t][i], memory, t, i)

LEMMA ApartSymmetric == \A s, r : Apart(s, r) <=> Apart(r, s)
  BY DEF Apart

LEMMA ChunkByChunk == Partition /\ Coalesced <=> AllChunksOK
<1>1. Partition /\ Coalesced => AllChunksOK
  <2> SUFFICES ASSUME Partition, Coalesced, NEW t \in Types, NEW i \in 1 .. Len(chunks[t])
               PROVE  ChunkOK(chunks[t][i], memory, t, i)
    BY DEF AllChunksOK
  <2> DEFINE c == chunks[t][i]
  <2>1. PairwiseApart(c.free) /\ \A s \in c.free : End(s) <= c.size
    BY ApartSymmetric DEF Partition, FreeDisjoint, PairwiseApart
  <2>2. NoneAdjacent(c.free)
    BY DEF Coalesced, NoneAdjacent
  <2>3. \A o \in Owners : Holds(memory, o, t, i) =>
          /\ End(memory[o]) <= c.size
          /\ \A p \in Owners \ {o} : Holds(memory, p, t, i) => Apart(memory[o], memory[p])
          /\ \A s \in c.free : Apart(memory[o], s)
    BY DEF Partition, MemoryDisjoint, Holds, InChunk
  <2>4. \A b \in 0 .. c.size - 1 :
           \/ \E s \in c.free : Within(b, s)
           \/ \E o \in Owners : Holds(memory, o, t, i) /\ Within(b, memory[o])
    BY DEF Partition, NothingLost, Holds, InChunk
  <2> QED BY <2>1, <2>2, <2>3, <2>4 DEF ChunkOK
<1>2. AllChunksOK => Partition /\ Coalesced
  <2> SUFFICES ASSUME AllChunksOK PROVE Partition /\ Coalesced
    OBVIOUS
  <2>1. MemoryDisjoint
    BY Zenon DEF AllChunksOK, ChunkOK, Holds, MemoryDisjoint, InChunk
  <2>2. FreeDisjoint
    BY ApartSymmetric, Zenon DEF AllChunksOK, ChunkOK, FreeDisjoint, PairwiseApart
  <2>3. NothingLost
    BY DEF AllChunksOK, ChunkOK, Holds, NothingLost, InChunk
  <2>4. Coalesced
    BY Zenon DEF AllChunksOK, ChunkOK, Coalesced, NoneAdjacent
  <2> QED BY <2>1, <2>2, <2>3, <2>4 DEF Partition
<1> QED BY <1>1, <1>2

(* A chunk stays right when neither it nor the memory cut out of it changes. *)
LEMMA SameChunk ==
  ASSUME NEW c, NEW old, NEW new, NEW t, NEW i, ChunkOK(c, old, t, i),
         \A o \in Owners : Holds(old, o, t, i) \/ Holds(new, o, t, i) => new[o] = old[o]
  PROVE  ChunkOK(c, new, t, i)
<1>1. \A o \in Owners : /\ Holds(new, o, t, i) <=> Holds(old, o, t, i)
                        /\ Holds(new, o, t, i) => new[o] = old[o]
  BY DEF Holds
<1> QED BY <1>1, Zenon DEF ChunkOK

(* Cutting memory for an owner that has none out of a free slice. *)
LEMMA CutFromChunk ==
  ASSUME NEW c \in Chunk, NEW old \in [Owners -> Memory \cup {NoMemory}],
         NEW t \in Types, NEW i \in Nat \ {0}, ChunkOK(c, old, t, i),
         NEW o \in Owners, old[o] = NoMemory,
         NEW s \in c.free, NEW start \in Nat, NEW end \in Nat,
         s.offset <= start, start < end, end <= End(s)
  PROVE  ChunkOK([c EXCEPT !.free = Carve(@, s, start, end)],
                 [old EXCEPT ![o] = [type |-> t, chunk |-> i, offset |-> start,
                                     length |-> end - start]], t, i)
<1> DEFINE cut == Slice(start, end - start)
           left == Carve(c.free, s, start, end)
           m == [type |-> t, chunk |-> i, offset |-> start, length |-> end - start]
           new == [old EXCEPT ![o] = m]
           d == [c EXCEPT !.free = Carve(@, s, start, end)]
<1>1. c.free \in SUBSET Slices /\ c.size \in Nat /\ d.free = left /\ d.size = c.size
  BY DEF Chunk
<1>2. /\ left \in SUBSET Slices
      /\ PairwiseApart(left)
      /\ \A p \in left : Apart(p, cut)
      /\ \A p \in left : \E q \in c.free : q.offset <= p.offset /\ End(p) <= End(q)
      /\ \A q \in c.free, b \in Nat : Within(b, q) => Within(b, cut) \/ \E p \in left : Within(b, p)
      /\ NoneAdjacent(left)
  BY <1>1, CarveFree DEF ChunkOK
<1>3. /\ new[o] = m /\ m # NoMemory /\ Holds(new, o, t, i)
      /\ \A p \in Owners \ {o} : new[p] = old[p]
  <2>1. m \in Memory
    BY DEF Memory
  <2> QED BY <2>1, AllocatorAssumption DEF Holds, Memory
<1>4. cut.offset = m.offset /\ End(cut) = End(m) /\ End(m) = end /\ m.offset = start
  BY DEF Slice, End
<1>5. \A q \in c.free \cup left : q.offset \in Nat /\ q.length \in Nat \ {0} /\ End(q) = q.offset + q.length
  BY <1>1, <1>2 DEF Slices, End
<1>6. \A p \in Owners : old[p] # NoMemory =>
         old[p].offset \in Nat /\ old[p].length \in Nat \ {0} /\ End(old[p]) = old[p].offset + old[p].length
  BY DEF Memory, End
<1> HIDE DEF left, m, cut, new, d
<1>7. \A p \in left : End(p) <= c.size
  BY <1>1, <1>2, <1>5 DEF ChunkOK
<1>8. End(m) <= c.size /\ \A p \in left : Apart(m, p)
  <2>1. End(s) <= c.size
    BY DEF ChunkOK
  <2>2. \A p \in left : Apart(m, p)
    BY <1>2, <1>4 DEF Apart
  <2> QED BY <2>1, <2>2, <1>1, <1>4, <1>5
<1>9. ASSUME NEW p \in Owners \ {o}, Holds(new, p, t, i)
      PROVE  /\ End(new[p]) <= c.size /\ Apart(new[p], m) /\ Apart(m, new[p])
             /\ \A q \in Owners \ {p} : Holds(new, q, t, i) => Apart(new[p], new[q])
             /\ \A x \in left : Apart(new[p], x)
  <2>1. Holds(old, p, t, i) /\ new[p] = old[p] /\ old[p] # NoMemory
    BY <1>3, <1>9 DEF Holds
  <2>2. /\ End(old[p]) <= c.size
        /\ \A q \in Owners \ {p} : Holds(old, q, t, i) => Apart(old[p], old[q])
        /\ \A x \in c.free : Apart(old[p], x)
    BY <2>1 DEF ChunkOK
  <2>3. Apart(old[p], m) /\ Apart(m, old[p])
    <3>1. Apart(old[p], s)
      BY <2>2
    <3> QED BY <3>1, <2>1, <1>4, <1>5, <1>6 DEF Apart
  <2>4. \A x \in left : Apart(old[p], x)
    BY <2>1, <2>2, <1>2, <1>5, <1>6 DEF Apart
  <2>5. \A q \in Owners \ {p} : Holds(new, q, t, i) => Apart(old[p], new[q])
    BY <2>2, <2>3, <1>3 DEF Holds
  <2> QED BY <2>1, <2>2, <2>3, <2>4, <2>5
<1>10. ASSUME NEW b \in 0 .. c.size - 1
       PROVE  \/ \E x \in left : Within(b, x)
              \/ \E p \in Owners : Holds(new, p, t, i) /\ Within(b, new[p])
  <2>1. CASE \E q \in c.free : Within(b, q)
    <3>1. Within(b, cut) \/ \E x \in left : Within(b, x)
      BY <2>1, <1>1, <1>2
    <3>2. Within(b, cut) => Within(b, new[o])
      BY <1>3, <1>4 DEF Within
    <3> QED BY <3>1, <3>2, <1>3
  <2>2. CASE \E p \in Owners : Holds(old, p, t, i) /\ Within(b, old[p])
    <3>1. PICK p \in Owners : Holds(old, p, t, i) /\ Within(b, old[p])
      BY <2>2
    <3>2. p # o
      BY <3>1 DEF Holds
    <3> QED BY <3>1, <3>2, <1>3 DEF Holds
  <2> QED BY <2>1, <2>2 DEF ChunkOK
<1>11. ASSUME NEW p \in Owners, Holds(new, p, t, i)
       PROVE  /\ End(new[p]) <= d.size
              /\ \A q \in Owners \ {p} : Holds(new, q, t, i) => Apart(new[p], new[q])
              /\ \A x \in d.free : Apart(new[p], x)
  BY <1>11, <1>1, <1>3, <1>8, <1>9
<1> QED
  <2>1. ChunkOK(d, new, t, i)
    BY <1>1, <1>2, <1>7, <1>10, <1>11 DEF ChunkOK
  <2> QED BY <2>1 DEF d, new, m

(* Giving memory back to the chunk it was cut out of. *)
LEMMA ReturnToChunk ==
  ASSUME NEW c \in Chunk, NEW old \in [Owners -> Memory \cup {NoMemory}],
         NEW t \in Types, NEW i \in Nat \ {0}, ChunkOK(c, old, t, i),
         NEW o \in Owners, Holds(old, o, t, i)
  PROVE  LET new == Coalesce(c.free, Slice(old[o].offset, old[o].length)) IN
         /\ new \in SUBSET Slices
         /\ ChunkOK([c EXCEPT !.free = new], [old EXCEPT ![o] = NoMemory], t, i)
<1> DEFINE m == Slice(old[o].offset, old[o].length)
           free == Coalesce(c.free, m)
           new == [old EXCEPT ![o] = NoMemory]
           d == [c EXCEPT !.free = free]
<1>1. c.free \in SUBSET Slices /\ c.size \in Nat /\ d.free = free /\ d.size = c.size
  BY DEF Chunk
<1>2. \A p \in Owners : Holds(old, p, t, i) => old[p] \in Memory
  BY DEF Holds
<1>3. \A p \in Owners : Holds(old, p, t, i) =>
         LET x == Slice(old[p].offset, old[p].length) IN
         x \in Slices /\ End(x) = End(old[p]) /\ x.offset = old[p].offset
  BY <1>2 DEF Slices, Slice, Memory, End
<1>4. m \in Slices /\ End(m) = End(old[o]) /\ m.offset = old[o].offset
  BY <1>3
<1>5. \A p \in c.free : Apart(p, m) /\ Apart(m, p)
  BY <1>4 DEF ChunkOK, Apart
<1>6. /\ free \in SUBSET Slices /\ PairwiseApart(free) /\ NoneAdjacent(free)
      /\ \A b \in Nat : Within(b, m) \/ (\E p \in c.free : Within(b, p)) => \E q \in free : Within(b, q)
      /\ \A n \in Nat : End(m) <= n /\ (\A p \in c.free : End(p) <= n) => \A q \in free : End(q) <= n
      /\ \A x \in Slices : Apart(x, m) /\ (\A p \in c.free : Apart(x, p)) => \A q \in free : Apart(x, q)
  <2>1. PairwiseApart(c.free) /\ NoneAdjacent(c.free)
    BY DEF ChunkOK
  <2> HIDE DEF m
  <2> QED BY <1>1, <1>4, <1>5, <2>1, CoalesceFree
<1> HIDE DEF free, m, new, d
<1>7. new[o] = NoMemory /\ \A p \in Owners \ {o} : new[p] = old[p]
  BY DEF new
<1>8. \A q \in free : End(q) <= c.size
  <2>1. End(m) <= c.size /\ \A p \in c.free : End(p) <= c.size
    BY <1>4 DEF ChunkOK
  <2> QED BY <1>1, <1>6, <2>1
<1>9. ASSUME NEW p \in Owners, Holds(new, p, t, i)
      PROVE  /\ End(new[p]) <= c.size
             /\ \A q \in Owners \ {p} : Holds(new, q, t, i) => Apart(new[p], new[q])
             /\ \A x \in free : Apart(new[p], x)
  <2>1. p # o /\ new[p] = old[p] /\ Holds(old, p, t, i)
    BY <1>7, <1>9 DEF Holds
  <2>2. /\ End(old[p]) <= c.size
        /\ \A q \in Owners \ {p} : Holds(old, q, t, i) => Apart(old[p], old[q])
        /\ \A x \in c.free : Apart(old[p], x)
    BY <2>1 DEF ChunkOK
  <2>3. \A q \in Owners \ {p} : Holds(new, q, t, i) => Apart(new[p], new[q])
    BY <2>1, <2>2, <1>7 DEF Holds
  <2>4. \A x \in free : Apart(old[p], x)
    <3> DEFINE y == Slice(old[p].offset, old[p].length)
    <3>1. y \in Slices /\ End(y) = End(old[p]) /\ y.offset = old[p].offset
      BY <2>1, <1>3
    <3>2. Apart(old[p], old[o])
      BY <2>1, <2>2
    <3> HIDE DEF y
    <3>3. Apart(y, m) /\ \A x \in c.free : Apart(y, x)
      BY <3>1, <3>2, <1>4, <2>2 DEF Apart
    <3>4. \A x \in free : Apart(y, x)
      BY <3>1, <3>3, <1>6
    <3> QED BY <3>1, <3>4 DEF Apart
  <2> QED BY <2>1, <2>2, <2>3, <2>4
<1>10. ASSUME NEW b \in 0 .. c.size - 1
       PROVE  \/ \E x \in free : Within(b, x)
              \/ \E p \in Owners : Holds(new, p, t, i) /\ Within(b, new[p])
  <2>0. b \in Nat
    BY <1>1
  <2>1. CASE \E q \in c.free : Within(b, q)
    BY <2>0, <2>1, <1>6
  <2>2. CASE \E p \in Owners : Holds(old, p, t, i) /\ Within(b, old[p])
    <3>1. PICK p \in Owners : Holds(old, p, t, i) /\ Within(b, old[p])
      BY <2>2
    <3>2. CASE p = o
      <4>1. Within(b, m)
        BY <3>1, <3>2, <1>4 DEF Within
      <4> QED BY <2>0, <4>1, <1>6
    <3>3. CASE p # o
      BY <3>1, <3>3, <1>7 DEF Holds
    <3> QED BY <3>2, <3>3
  <2>3. \/ \E q \in c.free : Within(b, q)
        \/ \E p \in Owners : Holds(old, p, t, i) /\ Within(b, old[p])
    BY DEF ChunkOK
  <2> QED BY <2>1, <2>2, <2>3
<1>11. ChunkOK(d, new, t, i)
  BY <1>1, <1>6, <1>8, <1>9, <1>10 DEF ChunkOK
<1> QED BY <1>6, <1>11 DEF d, new, free, m

----------------------------------------------------------------------------
(* Every step keeps every chunk right *)

Inv == TypeOK /\ AllChunksOK

LEMMA ChunkType ==
  ASSUME TypeOK, NEW t \in Types, NEW i \in 1 .. Len(chunks[t])
  PROVE  chunks[t] \in Seq(Chunk) /\ chunks[t][i] \in Chunk /\ i \in Nat \ {0}
<1>1. chunks[t] \in Seq(Chunk)
  BY DEF TypeOK
<1> QED BY <1>1

LEMMA AllocDedicatedStep ==
  ASSUME Inv, NEW o \in Owners, NEW r \in Requests, NEW t \in Types, NEW a, NEW grant,
         memory[o] = NoMemory, AllocDedicated(o, r, t, a, grant)
  PROVE  AllChunksOK'
<1>1. chunks' = chunks /\ memory' = [memory EXCEPT ![o] = [type |-> t, chunk |-> 0,
                                        offset |-> 0, length |-> r.size]]
  BY DEF AllocDedicated, Hold
<1>2. memory \in [Owners -> Memory \cup {NoMemory}]
  BY DEF Inv, TypeOK
<1>3. memory'[o].type = t /\ memory'[o].chunk = 0 /\ \A p \in Owners \ {o} : memory'[p] = memory[p]
  BY <1>1, <1>2
<1>4. SUFFICES ASSUME NEW u \in Types, NEW j \in 1 .. Len(chunks[u])
               PROVE  ChunkOK(chunks[u][j], memory', u, j)
  BY <1>1 DEF AllChunksOK
<1>5. j # 0 /\ ChunkOK(chunks[u][j], memory, u, j)
  BY ChunkType DEF Inv, AllChunksOK
<1>6. \A p \in Owners : Holds(memory, p, u, j) \/ Holds(memory', p, u, j) => memory'[p] = memory[p]
  BY <1>3, <1>5 DEF Holds
<1> QED BY <1>5, <1>6, SameChunk

LEMMA AllocFromChunkStep ==
  ASSUME Inv, NEW o \in Owners, NEW r \in Requests, NEW t \in Types, NEW a,
         memory[o] = NoMemory, AllocFromChunk(o, r, t, a)
  PROVE  AllChunksOK'
<1>1. PICK i \in 1 .. Len(chunks[t]) :
        \E s \in Best(chunks[t][i].free, r.size) :
           /\ Fits(s, r)
           /\ chunks' = [chunks EXCEPT ![t][i].free = Carve(@, s, Start(s, r), Finish(s, r))]
           /\ Hold(o, r, t, i, Start(s, r), Finish(s, r) - Start(s, r))
  BY DEF AllocFromChunk
<1>2. PICK s \in Best(chunks[t][i].free, r.size) :
        /\ Fits(s, r)
        /\ chunks' = [chunks EXCEPT ![t][i].free = Carve(@, s, Start(s, r), Finish(s, r))]
        /\ Hold(o, r, t, i, Start(s, r), Finish(s, r) - Start(s, r))
  BY <1>1
<1> DEFINE c == chunks[t][i]
           d == [c EXCEPT !.free = Carve(@, s, Start(s, r), Finish(s, r))]
           m == [type |-> t, chunk |-> i, offset |-> Start(s, r), length |-> Finish(s, r) - Start(s, r)]
<1>3. c \in Chunk /\ i \in Nat \ {0} /\ chunks[t] \in Seq(Chunk)
  BY ChunkType DEF Inv
<1>4. s \in c.free /\ c.free \in SUBSET Slices
  BY <1>3, BestIsFree DEF Chunk
<1>5. /\ Start(s, r) \in Nat /\ Finish(s, r) \in Nat /\ s.offset <= Start(s, r)
      /\ Start(s, r) < Finish(s, r) /\ Finish(s, r) <= End(s)
  BY <1>2, <1>4, PieceOfSlice
<1>6. memory' = [memory EXCEPT ![o] = m]
  BY <1>2 DEF Hold
<1>7. memory \in [Owners -> Memory \cup {NoMemory}] /\ ChunkOK(c, memory, t, i)
  BY DEF Inv, TypeOK, AllChunksOK
<1>8. ChunkOK(d, memory', t, i)
  BY <1>3, <1>4, <1>5, <1>6, <1>7, CutFromChunk
<1>9. chunks'[t] = [chunks[t] EXCEPT ![i] = d] /\ \A u \in Types \ {t} : chunks'[u] = chunks[u]
  BY <1>2 DEF Inv, TypeOK
<1> HIDE DEF c, d, m
<1>10. Len(chunks'[t]) = Len(chunks[t]) /\ chunks'[t][i] = d
       /\ \A j \in 1 .. Len(chunks[t]) : j # i => chunks'[t][j] = chunks[t][j]
  BY <1>3, <1>9
<1>11. memory'[o].type = t /\ memory'[o].chunk = i /\ \A p \in Owners \ {o} : memory'[p] = memory[p]
  BY <1>6, <1>7 DEF m
<1>12. SUFFICES ASSUME NEW u \in Types, NEW j \in 1 .. Len(chunks'[u])
                PROVE  ChunkOK(chunks'[u][j], memory', u, j)
  BY DEF AllChunksOK
<1>13. CASE u = t /\ j = i
  BY <1>8, <1>10, <1>13
<1>14. CASE u # t \/ j # i
  <2>1. j \in 1 .. Len(chunks[u]) /\ chunks'[u][j] = chunks[u][j]
    BY <1>9, <1>10, <1>14
  <2>2. ChunkOK(chunks[u][j], memory, u, j)
    BY <2>1 DEF Inv, AllChunksOK
  <2>3. \A p \in Owners : Holds(memory, p, u, j) \/ Holds(memory', p, u, j) => memory'[p] = memory[p]
    BY <1>11, <1>14 DEF Holds
  <2> QED BY <2>1, <2>2, <2>3, SameChunk
<1> QED BY <1>13, <1>14

LEMMA AllocNewChunkStep ==
  ASSUME Inv, NEW o \in Owners, NEW r \in Requests, NEW t \in Types, NEW a, NEW grant,
         a.flags \in Flags,
         memory[o] = NoMemory, AllocNewChunk(o, r, t, a, grant)
  PROVE  AllChunksOK'
<1>1. PICK k \in NewChunkSizes(t, r) :
        /\ Fits(Slice(0, k), r)
        /\ chunks' = [chunks EXCEPT ![t] = Append(@,
               [flags |-> a.flags, priority |-> Priority(a, r), size |-> k,
                free |-> Carve({Slice(0, k)}, Slice(0, k), Start(Slice(0, k), r), Finish(Slice(0, k), r))])]
        /\ Hold(o, r, t, Len(chunks[t]) + 1, Start(Slice(0, k), r),
                Finish(Slice(0, k), r) - Start(Slice(0, k), r))
  BY DEF AllocNewChunk
<1> DEFINE w == Slice(0, k)
           i == Len(chunks[t]) + 1
           whole == [flags |-> a.flags, priority |-> Priority(a, r), size |-> k, free |-> {w}]
           d == [flags |-> a.flags, priority |-> Priority(a, r), size |-> k,
                 free |-> Carve({w}, w, Start(w, r), Finish(w, r))]
           m == [type |-> t, chunk |-> i, offset |-> Start(w, r), length |-> Finish(w, r) - Start(w, r)]
<1>2. k \in Nat /\ k >= r.size /\ r.size \in Nat \ {0} /\ Priority(a, r) \in Nat
  BY RequestType DEF NewChunkSizes, Priority
<1>3. w \in Slices /\ w.offset = 0 /\ w.length = k /\ End(w) = k
  BY <1>2 DEF Slices, Slice, End
<1>4. /\ Start(w, r) \in Nat /\ Finish(w, r) \in Nat /\ w.offset <= Start(w, r)
      /\ Start(w, r) < Finish(w, r) /\ Finish(w, r) <= End(w)
  BY <1>1, <1>3, PieceOfSlice
<1>5. whole \in Chunk /\ whole.free = {w} /\ whole.size = k
  BY <1>2, <1>3 DEF Chunk
<1>6. d = [whole EXCEPT !.free = Carve(@, w, Start(w, r), Finish(w, r))]
  OBVIOUS
<1>7. /\ memory' = [memory EXCEPT ![o] = m]
      /\ chunks' = [chunks EXCEPT ![t] = Append(@, d)]
  BY <1>1 DEF Hold
<1>8. memory \in [Owners -> Memory \cup {NoMemory}] /\ chunks[t] \in Seq(Chunk)
  BY DEF Inv, TypeOK
<1> HIDE DEF w, whole, d, m
<1>9. i \in Nat \ {0} /\ Len(chunks[t]) \in Nat
  BY <1>8
<1>10. \A p \in Owners : ~Holds(memory, p, t, i)
  <2> SUFFICES ASSUME NEW p \in Owners, Holds(memory, p, t, i) PROVE FALSE
    OBVIOUS
  <2>1. memory[p].chunk \in 0 .. Len(chunks[t])
    BY DEF Holds, Inv, TypeOK
  <2> QED BY <2>1, <1>9 DEF Holds
<1>11. ChunkOK(whole, memory, t, i)
  <2>1. PairwiseApart({w}) /\ NoneAdjacent({w}) /\ \A s \in {w} : End(s) <= k
    BY <1>2, <1>3 DEF PairwiseApart, NoneAdjacent
  <2>2. \A b \in 0 .. k - 1 : \E s \in {w} : Within(b, s)
    BY <1>2, <1>3 DEF Within
  <2> QED BY <1>5, <1>10, <2>1, <2>2 DEF ChunkOK
<1>12. ChunkOK(d, memory', t, i)
  <2>1. w \in whole.free
    BY <1>5
  <2>2. memory' = [memory EXCEPT ![o] = [type |-> t, chunk |-> i, offset |-> Start(w, r),
                                         length |-> Finish(w, r) - Start(w, r)]]
    BY <1>7 DEF m
  <2> HIDE DEF i
  <2> QED BY <1>4, <1>5, <1>6, <1>8, <1>9, <1>11, <2>1, <2>2, CutFromChunk
<1>13. /\ chunks'[t] = Append(chunks[t], d)
       /\ \A u \in Types \ {t} : chunks'[u] = chunks[u]
  BY <1>7 DEF Inv, TypeOK
<1>14. /\ Len(chunks'[t]) = i /\ chunks'[t][i] = d
       /\ \A j \in 1 .. Len(chunks[t]) : chunks'[t][j] = chunks[t][j]
  <2>1. Len(Append(chunks[t], d)) = Len(chunks[t]) + 1 /\ Append(chunks[t], d)[Len(chunks[t]) + 1] = d
        /\ \A j \in 1 .. Len(chunks[t]) : Append(chunks[t], d)[j] = chunks[t][j]
    BY <1>8
  <2> QED BY <2>1, <1>13
<1>15. memory'[o].type = t /\ memory'[o].chunk = i /\ \A p \in Owners \ {o} : memory'[p] = memory[p]
  BY <1>7, <1>8 DEF m
<1>16. SUFFICES ASSUME NEW u \in Types, NEW j \in 1 .. Len(chunks'[u])
                PROVE  ChunkOK(chunks'[u][j], memory', u, j)
  BY DEF AllChunksOK
<1>17. CASE u = t /\ j = i
  BY <1>12, <1>14, <1>17
<1>18. CASE u # t \/ j # i
  <2>1. j \in 1 .. Len(chunks[u]) /\ chunks'[u][j] = chunks[u][j]
    BY <1>9, <1>13, <1>14, <1>18
  <2>2. ChunkOK(chunks[u][j], memory, u, j)
    BY <2>1 DEF Inv, AllChunksOK
  <2> HIDE DEF i
  <2>3. \A p \in Owners : Holds(memory, p, u, j) \/ Holds(memory', p, u, j) => memory'[p] = memory[p]
    BY <1>15, <1>18 DEF Holds
  <2> QED BY <2>1, <2>2, <2>3, SameChunk
<1> QED BY <1>17, <1>18

LEMMA FreeStep ==
  ASSUME Inv, NEW o \in Owners, Free(o)
  PROVE  TypeOK' /\ AllChunksOK'
<1> DEFINE m == memory[o]
           t == m.type
           i == m.chunk
<1>1. /\ m \in Memory /\ m # NoMemory /\ t \in Types /\ i \in 0 .. Len(chunks[t])
      /\ memory \in [Owners -> Memory \cup {NoMemory}]
  BY DEF Free, Inv, TypeOK, Memory
<1>2. memory' = [memory EXCEPT ![o] = NoMemory]
  BY DEF Free
<1>3. memory'[o] = NoMemory /\ \A p \in Owners \ {o} : memory'[p] = memory[p]
  BY <1>1, <1>2
<1>4. CASE i = 0
  <2>1. chunks' = chunks
    BY <1>4 DEF Free
  <2>2. TypeOK'
    BY <1>4, FreeType DEF Inv
  <2>3. SUFFICES ASSUME NEW u \in Types, NEW j \in 1 .. Len(chunks[u])
                 PROVE  ChunkOK(chunks[u][j], memory', u, j)
    BY <2>1, <2>2 DEF AllChunksOK
  <2>4. j # i /\ ChunkOK(chunks[u][j], memory, u, j)
    BY <1>4, ChunkType DEF Inv, AllChunksOK
  <2>5. \A p \in Owners : Holds(memory, p, u, j) \/ Holds(memory', p, u, j) => memory'[p] = memory[p]
    BY <1>3, <2>4 DEF Holds
  <2> QED BY <2>4, <2>5, SameChunk
<1>5. CASE i # 0
  <2> DEFINE c == chunks[t][i]
             new == Coalesce(c.free, Slice(m.offset, m.length))
             d == [c EXCEPT !.free = new]
  <2>1. i \in 1 .. Len(chunks[t])
    BY <1>1, <1>5
  <2>2. c \in Chunk /\ i \in Nat \ {0} /\ chunks[t] \in Seq(Chunk)
    BY <1>1, <2>1, ChunkType DEF Inv
  <2>3. ChunkOK(c, memory, t, i) /\ Holds(memory, o, t, i)
    BY <1>1, <2>1 DEF Inv, AllChunksOK, Holds
  <2>4. new \in SUBSET Slices /\ ChunkOK(d, memory', t, i)
    BY <1>1, <1>2, <2>2, <2>3, ReturnToChunk
  <2>5. TypeOK'
    BY <2>4, FreeType DEF Inv
  <2>6. chunks' = [chunks EXCEPT ![t][i].free = new]
    BY <1>5 DEF Free
  <2>7. chunks'[t] = [chunks[t] EXCEPT ![i] = d] /\ \A u \in Types \ {t} : chunks'[u] = chunks[u]
    BY <1>1, <2>6 DEF Inv, TypeOK
  <2> HIDE DEF c, d, new, i, t, m
  <2>8. Len(chunks'[t]) = Len(chunks[t]) /\ chunks'[t][i] = d
        /\ \A j \in 1 .. Len(chunks[t]) : j # i => chunks'[t][j] = chunks[t][j]
    BY <2>1, <2>2, <2>7
  <2>9. SUFFICES ASSUME NEW u \in Types, NEW j \in 1 .. Len(chunks'[u])
                 PROVE  ChunkOK(chunks'[u][j], memory', u, j)
    BY <2>5 DEF AllChunksOK
  <2>10. CASE u = t /\ j = i
    BY <2>4, <2>8, <2>10
  <2>11. CASE u # t \/ j # i
    <3>1. j \in 1 .. Len(chunks[u]) /\ chunks'[u][j] = chunks[u][j]
      BY <2>7, <2>8, <2>11
    <3>2. ChunkOK(chunks[u][j], memory, u, j)
      BY <3>1 DEF Inv, AllChunksOK
    <3>3. memory[o].type = t /\ memory[o].chunk = i
      BY DEF t, i, m
    <3>4. \A p \in Owners : Holds(memory, p, u, j) \/ Holds(memory', p, u, j) => memory'[p] = memory[p]
      BY <1>3, <2>11, <3>3 DEF Holds
    <3> QED BY <3>1, <3>2, <3>4, SameChunk
  <2> QED BY <2>10, <2>11
<1> QED BY <1>4, <1>5

LEMMA InitInv == Init => Inv
<1> SUFFICES ASSUME Init PROVE Inv
  OBVIOUS
<1>1. chunks \in [Types -> Seq(Chunk)] /\ \A t \in Types : Len(chunks[t]) = 0
  BY DEF Init
<1>2. TypeOK
  BY <1>1 DEF Init, TypeOK
<1>3. AllChunksOK
  BY <1>1 DEF AllChunksOK
<1> QED BY <1>2, <1>3 DEF Inv

LEMMA NextInv == Inv /\ [Next]_vars => Inv'
<1> SUFFICES ASSUME Inv, [Next]_vars PROVE Inv'
  OBVIOUS
<1>1. ASSUME NEW o \in Owners, Free(o) PROVE Inv'
  BY <1>1, FreeStep DEF Inv
<1>2. ASSUME NEW o \in Owners, NEW r \in Requests, Alloc(o, r) PROVE Inv'
  <2>1. PICK grant \in Grants, n \in DOMAIN Attempts(r), t \in Types :
          AllocFromType(o, r, t, Attempts(r)[n], grant)
    BY <1>2 DEF Alloc
  <2>2. memory[o] = NoMemory
    BY <1>2 DEF Alloc
  <2> DEFINE a == Attempts(r)[n]
  <2>3. a.flags \in Flags
    BY AttemptFlags
  <2>4. TypeOK'
    BY <2>1, AllocType DEF Inv
  <2> HIDE DEF a
  <2>5. \/ AllocDedicated(o, r, t, a, grant)
        \/ AllocFromChunk(o, r, t, a)
        \/ AllocNewChunk(o, r, t, a, grant)
    BY <2>1 DEF AllocFromType, a
  <2>6. AllChunksOK'
    BY <2>2, <2>3, <2>5, AllocDedicatedStep, AllocFromChunkStep, AllocNewChunkStep
  <2> QED BY <2>4, <2>6 DEF Inv
<1>3. CASE UNCHANGED vars
  BY <1>3 DEF Inv, TypeOK, AllChunksOK, vars
<1> QED BY <1>1, <1>2, <1>3 DEF Next

LEMMA InvAlways == Spec => []Inv
BY InitInv, NextInv, PTL DEF Spec

(* The allocator's state is well formed: in particular every piece of memory
   belongs to a chunk that exists. *)
THEOREM TypeCorrect == Spec => []TypeOK
<1>1. Inv => TypeOK
  BY DEF Inv
<1> QED BY InvAlways, <1>1, PTL

(* Whatever is allocated and freed, and whatever the driver refuses, pieces of a
   chunk never overlap and every byte is either in use or free. *)
THEOREM ChunksPartitioned == Spec => []Partition
<1>1. Inv => Partition
  BY ChunkByChunk DEF Inv
<1> QED BY InvAlways, <1>1, PTL

(* Free memory never stays split: what is free in one piece is one entry. *)
THEOREM FreeListsCoalesced == Spec => []Coalesced
<1>1. Inv => Coalesced
  BY ChunkByChunk DEF Inv
<1> QED BY InvAlways, <1>1, PTL

----------------------------------------------------------------------------
(* What an owner asked for *)

(* Division with remainder, and the multiples of a number. *)
LEMMA DivMod ==
  ASSUME NEW n \in Int, NEW d \in Nat \ {0}
  PROVE  n \div d \in Int /\ n % d \in 0 .. d - 1 /\ n = d * (n \div d) + (n % d)
  OBVIOUS

LEMMA MultipleMod ==
  ASSUME NEW d \in Nat \ {0}, NEW k \in Int
  PROVE  (d * k) % d = 0
<1> DEFINE n == d * k
           e == k - (n \div d)
<1>1. n \in Int
  OBVIOUS
<1>2. n \div d \in Int /\ n % d \in 0 .. d - 1 /\ n = d * (n \div d) + (n % d)
  <2> HIDE DEF n
  <2> QED BY <1>1, DivMod
<1>3. e \in Int /\ n % d = d * e
  <2> DEFINE p == n \div d
             m == n % d
  <2>1. p \in Int /\ m \in Int /\ d * k = d * p + m
    BY <1>2
  <2> HIDE DEF p, m
  <2>2. m = d * (k - p)
    BY <2>1
  <2> QED BY <2>1, <2>2 DEF p, m
<1>4. e >= 1 => d * e >= d
  <2> HIDE DEF e
  <2> QED BY <1>3
<1>5. e <= -1 => d * e <= -d
  <2> HIDE DEF e
  <2> QED BY <1>3
<1>6. n % d = 0
  <2> HIDE DEF n, e
  <2> DEFINE m == n % d
             x == d * e
  <2>1. m \in Int /\ 0 <= m /\ m < d /\ m = x /\ e \in Int
    BY <1>2, <1>3
  <2>2. (e >= 1 => x >= d) /\ (e <= -1 => x <= -d) /\ (e = 0 => x = 0)
    BY <1>4, <1>5
  <2> HIDE DEF m, x
  <2>3. m = 0
    BY <2>1, <2>2
  <2> QED BY <2>3 DEF m
<1> QED BY <1>6

(* Aligning makes an offset a multiple of the alignment. *)
LEMMA AlignUpAligned ==
  ASSUME NEW n \in Nat, NEW align \in Nat \ {0}
  PROVE  AlignUp(n, align) % align = 0
<1> DEFINE q == (-n) \div align
           m == (-n) % align
<1>1. q \in Int /\ m \in Int /\ -n = align * q + m
  BY DivMod
<1> HIDE DEF q, m
<1>2. AlignUp(n, align) = align * (-q) /\ -q \in Int
  <2>1. n + m = align * (-q)
    BY <1>1
  <2> QED BY <1>1, <2>1 DEF AlignUp, m
<1> QED BY <1>2, MultipleMod

(* Every attempt asks for what the request cannot do without. *)
LEMMA AttemptServes ==
  ASSUME NEW r \in Requests, NEW n \in DOMAIN Attempts(r)
  PROVE  /\ r.flags \ Optional \subseteq Attempts(r)[n].flags
         /\ r.dedicated = "required" => Attempts(r)[n].dedicated
<1> DEFINE one == <<[flags |-> r.flags, dedicated |-> r.dedicated # "no"]>>
           two == IF r.dedicated = "preferred"
                  THEN <<[flags |-> r.flags, dedicated |-> FALSE]>> ELSE <<>>
           three == IF r.flags \cap Optional # {}
                    THEN <<[flags |-> r.flags \ Optional, dedicated |-> r.dedicated = "required"]>>
                    ELSE <<>>
           Serves == {a \in [flags : Flags, dedicated : BOOLEAN] :
                        /\ r.flags \ Optional \subseteq a.flags
                        /\ r.dedicated = "required" => a.dedicated}
<1>1. r.flags \in Flags /\ r.flags \ Optional \in Flags
  BY AllocatorAssumption DEF Request, Flags
<1>2. one \in Seq(Serves) /\ two \in Seq(Serves) /\ three \in Seq(Serves)
  <2>1. [flags |-> r.flags, dedicated |-> r.dedicated # "no"] \in Serves
    BY <1>1
  <2>2. r.dedicated = "preferred" => [flags |-> r.flags, dedicated |-> FALSE] \in Serves
    BY <1>1
  <2>3. [flags |-> r.flags \ Optional, dedicated |-> r.dedicated = "required"] \in Serves
    BY <1>1
  <2> HIDE DEF Serves
  <2>4. one \in Seq(Serves)
    BY <2>1
  <2>5. two \in Seq(Serves)
    BY <2>2
  <2>6. three \in Seq(Serves)
    BY <2>3
  <2> QED BY <2>4, <2>5, <2>6
<1>3. Attempts(r) = one \o two \o three
  BY DEF Attempts
<1>4. Attempts(r) \in Seq(Serves)
  <2> HIDE DEF one, two, three, Serves
  <2> QED BY <1>2, <1>3
<1>5. Attempts(r)[n] \in Serves
  <2> HIDE DEF Serves
  <2>1. n \in 1 .. Len(Attempts(r))
    BY <1>4
  <2> QED BY <1>4, <2>1
<1> QED BY <1>5

(* The piece cut out of a slice is large enough and aligned. *)
LEMMA PieceServes ==
  ASSUME NEW r \in Requests, NEW s \in Slices
  PROVE  Finish(s, r) - Start(s, r) >= r.size /\ Start(s, r) % r.align = 0
<1>1. s.offset \in Nat /\ r.size \in Nat \ {0} /\ r.align \in Nat \ {0}
  BY RequestType DEF Slices
<1>2. Start(s, r) \in Nat /\ Start(s, r) % r.align = 0
  BY <1>1, AlignUpBound, AlignUpAligned DEF Start
<1>3. Finish(s, r) \in Nat /\ Finish(s, r) >= Start(s, r) + r.size
  <2>1. Start(s, r) + r.size \in Nat
    BY <1>1, <1>2
  <2> QED BY <1>1, <2>1, AlignUpBound DEF Finish
<1> QED BY <1>1, <1>2, <1>3

(* What an owner holds serves what it asked for. *)
Served(m, r) ==
    /\ m.length >= r.size /\ m.offset % r.align = 0
    /\ m.type \in r.types /\ r.flags \ Optional \subseteq TypeFlags[m.type]
    /\ r.dedicated = "required" => m.chunk = 0

LEMMA HoldServes ==
  ASSUME TypeOK, RequestServed, NEW o \in Owners, NEW r \in Requests, NEW t \in Types,
         NEW i \in Nat, NEW offset \in Nat, NEW length \in Nat,
         Hold(o, r, t, i, offset, length),
         length >= r.size, offset % r.align = 0, t \in r.types,
         r.flags \ Optional \subseteq TypeFlags[t], r.dedicated = "required" => i = 0
  PROVE  RequestServed'
<1> SUFFICES ASSUME NEW p \in Owners, memory'[p] # NoMemory
             PROVE  Served(memory'[p], request'[p])
  BY DEF RequestServed, Served
<1>1. /\ memory' = [memory EXCEPT ![o] = [type |-> t, chunk |-> i,
                                          offset |-> offset, length |-> length]]
      /\ request' = [request EXCEPT ![o] = r]
  BY DEF Hold
<1>2. CASE p = o
  BY <1>1, <1>2 DEF TypeOK, Served
<1>3. CASE p # o
  BY <1>1, <1>3 DEF TypeOK, RequestServed, Served
<1> QED BY <1>2, <1>3

LEMMA AllocServes ==
  ASSUME TypeOK, RequestServed, NEW o \in Owners, NEW r \in Requests, NEW t \in Types,
         NEW n \in DOMAIN Attempts(r), NEW grant \in Grants,
         AllocFromType(o, r, t, Attempts(r)[n], grant)
  PROVE  RequestServed'
<1> DEFINE a == Attempts(r)[n]
<1>1. /\ r.flags \ Optional \subseteq a.flags
      /\ r.dedicated = "required" => a.dedicated
  BY AttemptServes
<1> HIDE DEF a
<1>2. Supports(t, a, r)
  BY DEF AllocFromType, a
<1>3. t \in r.types /\ r.flags \ Optional \subseteq TypeFlags[t]
  BY <1>1, <1>2 DEF Supports
<1>4. r.size \in Nat \ {0} /\ r.align \in Nat \ {0}
  BY RequestType
<1>5. CASE AllocDedicated(o, r, t, a, grant)
  <2>1. Hold(o, r, t, 0, 0, r.size)
    BY <1>5 DEF AllocDedicated
  <2>2. 0 % r.align = 0
    BY <1>4
  <2> QED BY <1>3, <1>4, <2>1, <2>2, HoldServes
<1>6. r.dedicated = "required" => OwnMemory(t, a, r)
  BY <1>1 DEF OwnMemory
<1>7. CASE AllocFromChunk(o, r, t, a)
  <2>1. PICK i \in 1 .. Len(chunks[t]) : \E s \in Best(chunks[t][i].free, r.size) :
          Fits(s, r) /\ Hold(o, r, t, i, Start(s, r), Finish(s, r) - Start(s, r))
    BY <1>7 DEF AllocFromChunk
  <2>2. PICK s \in Best(chunks[t][i].free, r.size) :
          Fits(s, r) /\ Hold(o, r, t, i, Start(s, r), Finish(s, r) - Start(s, r))
    BY <2>1
  <2>3. s \in Slices /\ i \in Nat
    <3>1. chunks[t][i] \in Chunk /\ i \in Nat
      BY ChunkType
    <3> QED BY <3>1, BestIsFree DEF Chunk
  <2>4. Start(s, r) \in Nat /\ Finish(s, r) \in Nat /\ Start(s, r) < Finish(s, r)
    BY <2>2, <2>3, PieceOfSlice
  <2>5. Finish(s, r) - Start(s, r) \in Nat /\ Finish(s, r) - Start(s, r) >= r.size
        /\ Start(s, r) % r.align = 0
    BY <2>3, <2>4, PieceServes
  <2>6. ~OwnMemory(t, a, r)
    BY <1>7 DEF AllocFromChunk
  <2> QED BY <1>3, <1>6, <2>2, <2>3, <2>4, <2>5, <2>6, HoldServes
<1>8. CASE AllocNewChunk(o, r, t, a, grant)
  <2>1. PICK k \in NewChunkSizes(t, r) :
          /\ Fits(Slice(0, k), r)
          /\ Hold(o, r, t, Len(chunks[t]) + 1, Start(Slice(0, k), r),
                  Finish(Slice(0, k), r) - Start(Slice(0, k), r))
    BY <1>8 DEF AllocNewChunk
  <2> DEFINE w == Slice(0, k)
  <2>2. w \in Slices
    BY <1>4 DEF NewChunkSizes, Slices, Slice
  <2>3. Len(chunks[t]) + 1 \in Nat
    BY DEF TypeOK
  <2> HIDE DEF w
  <2>4. Fits(w, r) /\ Hold(o, r, t, Len(chunks[t]) + 1, Start(w, r), Finish(w, r) - Start(w, r))
    BY <2>1 DEF w
  <2>5. Start(w, r) \in Nat /\ Finish(w, r) \in Nat /\ Start(w, r) < Finish(w, r)
    BY <2>2, <2>4, PieceOfSlice
  <2>6. Finish(w, r) - Start(w, r) \in Nat /\ Finish(w, r) - Start(w, r) >= r.size
        /\ Start(w, r) % r.align = 0
    BY <2>2, <2>5, PieceServes
  <2>7. ~OwnMemory(t, a, r)
    BY <1>8 DEF AllocNewChunk
  <2> QED BY <1>3, <1>6, <2>3, <2>4, <2>5, <2>6, <2>7, HoldServes
<1> QED BY <1>5, <1>7, <1>8 DEF AllocFromType, a

LEMMA NextServes == Inv /\ RequestServed /\ [Next]_vars => RequestServed'
<1> SUFFICES ASSUME Inv, RequestServed, [Next]_vars PROVE RequestServed'
  OBVIOUS
<1>1. ASSUME NEW o \in Owners, Free(o) PROVE RequestServed'
  BY <1>1 DEF Free, RequestServed, Inv, TypeOK
<1>2. ASSUME NEW o \in Owners, NEW r \in Requests, Alloc(o, r) PROVE RequestServed'
  <2>1. PICK grant \in Grants, n \in DOMAIN Attempts(r), t \in Types :
          AllocFromType(o, r, t, Attempts(r)[n], grant)
    BY <1>2 DEF Alloc
  <2> QED BY <2>1, AllocServes DEF Inv
<1>3. CASE UNCHANGED vars
  BY <1>3 DEF RequestServed, vars
<1> QED BY <1>1, <1>2, <1>3 DEF Next

(* Whatever attempt, memory type and chunk an allocation ends up with, the owner
   gets memory it can use: large enough, aligned, of a type it accepts with the
   flags it cannot do without, and dedicated when it must be. *)
THEOREM RequestsServed == Spec => []RequestServed
<1>1. Init => RequestServed
  BY DEF Init, RequestServed
<1> QED BY InvAlways, <1>1, NextServes, PTL DEF Spec

----------------------------------------------------------------------------
(* The sums of the statistics *)

LengthOf(mem) == [o \in Owners |-> mem[o].length]
SizeOfChunks(s) == Total([i \in DOMAIN s |-> s[i].size], DOMAIN s)
SizeOf(chs) == [t \in Types |-> SizeOfChunks(chs[t])]

LEMMA SumOfLengths ==
  ASSUME NEW mem, NEW S \in SUBSET Owners, IsFiniteSet(S)
  PROVE  MapThenSumSet(LAMBDA o : mem[o].length, S) = Total(LengthOf(mem), S)
<1> DEFINE g == CHOOSE iter : iter = [s \in SUBSET S |->
                   IF s = {} THEN 0
                   ELSE LET x == CHOOSE x \in s : TRUE IN mem[x].length + iter[s \ {x}]]
<1>1. MapThenSumSet(LAMBDA o : mem[o].length, S) = g[S]
  BY DEF MapThenSumSet, MapThenFoldSet
<1>2. PICK f : IsSum(f, LengthOf(mem), S)
  BY SumExists
<1>3. \A s \in SUBSET S : s # {} =>
        LengthOf(mem)[CHOOSE x \in s : TRUE] = mem[CHOOSE x \in s : TRUE].length
  <2> SUFFICES ASSUME NEW s \in SUBSET S, s # {}
               PROVE  LengthOf(mem)[CHOOSE x \in s : TRUE] = mem[CHOOSE x \in s : TRUE].length
    OBVIOUS
  <2>1. (CHOOSE x \in s : TRUE) \in Owners
    BY SomeMember DEF Some
  <2> QED BY <2>1 DEF LengthOf
<1>4. f = [s \in SUBSET S |->
             IF s = {} THEN 0
             ELSE LET x == CHOOSE x \in s : TRUE IN mem[x].length + f[s \ {x}]]
  BY <1>2, <1>3 DEF IsSum, Some
<1>5. g = [s \in SUBSET S |->
             IF s = {} THEN 0
             ELSE LET x == CHOOSE x \in s : TRUE IN mem[x].length + g[s \ {x}]]
  BY <1>4
<1> HIDE DEF g
<1>6. IsSum(g, LengthOf(mem), S)
  BY <1>3, <1>5 DEF IsSum, Some
<1> QED BY <1>1, <1>6, TotalIsSum

LEMMA SumOfSizes ==
  ASSUME NEW chs, NEW S \in SUBSET Types, IsFiniteSet(S)
  PROVE  MapThenSumSet(LAMBDA t : FoldSeq(LAMBDA c, n : c.size + n, 0, chs[t]), S)
            = Total([t \in Types |-> FoldSeq(LAMBDA c, n : c.size + n, 0, chs[t])], S)
<1> DEFINE Sized(t) == FoldSeq(LAMBDA c, n : c.size + n, 0, chs[t])
           h == [t \in Types |-> Sized(t)]
<1> HIDE DEF Sized
<1> DEFINE g == CHOOSE iter : iter = [s \in SUBSET S |->
                   IF s = {} THEN 0
                   ELSE LET x == CHOOSE x \in s : TRUE IN Sized(x) + iter[s \ {x}]]
<1>1. MapThenSumSet(LAMBDA t : FoldSeq(LAMBDA c, n : c.size + n, 0, chs[t]), S) = g[S]
  BY DEF MapThenSumSet, MapThenFoldSet, Sized
<1>2. PICK f : IsSum(f, h, S)
  BY SumExists
<1>3. \A s \in SUBSET S : s # {} => h[CHOOSE x \in s : TRUE] = Sized(CHOOSE x \in s : TRUE)
  <2> SUFFICES ASSUME NEW s \in SUBSET S, s # {}
               PROVE  h[CHOOSE x \in s : TRUE] = Sized(CHOOSE x \in s : TRUE)
    OBVIOUS
  <2>1. (CHOOSE x \in s : TRUE) \in Types
    BY SomeMember DEF Some
  <2> QED BY <2>1
<1> HIDE DEF h
<1>4. f = [s \in SUBSET S |->
             IF s = {} THEN 0
             ELSE LET x == CHOOSE x \in s : TRUE IN Sized(x) + f[s \ {x}]]
  BY <1>2, <1>3 DEF IsSum, Some
<1>5. g = [s \in SUBSET S |->
             IF s = {} THEN 0
             ELSE LET x == CHOOSE x \in s : TRUE IN Sized(x) + g[s \ {x}]]
  BY <1>4
<1> HIDE DEF g
<1>6. IsSum(g, h, S)
  BY <1>3, <1>5 DEF IsSum, Some
<1>7. g[S] = Total(h, S)
  BY <1>6, TotalIsSum
<1> QED BY <1>1, <1>7 DEF h, Sized

LEMMA SumOfChunks ==
  ASSUME NEW s \in Seq(Chunk)
  PROVE  FoldSeq(LAMBDA c, n : c.size + n, 0, s) = SizeOfChunks(s)
<1> DEFINE D == DOMAIN s
           h == [i \in D |-> s[i].size]
           g == CHOOSE iter : iter = [d \in SUBSET D |->
                   IF d = {} THEN 0
                   ELSE LET x == CHOOSE x \in d : TRUE IN s[x].size + iter[d \ {x}]]
<1>1. FoldSeq(LAMBDA c, n : c.size + n, 0, s) = g[D]
  BY DEF FoldSeq, FoldFunction, FoldFunctionOnSet, MapThenFoldSet
<1>2. IsFiniteSet(D)
  <2>1. D = 1 .. Len(s) /\ Len(s) \in Nat
    OBVIOUS
  <2> QED BY <2>1, FS_Interval
<1> HIDE DEF D
<1>3. PICK f : IsSum(f, h, D)
  BY <1>2, SumExists
<1>4. \A d \in SUBSET D : d # {} => h[CHOOSE x \in d : TRUE] = s[CHOOSE x \in d : TRUE].size
  <2> SUFFICES ASSUME NEW d \in SUBSET D, d # {}
               PROVE  h[CHOOSE x \in d : TRUE] = s[CHOOSE x \in d : TRUE].size
    OBVIOUS
  <2>1. (CHOOSE x \in d : TRUE) \in D
    BY SomeMember DEF Some
  <2> QED BY <2>1
<1> HIDE DEF h
<1>5. f = [d \in SUBSET D |->
             IF d = {} THEN 0
             ELSE LET x == CHOOSE x \in d : TRUE IN s[x].size + f[d \ {x}]]
  BY <1>3, <1>4 DEF IsSum, Some
<1>6. g = [d \in SUBSET D |->
             IF d = {} THEN 0
             ELSE LET x == CHOOSE x \in d : TRUE IN s[x].size + g[d \ {x}]]
  BY <1>5
<1> HIDE DEF g
<1>7. IsSum(g, h, D)
  BY <1>4, <1>6 DEF IsSum, Some
<1>8. g[D] = Total(h, D)
  BY <1>2, <1>7, TotalIsSum
<1> QED BY <1>1, <1>8 DEF h, D, SizeOfChunks

TypesOf(h) == {t \in Types : HeapOf[t] = h}
Used(mem, h) == {o \in Owners : mem[o] # NoMemory /\ mem[o].type \in TypesOf(h)}
Own(mem, h) == {o \in Used(mem, h) : mem[o].chunk = 0}

(* HeapAccounting in terms of sums that can be reasoned about, with what makes
   the sums finite. *)
Accounted ==
    /\ IsFiniteSet({o \in Owners : memory[o] # NoMemory})
    /\ \A h \in Heaps :
          /\ memoryUsed[h] = Total(LengthOf(memory), Used(memory, h))
          /\ memoryAllocated[h] = Total(SizeOf(chunks), TypesOf(h))
                                  + Total(LengthOf(memory), Own(memory, h))

LEMMA FiniteTypes == ASSUME NEW h PROVE IsFiniteSet(TypesOf(h))
<1>1. IsFiniteSet(Types)
  <2>1. NumTypes \in Nat
    BY AllocatorAssumption
  <2> QED BY <2>1, FS_Interval DEF Types
<1> QED BY <1>1, FS_Subset DEF TypesOf

LEMMA FiniteUsers ==
  ASSUME NEW mem, IsFiniteSet({o \in Owners : mem[o] # NoMemory}), NEW h
  PROVE  IsFiniteSet(Used(mem, h)) /\ IsFiniteSet(Own(mem, h))
<1>1. /\ Used(mem, h) \subseteq {o \in Owners : mem[o] # NoMemory}
      /\ Own(mem, h) \subseteq {o \in Owners : mem[o] # NoMemory}
  BY DEF Used, Own
<1> QED BY <1>1, FS_Subset

LEMMA LengthInt ==
  ASSUME NEW mem \in [Owners -> Memory \cup {NoMemory}], NEW o \in Owners, mem[o] # NoMemory
  PROVE  LengthOf(mem)[o] \in Int /\ LengthOf(mem)[o] = mem[o].length
  BY DEF LengthOf, Memory

LEMMA SizeInt ==
  ASSUME NEW s \in Seq(Chunk)
  PROVE  SizeOfChunks(s) \in Int
<1>1. DOMAIN s = 1 .. Len(s) /\ Len(s) \in Nat /\ \A i \in DOMAIN s : s[i] \in Chunk
  OBVIOUS
<1>2. IsFiniteSet(DOMAIN s)
  BY <1>1, FS_Interval
<1> DEFINE h == [i \in DOMAIN s |-> s[i].size]
<1>3. \A i \in DOMAIN s : h[i] \in Int
  BY <1>1 DEF Chunk
<1> HIDE DEF h
<1>4. Total(h, DOMAIN s) \in Int
  BY <1>2, <1>3, TotalInt
<1> QED BY <1>4 DEF SizeOfChunks, h

LEMMA SizeAppend ==
  ASSUME NEW s \in Seq(Chunk), NEW d \in Chunk
  PROVE  SizeOfChunks(Append(s, d)) = d.size + SizeOfChunks(s)
<1> DEFINE n == Len(s)
           h == [i \in 1 .. n |-> s[i].size]
           k == [i \in 1 .. n + 1 |-> Append(s, d)[i].size]
<1>1. /\ n \in Nat /\ DOMAIN s = 1 .. n /\ DOMAIN Append(s, d) = 1 .. n + 1
      /\ \A i \in 1 .. n : s[i] \in Chunk /\ Append(s, d)[i] = s[i]
      /\ Append(s, d)[n + 1] = d
  OBVIOUS
<1>2. \A i \in 1 .. n : h[i] \in Int /\ k[i] = h[i]
  BY <1>1 DEF Chunk
<1>3. k[n + 1] = d.size /\ d.size \in Int
  BY <1>1 DEF Chunk
<1>4. IsFiniteSet(1 .. n) /\ n + 1 \notin 1 .. n /\ (1 .. n) \cup {n + 1} = 1 .. n + 1
  <2>1. n \in Nat
    BY <1>1
  <2> HIDE DEF n
  <2>2. IsFiniteSet(1 .. n)
    BY <2>1, FS_Interval
  <2> QED BY <2>1, <2>2
<1>5. SizeOfChunks(Append(s, d)) = Total(k, 1 .. n + 1) /\ SizeOfChunks(s) = Total(h, 1 .. n)
  BY <1>1 DEF SizeOfChunks
<1> HIDE DEF n, h, k
<1>6. Total(k, (1 .. n) \cup {n + 1}) = k[n + 1] + Total(k, 1 .. n)
  <2>1. \A x \in (1 .. n) \cup {n + 1} : k[x] \in Int
    BY <1>2, <1>3
  <2> QED BY <1>4, <2>1, TotalAdd
<1>7. Total(k, 1 .. n) = Total(h, 1 .. n)
  BY <1>2, <1>4, TotalSame
<1> QED BY <1>3, <1>4, <1>5, <1>6, <1>7

LEMMA SizeSame ==
  ASSUME NEW s \in Seq(Chunk), NEW i \in 1 .. Len(s), NEW d \in Chunk, d.size = s[i].size
  PROVE  SizeOfChunks([s EXCEPT ![i] = d]) = SizeOfChunks(s)
<1> DEFINE h == [j \in DOMAIN s |-> s[j].size]
           k == [j \in DOMAIN s |-> [s EXCEPT ![i] = d][j].size]
<1>1. IsFiniteSet(DOMAIN s)
  <2>1. DOMAIN s = 1 .. Len(s) /\ Len(s) \in Nat
    OBVIOUS
  <2>2. IsFiniteSet(1 .. Len(s))
    BY <2>1, FS_Interval
  <2> QED BY <2>1, <2>2
<1>2. \A j \in DOMAIN s : k[j] = h[j]
  OBVIOUS
<1>3. DOMAIN [s EXCEPT ![i] = d] = DOMAIN s
  OBVIOUS
<1> HIDE DEF h, k
<1>4. Total(k, DOMAIN s) = Total(h, DOMAIN s)
  BY <1>1, <1>2, TotalSame
<1>5. SizeOfChunks([s EXCEPT ![i] = d]) = Total(k, DOMAIN s)
  BY <1>3 DEF SizeOfChunks, k
<1> QED BY <1>4, <1>5 DEF SizeOfChunks, h

(* An owner more, or one less. *)
LEMMA LengthAdd ==
  ASSUME NEW mem \in [Owners -> Memory \cup {NoMemory}], NEW new \in [Owners -> Memory \cup {NoMemory}],
         NEW o \in Owners, mem[o] = NoMemory, new[o] # NoMemory,
         \A p \in Owners \ {o} : new[p] = mem[p],
         NEW S \in SUBSET Owners, IsFiniteSet(S), \A p \in S : mem[p] # NoMemory
  PROVE  /\ Total(LengthOf(new), S) = Total(LengthOf(mem), S)
         /\ Total(LengthOf(new), S \cup {o}) = new[o].length + Total(LengthOf(mem), S)
<1>1. o \notin S
  OBVIOUS
<1>2. \A p \in S : LengthOf(new)[p] = LengthOf(mem)[p]
  BY <1>1 DEF LengthOf
<1>3. Total(LengthOf(new), S) = Total(LengthOf(mem), S)
  BY <1>2, TotalSame
<1>4. \A p \in S \cup {o} : LengthOf(new)[p] \in Int
  <2>1. \A p \in S \cup {o} : new[p] # NoMemory /\ p \in Owners
    BY <1>1
  <2> QED BY <2>1, LengthInt
<1>5. Total(LengthOf(new), S \cup {o}) = LengthOf(new)[o] + Total(LengthOf(new), S)
  BY <1>1, <1>4, TotalAdd
<1>6. LengthOf(new)[o] = new[o].length
  BY LengthInt
<1> QED BY <1>3, <1>5, <1>6

(* What Hold does, without the values it is given. *)
Held(o) ==
    /\ memory' \in [Owners -> Memory \cup {NoMemory}]
    /\ memory[o] = NoMemory /\ memory'[o] # NoMemory
    /\ \A p \in Owners \ {o} : memory'[p] = memory[p]
    /\ memoryUsed' = [memoryUsed EXCEPT ![HeapOf[memory'[o].type]] = @ + memory'[o].length]

LEMMA HoldMeans ==
  ASSUME TypeOK, NEW o \in Owners, NEW r, NEW t \in Types, NEW i \in Nat,
         NEW offset \in Nat, NEW length \in Nat \ {0}, Hold(o, r, t, i, offset, length),
         memory[o] = NoMemory
  PROVE  /\ Held(o)
         /\ memory'[o].type = t /\ memory'[o].chunk = i /\ memory'[o].length = length
<1> DEFINE m == [type |-> t, chunk |-> i, offset |-> offset, length |-> length]
<1>1. /\ memory' = [memory EXCEPT ![o] = m]
      /\ memoryUsed' = [memoryUsed EXCEPT ![HeapOf[t]] = @ + length]
  BY DEF Hold
<1>2. m \in Memory /\ m # NoMemory /\ m.type = t /\ m.chunk = i /\ m.length = length
  BY AllocatorAssumption DEF Memory
<1>3. memory \in [Owners -> Memory \cup {NoMemory}]
  BY DEF TypeOK
<1> HIDE DEF m
<1>4. /\ memory' \in [Owners -> Memory \cup {NoMemory}] /\ memory'[o] = m
      /\ \A p \in Owners \ {o} : memory'[p] = memory[p]
  BY <1>1, <1>2, <1>3
<1> QED BY <1>1, <1>2, <1>4 DEF Held

(* What it does to the sums of lengths. *)
LEMMA HoldSums ==
  ASSUME TypeOK, Accounted, NEW o \in Owners, Held(o)
  PROVE  /\ IsFiniteSet({p \in Owners : memory'[p] # NoMemory})
         /\ \A h \in Heaps : memoryUsed'[h] = Total(LengthOf(memory'), Used(memory', h))
         /\ \A h \in Heaps : h = HeapOf[memory'[o].type] /\ memory'[o].chunk = 0 =>
               Total(LengthOf(memory'), Own(memory', h)) =
                  memory'[o].length + Total(LengthOf(memory), Own(memory, h))
         /\ \A h \in Heaps : h # HeapOf[memory'[o].type] \/ memory'[o].chunk # 0 =>
               Total(LengthOf(memory'), Own(memory', h)) = Total(LengthOf(memory), Own(memory, h))
<1> DEFINE g == HeapOf[memory'[o].type]
           n == memory'[o].length
           own == memory'[o].chunk = 0
<1>1. memory \in [Owners -> Memory \cup {NoMemory}] /\ memoryUsed \in [Heaps -> Int]
  BY DEF TypeOK
<1>2. /\ memory' \in [Owners -> Memory \cup {NoMemory}]
      /\ memory[o] = NoMemory /\ memory'[o] # NoMemory
      /\ \A p \in Owners \ {o} : memory'[p] = memory[p]
      /\ memoryUsed' = [memoryUsed EXCEPT ![g] = @ + n]
  BY DEF Held
<1>3. n \in Int
  BY <1>2 DEF Memory
<1>5. IsFiniteSet({p \in Owners : memory'[p] # NoMemory})
  <2>1. {p \in Owners : memory'[p] # NoMemory} = {p \in Owners : memory[p] # NoMemory} \cup {o}
    BY <1>2
  <2> QED BY <2>1, FS_AddElement DEF Accounted
<1>6. ASSUME NEW h \in Heaps
      PROVE  /\ h = g => Used(memory', h) = Used(memory, h) \cup {o}
             /\ h # g => Used(memory', h) = Used(memory, h)
             /\ h = g /\ own => Own(memory', h) = Own(memory, h) \cup {o}
             /\ h # g \/ ~own => Own(memory', h) = Own(memory, h)
  <2>1. memory'[o].type \in Types
    BY <1>2 DEF Memory
  <2> QED BY <1>2, <2>1 DEF Used, Own, TypesOf
<1> HIDE DEF g, n, own
<1>7. ASSUME NEW h \in Heaps
      PROVE  /\ Used(memory, h) \in SUBSET Owners /\ IsFiniteSet(Used(memory, h))
             /\ \A p \in Used(memory, h) : memory[p] # NoMemory
             /\ Own(memory, h) \in SUBSET Owners /\ IsFiniteSet(Own(memory, h))
             /\ \A p \in Own(memory, h) : memory[p] # NoMemory
  BY FiniteUsers DEF Used, Own, Accounted
<1>8. ASSUME NEW h \in Heaps
      PROVE  /\ Total(LengthOf(memory'), Used(memory, h)) = Total(LengthOf(memory), Used(memory, h))
             /\ Total(LengthOf(memory'), Used(memory, h) \cup {o}) = n + Total(LengthOf(memory), Used(memory, h))
             /\ Total(LengthOf(memory'), Own(memory, h)) = Total(LengthOf(memory), Own(memory, h))
             /\ Total(LengthOf(memory'), Own(memory, h) \cup {o}) = n + Total(LengthOf(memory), Own(memory, h))
  BY <1>1, <1>2, <1>7, LengthAdd DEF n
<1>9. ASSUME NEW h \in Heaps
      PROVE  memoryUsed'[h] = Total(LengthOf(memory'), Used(memory', h))
  <2> DEFINE x == Total(LengthOf(memory), Used(memory, h))
             y == Total(LengthOf(memory'), Used(memory', h))
  <2>1. memoryUsed[h] = x /\ x \in Int
    BY <1>1 DEF Accounted
  <2>2. (h = g => memoryUsed'[h] = memoryUsed[h] + n) /\ (h # g => memoryUsed'[h] = memoryUsed[h])
    BY <1>1, <1>2
  <2>3. (h = g => y = n + x) /\ (h # g => y = x)
    BY <1>6, <1>8
  <2> HIDE DEF x, y
  <2>4. memoryUsed'[h] = y
    BY <1>3, <2>1, <2>2, <2>3
  <2> QED BY <2>4 DEF y
<1> QED BY <1>5, <1>6, <1>8, <1>9 DEF g, n, own

LEMMA SumsInt ==
  ASSUME TypeOK, Accounted, NEW h \in Heaps
  PROVE  Total(LengthOf(memory), Own(memory, h)) \in Int /\ Total(SizeOf(chunks), TypesOf(h)) \in Int
<1>1. \A p \in Own(memory, h) : LengthOf(memory)[p] \in Int
  BY LengthInt DEF Own, Used, TypeOK
<1>2. \A u \in TypesOf(h) : SizeOf(chunks)[u] \in Int
  BY SizeInt DEF TypesOf, SizeOf, TypeOK
<1> QED BY <1>1, <1>2, FiniteUsers, FiniteTypes, TotalInt DEF Accounted

(* Memory of its own, of which the heap is charged what is held. *)
LEMMA AccountedDedicated ==
  ASSUME TypeOK, Accounted, NEW o \in Owners, NEW r \in Requests, NEW t \in Types, NEW a, NEW grant,
         memory[o] = NoMemory, AllocDedicated(o, r, t, a, grant)
  PROVE  Accounted'
<1>1. Hold(o, r, t, 0, 0, r.size) /\ AllocDeviceMemory(t, r.size) /\ chunks' = chunks
      /\ r.size \in Nat \ {0}
  BY RequestType DEF AllocDedicated
<1>2. /\ IsFiniteSet({p \in Owners : memory'[p] # NoMemory})
      /\ \A h \in Heaps : memoryUsed'[h] = Total(LengthOf(memory'), Used(memory', h))
      /\ \A h \in Heaps : h = HeapOf[t] =>
            Total(LengthOf(memory'), Own(memory', h)) = r.size + Total(LengthOf(memory), Own(memory, h))
      /\ \A h \in Heaps : h # HeapOf[t] =>
            Total(LengthOf(memory'), Own(memory', h)) = Total(LengthOf(memory), Own(memory, h))
  <2>1. /\ Held(o)
        /\ memory'[o].type = t /\ memory'[o].chunk = 0 /\ memory'[o].length = r.size
    BY <1>1, HoldMeans
  <2>2. HeapOf[memory'[o].type] = HeapOf[t]
    BY <2>1
  <2> QED BY <2>1, <2>2, HoldSums
<1>3. ASSUME NEW h \in Heaps
      PROVE  memoryAllocated'[h] = Total(SizeOf(chunks'), TypesOf(h)) + Total(LengthOf(memory'), Own(memory', h))
  <2> DEFINE x == Total(LengthOf(memory), Own(memory, h))
             s == Total(SizeOf(chunks), TypesOf(h))
             y == Total(LengthOf(memory'), Own(memory', h))
             n == r.size
  <2>1. memoryAllocated[h] = s + x
    BY DEF Accounted
  <2>2. x \in Int /\ s \in Int /\ n \in Nat
    BY <1>1, SumsInt
  <2>3. memoryAllocated'[h] = IF h = HeapOf[t] THEN memoryAllocated[h] + n ELSE memoryAllocated[h]
    BY <1>1 DEF AllocDeviceMemory, TypeOK
  <2>4. y = IF h = HeapOf[t] THEN n + x ELSE x
    BY <1>2
  <2>5. Total(SizeOf(chunks'), TypesOf(h)) = s
    BY <1>1
  <2> HIDE DEF x, s, y, n
  <2>6. memoryAllocated'[h] = s + y
    BY <2>1, <2>2, <2>3, <2>4
  <2> QED BY <2>5, <2>6 DEF y
<1> QED BY <1>2, <1>3 DEF Accounted

(* A piece of a chunk, whose size stays what it is. *)
LEMMA AccountedFromChunk ==
  ASSUME TypeOK, TypeOK', Accounted, NEW o \in Owners, NEW r \in Requests, NEW t \in Types, NEW a,
         memory[o] = NoMemory, AllocFromChunk(o, r, t, a)
  PROVE  Accounted'
<1>1. PICK i \in 1 .. Len(chunks[t]) : \E s \in Best(chunks[t][i].free, r.size) :
        /\ Fits(s, r)
        /\ chunks' = [chunks EXCEPT ![t][i].free = Carve(@, s, Start(s, r), Finish(s, r))]
        /\ Hold(o, r, t, i, Start(s, r), Finish(s, r) - Start(s, r))
  BY DEF AllocFromChunk
<1>2. PICK s \in Best(chunks[t][i].free, r.size) :
        /\ Fits(s, r)
        /\ chunks' = [chunks EXCEPT ![t][i].free = Carve(@, s, Start(s, r), Finish(s, r))]
        /\ Hold(o, r, t, i, Start(s, r), Finish(s, r) - Start(s, r))
  BY <1>1
<1> DEFINE c == chunks[t][i]
           d == [c EXCEPT !.free = Carve(@, s, Start(s, r), Finish(s, r))]
<1>3. c \in Chunk /\ i \in Nat \ {0} /\ chunks[t] \in Seq(Chunk)
  BY ChunkType
<1>4. s \in Slices
  BY <1>3, BestIsFree DEF Chunk
<1>5. Start(s, r) \in Nat /\ Finish(s, r) - Start(s, r) \in Nat \ {0}
  <2>1. Start(s, r) \in Nat /\ Finish(s, r) \in Nat /\ Start(s, r) < Finish(s, r)
    BY <1>2, <1>4, PieceOfSlice
  <2> QED BY <2>1
<1>6. /\ IsFiniteSet({p \in Owners : memory'[p] # NoMemory})
      /\ \A h \in Heaps : memoryUsed'[h] = Total(LengthOf(memory'), Used(memory', h))
      /\ \A h \in Heaps : Total(LengthOf(memory'), Own(memory', h)) = Total(LengthOf(memory), Own(memory, h))
  <2>1. Held(o) /\ memory'[o].chunk = i
    BY <1>2, <1>3, <1>5, HoldMeans
  <2>2. memory'[o].chunk # 0
    BY <1>3, <2>1
  <2> QED BY <2>1, <2>2, HoldSums
<1>7. chunks'[t] = [chunks[t] EXCEPT ![i] = d] /\ \A u \in Types \ {t} : chunks'[u] = chunks[u]
  BY <1>2 DEF TypeOK
<1>8. d.size = c.size
  BY <1>3 DEF Chunk
<1> HIDE DEF c, d
<1>9. chunks'[t] \in Seq(Chunk) /\ Len(chunks'[t]) = Len(chunks[t]) /\ chunks'[t][i] = d
  BY <1>3, <1>7 DEF TypeOK
<1>10. d \in Chunk
  BY <1>9
<1>11. SizeOfChunks(chunks'[t]) = SizeOfChunks(chunks[t])
  BY <1>3, <1>7, <1>8, <1>10, SizeSame DEF c
<1>12. \A u \in Types : SizeOf(chunks')[u] = SizeOf(chunks)[u]
  BY <1>7, <1>11 DEF SizeOf
<1>13. \A h \in Heaps : Total(SizeOf(chunks'), TypesOf(h)) = Total(SizeOf(chunks), TypesOf(h))
  <2>1. \A h : TypesOf(h) \subseteq Types
    BY DEF TypesOf
  <2> QED BY <2>1, <1>12, FiniteTypes, TotalSame
<1>14. memoryAllocated' = memoryAllocated /\ i # 0
  BY <1>3 DEF AllocFromChunk
<1> QED BY <1>6, <1>13, <1>14 DEF Accounted

(* A new chunk, of which the heap is charged all. *)
LEMMA AccountedNewChunk ==
  ASSUME TypeOK, TypeOK', Accounted, NEW o \in Owners, NEW r \in Requests, NEW t \in Types, NEW a, NEW grant,
         memory[o] = NoMemory, AllocNewChunk(o, r, t, a, grant)
  PROVE  Accounted'
<1>1. PICK k \in NewChunkSizes(t, r) :
        /\ AllocDeviceMemory(t, k)
        /\ Fits(Slice(0, k), r)
        /\ chunks' = [chunks EXCEPT ![t] = Append(@,
               [flags |-> a.flags, priority |-> Priority(a, r), size |-> k,
                free |-> Carve({Slice(0, k)}, Slice(0, k), Start(Slice(0, k), r), Finish(Slice(0, k), r))])]
        /\ Hold(o, r, t, Len(chunks[t]) + 1, Start(Slice(0, k), r),
                Finish(Slice(0, k), r) - Start(Slice(0, k), r))
  BY DEF AllocNewChunk
<1> DEFINE w == Slice(0, k)
           i == Len(chunks[t]) + 1
           d == [flags |-> a.flags, priority |-> Priority(a, r), size |-> k,
                 free |-> Carve({w}, w, Start(w, r), Finish(w, r))]
<1>2. k \in Nat /\ k >= r.size /\ r.size \in Nat \ {0}
  BY RequestType DEF NewChunkSizes
<1>3. w \in Slices /\ d.size = k
  BY <1>2 DEF Slices, Slice
<1>4. /\ Hold(o, r, t, i, Start(w, r), Finish(w, r) - Start(w, r)) /\ Fits(w, r)
      /\ chunks' = [chunks EXCEPT ![t] = Append(@, d)]
  BY <1>1
<1> HIDE DEF w, d
<1>5. chunks[t] \in Seq(Chunk) /\ i \in Nat /\ i # 0
  BY DEF TypeOK
<1> HIDE DEF i
<1>6. Start(w, r) \in Nat /\ Finish(w, r) - Start(w, r) \in Nat \ {0}
  <2>1. Start(w, r) \in Nat /\ Finish(w, r) \in Nat /\ Start(w, r) < Finish(w, r)
    BY <1>3, <1>4, PieceOfSlice
  <2> QED BY <2>1
<1>7. /\ IsFiniteSet({p \in Owners : memory'[p] # NoMemory})
      /\ \A h \in Heaps : memoryUsed'[h] = Total(LengthOf(memory'), Used(memory', h))
      /\ \A h \in Heaps : Total(LengthOf(memory'), Own(memory', h)) = Total(LengthOf(memory), Own(memory, h))
  <2>1. Held(o) /\ memory'[o].chunk = i
    BY <1>4, <1>5, <1>6, HoldMeans
  <2>2. memory'[o].chunk # 0
    BY <1>5, <2>1
  <2> QED BY <2>1, <2>2, HoldSums
<1>8. chunks'[t] = Append(chunks[t], d) /\ \A u \in Types \ {t} : chunks'[u] = chunks[u]
  BY <1>4 DEF TypeOK
<1>9. d \in Chunk
  <2>1. Append(chunks[t], d) \in Seq(Chunk)
    BY <1>8 DEF TypeOK
  <2>2. Len(Append(chunks[t], d)) = Len(chunks[t]) + 1 /\ Append(chunks[t], d)[Len(chunks[t]) + 1] = d
        /\ Len(chunks[t]) \in Nat
    BY <1>5
  <2> QED BY <2>1, <2>2, ElementOfSeq
<1>10. SizeOfChunks(chunks'[t]) = k + SizeOfChunks(chunks[t])
  BY <1>3, <1>5, <1>8, <1>9, SizeAppend
<1>11. \A u \in Types : SizeOf(chunks)[u] \in Int /\ SizeOf(chunks')[u] \in Int
  BY SizeInt DEF SizeOf, TypeOK
<1>12. \A u \in Types \ {t} : SizeOf(chunks')[u] = SizeOf(chunks)[u]
  BY <1>8 DEF SizeOf
<1>13. SizeOf(chunks')[t] = k + SizeOf(chunks)[t]
  BY <1>10 DEF SizeOf
<1>14. ASSUME NEW h \in Heaps
       PROVE  memoryAllocated'[h] = Total(SizeOf(chunks'), TypesOf(h)) + Total(LengthOf(memory'), Own(memory', h))
  <2> DEFINE x == Total(LengthOf(memory), Own(memory, h))
             s == Total(SizeOf(chunks), TypesOf(h))
             z == Total(SizeOf(chunks'), TypesOf(h))
             p == SizeOf(chunks)[t]
             q == SizeOf(chunks')[t]
  <2>1. memoryAllocated[h] = s + x
    BY DEF Accounted
  <2>2. x \in Int /\ s \in Int /\ p \in Int /\ q = k + p
    BY <1>11, <1>13, SumsInt
  <2>3. memoryAllocated'[h] = IF h = HeapOf[t] THEN memoryAllocated[h] + k ELSE memoryAllocated[h]
    BY <1>1 DEF AllocDeviceMemory, TypeOK
  <2>4. Total(LengthOf(memory'), Own(memory', h)) = x
    BY <1>5, <1>7
  <2>5. CASE h = HeapOf[t]
    <3>1. t \in TypesOf(h) /\ IsFiniteSet(TypesOf(h)) /\ TypesOf(h) \subseteq Types
      BY <2>5, FiniteTypes DEF TypesOf
    <3>2. z = (s - p) + q
      BY <3>1, <1>11, <1>12, TotalChange
    <3> HIDE DEF x, s, z, p, q
    <3>3. memoryAllocated'[h] = z + x
      BY <3>2, <2>1, <2>2, <2>3, <2>5, <1>2
    <3> QED BY <3>3, <2>4 DEF z
  <2>6. CASE h # HeapOf[t]
    <3>1. t \notin TypesOf(h) /\ IsFiniteSet(TypesOf(h)) /\ TypesOf(h) \subseteq Types
      BY <2>6, FiniteTypes DEF TypesOf
    <3>2. z = s
      BY <3>1, <1>12, TotalSame
    <3> QED BY <3>2, <2>1, <2>3, <2>4, <2>6
  <2> QED BY <2>5, <2>6
<1> QED BY <1>7, <1>14 DEF Accounted

(* What is given back was charged when it was taken. *)
LEMMA AccountedFree ==
  ASSUME TypeOK, TypeOK', Accounted, NEW o \in Owners, Free(o)
  PROVE  Accounted'
<1> DEFINE m == memory[o]
           t == m.type
           n == m.length
<1>1. /\ m \in Memory /\ m # NoMemory /\ t \in Types /\ n \in Nat \ {0} /\ m.chunk \in Nat
      /\ memory \in [Owners -> Memory \cup {NoMemory}]
      /\ memory' \in [Owners -> Memory \cup {NoMemory}]
      /\ memory' = [memory EXCEPT ![o] = NoMemory]
      /\ memoryUsed' = [memoryUsed EXCEPT ![HeapOf[t]] = @ - n]
  BY DEF Free, TypeOK, Memory
<1>2. memory'[o] = NoMemory /\ \A p \in Owners \ {o} : memory'[p] = memory[p]
  BY <1>1
<1> HIDE DEF m, t, n
<1>3. IsFiniteSet({p \in Owners : memory'[p] # NoMemory})
  <2>1. {p \in Owners : memory'[p] # NoMemory} \in SUBSET {p \in Owners : memory[p] # NoMemory}
    BY <1>2
  <2> QED BY <2>1, FS_Subset DEF Accounted
<1>4. ASSUME NEW h \in Heaps
      PROVE  /\ Used(memory, h) = IF h = HeapOf[t] THEN Used(memory', h) \cup {o} ELSE Used(memory', h)
             /\ Own(memory, h) = IF h = HeapOf[t] /\ m.chunk = 0 THEN Own(memory', h) \cup {o} ELSE Own(memory', h)
  BY <1>1, <1>2 DEF Used, Own, TypesOf, m, t
<1>5. ASSUME NEW h \in Heaps
      PROVE  /\ Used(memory', h) \in SUBSET Owners /\ IsFiniteSet(Used(memory', h))
             /\ \A p \in Used(memory', h) : memory'[p] # NoMemory
             /\ Own(memory', h) \in SUBSET Owners /\ IsFiniteSet(Own(memory', h))
             /\ \A p \in Own(memory', h) : memory'[p] # NoMemory
  BY <1>3, FiniteUsers DEF Used, Own
<1>6. ASSUME NEW S \in SUBSET Owners, IsFiniteSet(S), \A p \in S : memory'[p] # NoMemory
      PROVE  /\ Total(LengthOf(memory), S) = Total(LengthOf(memory'), S)
             /\ Total(LengthOf(memory), S \cup {o}) = n + Total(LengthOf(memory'), S)
             /\ Total(LengthOf(memory'), S) \in Int
  <2>1. /\ Total(LengthOf(memory), S) = Total(LengthOf(memory'), S)
        /\ Total(LengthOf(memory), S \cup {o}) = memory[o].length + Total(LengthOf(memory'), S)
    <3>1. memory[o] # NoMemory /\ \A p \in Owners \ {o} : memory[p] = memory'[p]
      BY <1>1, <1>2 DEF m
    <3>2. /\ memory \in [Owners -> Memory \cup {NoMemory}] /\ memory' \in [Owners -> Memory \cup {NoMemory}]
          /\ memory'[o] = NoMemory
      BY <1>1, <1>2
    <3> DEFINE old == memory'
    <3> HIDE DEF old
    <3>3. /\ Total(LengthOf(memory), S) = Total(LengthOf(old), S)
          /\ Total(LengthOf(memory), S \cup {o}) = memory[o].length + Total(LengthOf(old), S)
      <4>1. /\ old \in [Owners -> Memory \cup {NoMemory}] /\ old[o] = NoMemory
            /\ \A p \in Owners \ {o} : memory[p] = old[p]
            /\ \A p \in S : old[p] # NoMemory
        BY <3>1, <3>2, <1>6 DEF old
      <4> QED BY <3>1, <3>2, <4>1, <1>6, LengthAdd
    <3> QED BY <3>3 DEF old
  <2>2. Total(LengthOf(memory'), S) \in Int
    BY <1>1, <1>6, LengthInt, TotalInt
  <2> QED BY <2>1, <2>2 DEF m, n
<1>7. ASSUME NEW h \in Heaps
      PROVE  memoryUsed'[h] = Total(LengthOf(memory'), Used(memory', h))
  <2> DEFINE x == Total(LengthOf(memory'), Used(memory', h))
             y == Total(LengthOf(memory), Used(memory, h))
  <2>1. x \in Int /\ memoryUsed[h] = y
    BY <1>5, <1>6 DEF Accounted
  <2>2. y = IF h = HeapOf[t] THEN n + x ELSE x
    BY <1>4, <1>5, <1>6
  <2>3. memoryUsed'[h] = IF h = HeapOf[t] THEN memoryUsed[h] - n ELSE memoryUsed[h]
    BY <1>1 DEF TypeOK
  <2> HIDE DEF x, y
  <2>4. memoryUsed'[h] = x
    BY <2>1, <2>2, <2>3, <1>1
  <2> QED BY <2>4 DEF x
<1>8. CASE m.chunk # 0
  <2> DEFINE new == Coalesce(chunks[t][m.chunk].free, Slice(m.offset, m.length))
             i == m.chunk
             c == chunks[t][i]
             d == [c EXCEPT !.free = new]
  <2>1. chunks' = [chunks EXCEPT ![t][i].free = new] /\ memoryAllocated' = memoryAllocated
    BY <1>8 DEF Free, m, t
  <2>2. i \in 1 .. Len(chunks[t]) /\ chunks[t] \in Seq(Chunk) /\ c \in Chunk
    <3>1. i \in 0 .. Len(chunks[t])
      BY <1>1 DEF TypeOK, m, t
    <3>2. i \in 1 .. Len(chunks[t])
      BY <3>1, <1>8
    <3> QED BY <3>2, <1>1, ChunkType
  <2>3. chunks'[t] = [chunks[t] EXCEPT ![i] = d] /\ \A u \in Types \ {t} : chunks'[u] = chunks[u]
    <3> HIDE DEF new
    <3> QED BY <1>1, <2>1 DEF TypeOK
  <2>4. d.size = c.size
    BY <2>2 DEF Chunk
  <2> HIDE DEF c, d, i
  <2>5. d \in Chunk
    <3>1. chunks'[t] \in Seq(Chunk) /\ Len(chunks'[t]) = Len(chunks[t]) /\ chunks'[t][i] = d
      BY <1>1, <2>2, <2>3 DEF TypeOK
    <3> QED BY <3>1, <2>2
  <2>6. SizeOfChunks(chunks'[t]) = SizeOfChunks(chunks[t])
    BY <2>2, <2>3, <2>4, <2>5, SizeSame DEF c
  <2>7. \A u \in Types : SizeOf(chunks')[u] = SizeOf(chunks)[u]
    BY <2>3, <2>6 DEF SizeOf
  <2>8. \A h \in Heaps : Total(SizeOf(chunks'), TypesOf(h)) = Total(SizeOf(chunks), TypesOf(h))
    <3>1. \A h : TypesOf(h) \subseteq Types
      BY DEF TypesOf
    <3> QED BY <3>1, <2>7, FiniteTypes, TotalSame
  <2>9. \A h \in Heaps : Total(LengthOf(memory'), Own(memory', h)) = Total(LengthOf(memory), Own(memory, h))
    BY <1>4, <1>5, <1>6, <1>8
  <2> QED BY <1>3, <1>7, <2>1, <2>8, <2>9 DEF Accounted
<1>9. CASE m.chunk = 0
  <2>1. chunks' = chunks /\ memoryAllocated' = [memoryAllocated EXCEPT ![HeapOf[t]] = @ - n]
    BY <1>9 DEF Free, Release, m, t, n
  <2>2. ASSUME NEW h \in Heaps
        PROVE  memoryAllocated'[h] = Total(SizeOf(chunks'), TypesOf(h)) + Total(LengthOf(memory'), Own(memory', h))
    <3> DEFINE x == Total(LengthOf(memory'), Own(memory', h))
               y == Total(LengthOf(memory), Own(memory, h))
               s == Total(SizeOf(chunks), TypesOf(h))
    <3>1. x \in Int /\ s \in Int /\ memoryAllocated[h] = s + y
      BY <1>5, <1>6, SumsInt DEF Accounted
    <3>2. y = IF h = HeapOf[t] THEN n + x ELSE x
      BY <1>4, <1>5, <1>6, <1>9
    <3>3. memoryAllocated'[h] = IF h = HeapOf[t] THEN memoryAllocated[h] - n ELSE memoryAllocated[h]
      BY <2>1 DEF TypeOK
    <3> HIDE DEF x, y, s
    <3>4. memoryAllocated'[h] = s + x
      BY <3>1, <3>2, <3>3, <1>1
    <3> QED BY <3>4, <2>1 DEF s, x
  <2> QED BY <1>3, <1>7, <2>2 DEF Accounted
<1> QED BY <1>8, <1>9

LEMMA NextAccounted == Inv /\ Accounted /\ [Next]_vars => Accounted'
<1> SUFFICES ASSUME Inv, Accounted, [Next]_vars PROVE Accounted'
  OBVIOUS
<1>0. TypeOK /\ TypeOK'
  BY NextInv DEF Inv
<1>1. ASSUME NEW o \in Owners, Free(o) PROVE Accounted'
  BY <1>0, <1>1, AccountedFree
<1>2. ASSUME NEW o \in Owners, NEW r \in Requests, Alloc(o, r) PROVE Accounted'
  <2>1. PICK grant \in Grants, n \in DOMAIN Attempts(r), t \in Types :
          AllocFromType(o, r, t, Attempts(r)[n], grant)
    BY <1>2 DEF Alloc
  <2>2. memory[o] = NoMemory
    BY <1>2 DEF Alloc
  <2> DEFINE a == Attempts(r)[n]
  <2> HIDE DEF a
  <2>3. \/ AllocDedicated(o, r, t, a, grant)
        \/ AllocFromChunk(o, r, t, a)
        \/ AllocNewChunk(o, r, t, a, grant)
    BY <2>1 DEF AllocFromType, a
  <2> QED BY <1>0, <2>2, <2>3, AccountedDedicated, AccountedFromChunk, AccountedNewChunk
<1>3. CASE UNCHANGED vars
  BY <1>3 DEF Accounted, vars
<1> QED BY <1>1, <1>2, <1>3 DEF Next

LEMMA InitAccounted == Init => Accounted
<1> SUFFICES ASSUME Init PROVE Accounted
  OBVIOUS
<1>1. {o \in Owners : memory[o] # NoMemory} = {} /\ \A h \in Heaps : Used(memory, h) = {} /\ Own(memory, h) = {}
  BY DEF Init, Used, Own
<1>2. ASSUME NEW h \in Heaps PROVE Total(SizeOf(chunks), TypesOf(h)) = 0
  <2>1. \A t \in TypesOf(h) : SizeOf(chunks)[t] = 0
    <3>1. SizeOfChunks(<<>>) = 0
      <4>1. DOMAIN <<>> = {}
        OBVIOUS
      <4> QED BY <4>1, TotalEmpty DEF SizeOfChunks
    <3> QED BY <3>1 DEF Init, SizeOf, TypesOf
  <2> QED BY <2>1, FiniteTypes, TotalZero
<1>3. \A h \in Heaps : memoryUsed[h] = 0 /\ memoryAllocated[h] = 0
  BY DEF Init
<1>4. IsFiniteSet({})
  BY FS_EmptySet
<1> QED BY <1>1, <1>2, <1>3, <1>4, TotalEmpty DEF Accounted

LEMMA AccountedMeans == TypeOK /\ Accounted => HeapAccounting
<1> SUFFICES ASSUME TypeOK, Accounted, NEW h \in Heaps
             PROVE  LET types == {t \in Types : HeapOf[t] = h}
                        used == {o \in Owners : memory[o] # NoMemory /\ memory[o].type \in types}
                        own == {o \in used : memory[o].chunk = 0} IN
                    /\ memoryUsed[h] = MapThenSumSet(LAMBDA o : memory[o].length, used)
                    /\ memoryAllocated[h] =
                          MapThenSumSet(LAMBDA t : FoldSeq(LAMBDA c, n : c.size + n, 0, chunks[t]), types)
                          + MapThenSumSet(LAMBDA o : memory[o].length, own)
  BY DEF HeapAccounting
<1>1. /\ Used(memory, h) \in SUBSET Owners /\ IsFiniteSet(Used(memory, h))
      /\ Own(memory, h) \in SUBSET Owners /\ IsFiniteSet(Own(memory, h))
      /\ TypesOf(h) \in SUBSET Types /\ IsFiniteSet(TypesOf(h))
  <2>1. /\ Used(memory, h) \in SUBSET Owners /\ Own(memory, h) \in SUBSET Owners
        /\ TypesOf(h) \in SUBSET Types
    BY DEF Used, Own, TypesOf
  <2> QED BY <2>1, FiniteUsers, FiniteTypes DEF Accounted
<1>2. /\ MapThenSumSet(LAMBDA o : memory[o].length, Used(memory, h)) = Total(LengthOf(memory), Used(memory, h))
      /\ MapThenSumSet(LAMBDA o : memory[o].length, Own(memory, h)) = Total(LengthOf(memory), Own(memory, h))
  BY <1>1, SumOfLengths
<1>3. MapThenSumSet(LAMBDA t : FoldSeq(LAMBDA c, n : c.size + n, 0, chunks[t]), TypesOf(h))
         = Total(SizeOf(chunks), TypesOf(h))
  <2> DEFINE k == [t \in Types |-> FoldSeq(LAMBDA c, n : c.size + n, 0, chunks[t])]
  <2>1. \A t \in TypesOf(h) : k[t] = SizeOf(chunks)[t]
    BY SumOfChunks DEF TypesOf, SizeOf, TypeOK
  <2>2. MapThenSumSet(LAMBDA t : FoldSeq(LAMBDA c, n : c.size + n, 0, chunks[t]), TypesOf(h)) = Total(k, TypesOf(h))
    BY <1>1, SumOfSizes
  <2> HIDE DEF k
  <2>3. Total(k, TypesOf(h)) = Total(SizeOf(chunks), TypesOf(h))
    BY <1>1, <2>1, TotalSame
  <2> QED BY <2>2, <2>3
<1> QED BY <1>2, <1>3 DEF Accounted, Used, Own, TypesOf

(* By any sequence of allocations, refusals and frees, the statistics of every
   heap stay the device memory that exists and the part of it that is in use. *)
THEOREM HeapsAccounted == Spec => []HeapAccounting
<1>1. Inv /\ Accounted => HeapAccounting
  BY AccountedMeans DEF Inv
<1> QED BY InvAlways, <1>1, InitAccounted, NextAccounted, PTL DEF Spec

----------------------------------------------------------------------------
(* The pass of free() over the free list *)

PassStep(acc, s) ==
    CASE s.offset = End(acc.slice) -> [acc EXCEPT !.slice.length = @ + s.length]
      [] End(s) = acc.slice.offset -> [acc EXCEPT !.slice = Slice(s.offset, @.length + s.length)]
      [] OTHER -> [acc EXCEPT !.kept = Append(@, s)]

PassState == [slice : Slices, kept : Seq(Slices)]

LEMMA PassStepType ==
  ASSUME NEW acc \in PassState, NEW s \in Slices
  PROVE  PassStep(acc, s) \in PassState
<1>1. /\ acc.slice \in Slices /\ acc.kept \in Seq(Slices)
      /\ acc = [slice |-> acc.slice, kept |-> acc.kept]
  BY DEF PassState
<1>2. CASE s.offset = End(acc.slice)
  <2>1. acc.slice.length + s.length \in Nat \ {0}
    BY <1>1 DEF Slices
  <2>2. [acc.slice EXCEPT !.length = @ + s.length] \in Slices
    BY <1>1, <2>1 DEF Slices
  <2>3. PassStep(acc, s) = [acc EXCEPT !.slice = [acc.slice EXCEPT !.length = @ + s.length]]
    <3>1. PassStep(acc, s) = [acc EXCEPT !.slice.length = @ + s.length]
      <4>1. End(s) # acc.slice.offset
        BY <1>1, <1>2 DEF End, Slices
      <4> QED BY <1>2, <4>1 DEF PassStep
    <3> QED BY <1>1, <3>1
  <2> QED BY <1>1, <2>2, <2>3 DEF PassState
<1>3. CASE s.offset # End(acc.slice) /\ End(s) = acc.slice.offset
  <2>1. Slice(s.offset, acc.slice.length + s.length) \in Slices
    BY <1>1 DEF Slices, Slice
  <2>2. PassStep(acc, s) = [acc EXCEPT !.slice = Slice(s.offset, acc.slice.length + s.length)]
    BY <1>1, <1>3 DEF PassStep
  <2> QED BY <1>1, <2>1, <2>2 DEF PassState
<1>4. CASE s.offset # End(acc.slice) /\ End(s) # acc.slice.offset
  <2>1. PassStep(acc, s) = [acc EXCEPT !.kept = Append(@, s)]
    BY <1>4 DEF PassStep
  <2> QED BY <1>1, <2>1 DEF PassState
<1> QED BY <1>2, <1>3, <1>4

LEMMA PassFold ==
  ASSUME NEW list \in Seq(Slices), NEW slice \in Slices
  PROVE  \E g :
           /\ g[{}] = [slice |-> slice, kept |-> <<>>]
           /\ \A k \in 1 .. Len(list) : g[1 .. k] = PassStep(g[1 .. k - 1], list[k])
           /\ FreePass(list, slice) = Append(g[1 .. Len(list)].kept, g[1 .. Len(list)].slice)
<1> DEFINE n == Len(list)
           D == DOMAIN list
           base == [slice |-> slice, kept |-> <<>>]
           g == CHOOSE iter : iter = [s \in SUBSET D |->
                   IF s = {} THEN base
                   ELSE LET x == Largest(s) IN PassStep(iter[s \ {x}], list[x])]
           G == [p \in (1 .. n) \X PassState |-> PassStep(p[2], list[p[1]])]
<1>0. D = 1 .. n /\ n \in Nat /\ \A i \in D : list[i] \in Slices
  OBVIOUS
<1>1. FreePass(list, slice) = Append(g[D].kept, g[D].slice)
  BY DEF FreePass, FoldLeft, MapThenFoldSet, Max, Largest, PassStep
<1>2. PICK h : IsFold(h, base, G, 1 .. n)
  <2>1. HasLargest(1 .. n)
    BY <1>0, IntervalHasLargest
  <2> HIDE DEF n, G, base
  <2> QED BY <2>1, FoldExists
<1>3. base \in PassState
  BY DEF PassState
<1> HIDE DEF n, D, base, g
<1>4. ASSUME NEW s \in SUBSET (1 .. n) PROVE h[s] \in PassState
  <2> SUFFICES ASSUME h[s] \notin PassState PROVE FALSE
    OBVIOUS
  <2> DEFINE Bad == {r \in SUBSET (1 .. n) : h[r] \notin PassState}
  <2>0. IsFiniteSet(1 .. n)
    BY <1>0, FS_Interval
  <2>1. Bad # {} /\ \A r \in Bad : IsFiniteSet(r)
    BY <2>0, FS_Subset
  <2>2. PICK m \in Bad : \A r \in Bad : ~(r \subseteq m /\ r # m)
    <3> HIDE DEF Bad
    <3> QED BY <2>1, SmallestSet
  <2>3. m \in SUBSET (1 .. n) /\ h[m] \notin PassState
    OBVIOUS
  <2> HIDE DEF G
  <2>4. h[m] = IF m = {} THEN base ELSE G[<<Largest(m), h[m \ {Largest(m)}]>>]
    BY <1>2, <2>3 DEF IsFold
  <2>5. m # {}
    BY <1>3, <2>3, <2>4
  <2>6. Largest(m) \in m
    BY <1>0, <2>3, <2>5, LargestMember
  <2>7. h[m \ {Largest(m)}] \in PassState
    BY <2>2, <2>3, <2>6
  <2>8. G[<<Largest(m), h[m \ {Largest(m)}]>>] = PassStep(h[m \ {Largest(m)}], list[Largest(m)])
    BY <2>3, <2>6, <2>7 DEF G
  <2> QED BY <1>0, <2>3, <2>4, <2>5, <2>6, <2>7, <2>8, PassStepType
<1>5. h = [s \in SUBSET D |-> IF s = {} THEN base
                              ELSE LET x == Largest(s) IN PassStep(h[s \ {x}], list[x])]
  <2>1. ASSUME NEW s \in SUBSET (1 .. n), s # {}
        PROVE  G[<<Largest(s), h[s \ {Largest(s)}]>>] = PassStep(h[s \ {Largest(s)}], list[Largest(s)])
    <3>1. Largest(s) \in 1 .. n
      BY <1>0, <2>1, LargestMember
    <3>2. h[s \ {Largest(s)}] \in PassState
      BY <1>4
    <3> QED BY <3>1, <3>2
  <2> HIDE DEF G
  <2>2. h = [s \in SUBSET (1 .. n) |-> IF s = {} THEN base ELSE G[<<Largest(s), h[s \ {Largest(s)}]>>]]
    BY <1>2 DEF IsFold
  <2> QED BY <1>0, <2>1, <2>2
<1>6. g = [s \in SUBSET D |-> IF s = {} THEN base
                              ELSE LET x == Largest(s) IN PassStep(g[s \ {x}], list[x])]
  BY <1>5 DEF g
<1>7. g[{}] = base
  BY <1>6
<1>8. ASSUME NEW k \in 1 .. n PROVE g[1 .. k] = PassStep(g[1 .. k - 1], list[k])
  <2> DEFINE R == 1 .. k
  <2>1. R \in SUBSET D /\ R # {} /\ Largest(R) = k /\ R \ {k} = 1 .. k - 1
    <3>1. k - 1 \in Nat /\ (k - 1) + 1 = k
      BY <1>0
    <3>2. Largest(1 .. (k - 1) + 1) = (k - 1) + 1
      BY <3>1, LargestOfInterval
    <3>3. Largest(1 .. k) = k
      BY <3>1, <3>2
    <3>4. (1 .. k) \in SUBSET (1 .. n) /\ 1 .. k # {} /\ (1 .. k) \ {k} = 1 .. k - 1
      BY <1>0
    <3> QED BY <1>0, <3>3, <3>4
  <2> HIDE DEF R
  <2>2. g[R] = PassStep(g[R \ {Largest(R)}], list[Largest(R)])
    BY <1>6, <2>1
  <2>3. g[R] = PassStep(g[1 .. k - 1], list[k])
    BY <2>1, <2>2
  <2> QED BY <2>3 DEF R
<1>9. FreePass(list, slice) = Append(g[1 .. n].kept, g[1 .. n].slice)
  BY <1>0, <1>1
<1> QED BY <1>7, <1>8, <1>9 DEF n, base

(* What the pass has made of entries P of a free list that it has gone through:
   they are merged with m if they touch it and kept if they do not. *)
Merged(free, m, P, acc) ==
    /\ acc \in PassState
    /\ \A s \in P \cap Before(free, m) : acc.slice.offset = s.offset
    /\ P \cap Before(free, m) = {} => acc.slice.offset = m.offset
    /\ \A s \in P \cap After(free, m) : End(acc.slice) = End(s)
    /\ P \cap After(free, m) = {} => End(acc.slice) = End(m)
    /\ Range(acc.kept) = P \ (Before(free, m) \cup After(free, m))

LEMMA SliceFields ==
  ASSUME NEW s \in Slices
  PROVE  /\ s.offset \in Nat /\ s.length \in Nat \ {0} /\ End(s) = s.offset + s.length
         /\ s = [offset |-> s.offset, length |-> s.length]
  BY DEF Slices, End

LEMMA Neighbours ==
  ASSUME NEW free \in SUBSET Slices, NEW m \in Slices, PairwiseApart(free), NoneAdjacent(free)
  PROVE  /\ \A s, r \in Before(free, m) : s = r
         /\ \A s, r \in After(free, m) : s = r
         /\ Before(free, m) \cap After(free, m) = {}
<1>1. \A s \in free : s.offset \in Nat /\ s.length \in Nat \ {0} /\ End(s) = s.offset + s.length
  BY SliceFields
<1>2. m.offset \in Nat /\ m.length \in Nat \ {0} /\ End(m) = m.offset + m.length
  BY SliceFields
<1> QED BY <1>1, <1>2 DEF Before, After, PairwiseApart, Apart

LEMMA PassStepMerges ==
  ASSUME NEW free \in SUBSET Slices, NEW m \in Slices, PairwiseApart(free), NoneAdjacent(free),
         NEW P \in SUBSET free, NEW s \in free \ P, NEW acc, Merged(free, m, P, acc)
  PROVE  Merged(free, m, P \cup {s}, PassStep(acc, s))
<1> DEFINE B == Before(free, m)
           A == After(free, m)
           new == PassStep(acc, s)
<1>1. /\ acc \in PassState /\ acc.slice \in Slices /\ acc.kept \in Seq(Slices) /\ s \in Slices
      /\ acc = [slice |-> acc.slice, kept |-> acc.kept]
  BY DEF Merged, PassState
<1>2. /\ s.offset \in Nat /\ s.length \in Nat \ {0} /\ End(s) = s.offset + s.length
      /\ acc.slice.offset \in Nat /\ acc.slice.length \in Nat \ {0}
      /\ End(acc.slice) = acc.slice.offset + acc.slice.length
      /\ m.offset \in Nat /\ m.length \in Nat \ {0} /\ End(m) = m.offset + m.length
  BY <1>1, SliceFields
<1>3. /\ \A x, y \in B : x = y
      /\ \A x, y \in A : x = y
      /\ B \cap A = {}
  BY Neighbours
<1>4. new \in PassState
  BY <1>1, PassStepType
<1>5. /\ s \in A <=> s.offset = End(m)
      /\ s \in B <=> End(s) = m.offset
      /\ \A r \in P : End(r) # s.offset /\ End(s) # r.offset
  BY DEF Before, After, NoneAdjacent
<1>6. /\ \A r \in P \cap B : acc.slice.offset = r.offset
      /\ P \cap B = {} => acc.slice.offset = m.offset
      /\ \A r \in P \cap A : End(acc.slice) = End(r)
      /\ P \cap A = {} => End(acc.slice) = End(m)
      /\ Range(acc.kept) = P \ (B \cup A)
  BY DEF Merged
<1> HIDE DEF A, B, new
<1>7. CASE s.offset = End(acc.slice)
  <2>1. s \in A /\ s \notin B
    BY <1>3, <1>5, <1>6, <1>7
  <2>2. new.slice.offset = acc.slice.offset /\ End(new.slice) = End(s) /\ new.kept = acc.kept
    <3>1. new = [acc EXCEPT !.slice.length = @ + s.length]
      <4>1. End(s) # acc.slice.offset
        BY <1>2, <1>7
      <4> QED BY <1>7, <4>1 DEF PassStep, new
    <3>2. new.slice = Slice(acc.slice.offset, acc.slice.length + s.length) /\ new.kept = acc.kept
      <4>1. acc.slice = [offset |-> acc.slice.offset, length |-> acc.slice.length]
        BY <1>1, SliceFields
      <4> QED BY <1>1, <3>1, <4>1 DEF Slice
    <3> QED BY <1>2, <1>7, <3>2 DEF Slice, End
  <2>3. (P \cup {s}) \cap B = P \cap B /\ (P \cup {s}) \ (B \cup A) = P \ (B \cup A)
    BY <2>1
  <2>4. \A r \in (P \cup {s}) \cap A : r = s
    BY <1>3, <2>1
  <2> QED BY <1>4, <1>6, <2>1, <2>2, <2>3, <2>4 DEF Merged, A, B, new
<1>8. CASE s.offset # End(acc.slice) /\ End(s) = acc.slice.offset
  <2>1. s \in B /\ s \notin A
    BY <1>3, <1>5, <1>6, <1>8
  <2>2. new.slice.offset = s.offset /\ End(new.slice) = End(acc.slice) /\ new.kept = acc.kept
    <3>1. new = [acc EXCEPT !.slice = Slice(s.offset, @.length + s.length)]
      BY <1>8 DEF PassStep, new
    <3>2. new.slice = Slice(s.offset, acc.slice.length + s.length) /\ new.kept = acc.kept
      BY <1>1, <3>1
    <3> QED BY <1>2, <1>8, <3>2 DEF Slice, End
  <2>3. (P \cup {s}) \cap A = P \cap A /\ (P \cup {s}) \ (B \cup A) = P \ (B \cup A)
    BY <2>1
  <2>4. \A r \in (P \cup {s}) \cap B : r = s
    BY <1>3, <2>1
  <2> QED BY <1>4, <1>6, <2>1, <2>2, <2>3, <2>4 DEF Merged, A, B, new
<1>9. CASE s.offset # End(acc.slice) /\ End(s) # acc.slice.offset
  <2>1. s \notin A /\ s \notin B
    BY <1>3, <1>5, <1>6, <1>9
  <2>2. new.slice = acc.slice /\ new.kept = Append(acc.kept, s)
    <3>1. new = [acc EXCEPT !.kept = Append(@, s)]
      BY <1>9 DEF PassStep, new
    <3> QED BY <1>1, <3>1
  <2>3. Range(new.kept) = Range(acc.kept) \cup {s}
    BY <1>1, <2>2, PushRange
  <2>4. /\ (P \cup {s}) \cap A = P \cap A /\ (P \cup {s}) \cap B = P \cap B
        /\ (P \cup {s}) \ (B \cup A) = (P \ (B \cup A)) \cup {s}
    BY <2>1
  <2> QED BY <1>4, <1>6, <2>2, <2>3, <2>4 DEF Merged, A, B, new
<1> QED BY <1>7, <1>8, <1>9

(* A list of the entries has each of them, once. *)
LEMMA Listed ==
  ASSUME NEW S, IsFiniteSet(S), NEW list \in SetToSeqs(S)
  PROVE  /\ list \in Seq(S) /\ Len(list) = Cardinality(S)
         /\ \A i, j \in 1 .. Len(list) : i # j => list[i] # list[j]
         /\ Range(list) = S
<1> DEFINE n == Cardinality(S)
<1>1. n \in Nat
  BY FS_CardinalityType
<1>2. list \in [1 .. n -> S] /\ \A i, j \in 1 .. n : i # j => list[i] # list[j]
  BY DEF SetToSeqs
<1> HIDE DEF n
<1>3. IsFiniteSet(1 .. n) /\ Cardinality(1 .. n) = n
  <2> DEFINE one == 1
  <2>1. one \in Int /\ n \in Int /\ one = 1
    BY <1>1
  <2> HIDE DEF one
  <2>2. IsFiniteSet(one .. n) /\ Cardinality(one .. n) = IF one > n THEN 0 ELSE n - one + 1
    BY <2>1, FS_Interval
  <2> QED BY <1>1, <2>1, <2>2
<1>4. list \in Injection(1 .. n, S)
  BY <1>2 DEF Injection, IsInjective
<1>5. list \in Surjection(1 .. n, S)
  <2>1. Cardinality(1 .. n) = Cardinality(S)
    BY <1>3 DEF n
  <2> QED BY <1>4, <2>1, FS_Injection
<1>6. Range(list) = S
  BY <1>2, <1>5 DEF Surjection, Range
<1>7. list \in Seq(S) /\ Len(list) = n
  BY <1>1, <1>2
<1> QED BY <1>2, <1>6, <1>7 DEF n

LEMMA PassMerges ==
  ASSUME NEW free \in SUBSET Slices, IsFiniteSet(free), NEW m \in Slices,
         PairwiseApart(free), NoneAdjacent(free), NEW list \in SetToSeqs(free)
  PROVE  ToSet(FreePass(list, m)) = Coalesce(free, m)
<1> DEFINE n == Len(list)
           P(k) == {list[i] : i \in 1 .. k}
<1>1. /\ list \in Seq(free) /\ list \in Seq(Slices) /\ n \in Nat /\ DOMAIN list = 1 .. n
      /\ \A i, j \in 1 .. n : i # j => list[i] # list[j]
      /\ \A i \in 1 .. n : list[i] \in free
      /\ P(n) = free
  BY Listed DEF Range
<1>2. PICK g :
         /\ g[{}] = [slice |-> m, kept |-> <<>>]
         /\ \A k \in 1 .. n : g[1 .. k] = PassStep(g[1 .. k - 1], list[k])
         /\ FreePass(list, m) = Append(g[1 .. n].kept, g[1 .. n].slice)
  BY <1>1, PassFold
<1> HIDE DEF n
<1> DEFINE Good == {k \in Nat : k > n \/ Merged(free, m, P(k), g[1 .. k])}
<1>3. 0 \in Good
  <2>1. P(0) = {} /\ 1 .. 0 = {}
    OBVIOUS
  <2>2. Merged(free, m, {}, [slice |-> m, kept |-> <<>>])
    <3>1. Range(<<>>) = {} /\ <<>> \in Seq(Slices)
      BY DEF Range
    <3> QED BY <3>1 DEF Merged, PassState
  <2> QED BY <1>2, <2>1, <2>2
<1>4. ASSUME NEW k \in Nat, k \in Good PROVE k + 1 \in Good
  <2> SUFFICES ASSUME k + 1 <= n PROVE Merged(free, m, P(k + 1), g[1 .. k + 1])
    BY <1>1
  <2>1. Merged(free, m, P(k), g[1 .. k]) /\ k + 1 \in 1 .. n /\ (k + 1) - 1 = k
    BY <1>1, <1>4
  <2>2. P(k) \in SUBSET free /\ list[k + 1] \in free /\ list[k + 1] \notin P(k)
    BY <1>1, <2>1
  <2>3. P(k + 1) = P(k) \cup {list[k + 1]}
    OBVIOUS
  <2>4. g[1 .. k + 1] = PassStep(g[1 .. k], list[k + 1])
    BY <1>2, <2>1
  <2> HIDE DEF P
  <2>5. Merged(free, m, P(k) \cup {list[k + 1]}, PassStep(g[1 .. k], list[k + 1]))
    BY <2>1, <2>2, PassStepMerges
  <2> QED BY <2>3, <2>4, <2>5
<1>5. n \in Good
  <2> HIDE DEF Good
  <2>1. \A k \in Nat : k \in Good
    BY <1>3, <1>4, NatInd
  <2> QED BY <1>1, <2>1
<1> DEFINE acc == g[1 .. n]
           B == Before(free, m)
           A == After(free, m)
<1>6. Merged(free, m, free, acc)
  <2>1. P(n) = free /\ ~(n > n)
    BY <1>1
  <2> HIDE DEF P
  <2> QED BY <1>5, <2>1
<1> HIDE DEF Good, P, acc
<1>7. FreePass(list, m) = Append(acc.kept, acc.slice) /\ acc.kept \in Seq(Slices) /\ acc.slice \in Slices
  BY <1>2, <1>6 DEF Merged, PassState, acc
<1>8. ToSet(FreePass(list, m)) = Range(acc.kept) \cup {acc.slice}
  <2>1. Range(Append(acc.kept, acc.slice)) = Range(acc.kept) \cup {acc.slice}
    BY <1>7, PushRange
  <2> QED BY <1>7, <2>1 DEF ToSet, Range
<1>9. acc.slice = Slice(acc.slice.offset, End(acc.slice) - acc.slice.offset)
  BY <1>7, SliceFields DEF Slice
<1>10. acc.slice.offset = IF B = {} THEN m.offset ELSE (CHOOSE s \in B : TRUE).offset
  <2>1. free \cap B = B
    BY DEF Before
  <2> QED BY <1>6, <2>1 DEF Merged
<1>11. End(acc.slice) = IF A = {} THEN End(m) ELSE End(CHOOSE s \in A : TRUE)
  <2>1. free \cap A = A
    BY DEF After
  <2> QED BY <1>6, <2>1 DEF Merged
<1>12. Range(acc.kept) = free \ (B \cup A)
  BY <1>6 DEF Merged
<1> QED BY <1>8, <1>9, <1>10, <1>11, <1>12 DEF Coalesce

(* A free list is finite: its entries are apart and lie in the chunk. *)
LEMMA FreeIsFinite ==
  ASSUME NEW free \in SUBSET Slices, PairwiseApart(free), NEW size \in Nat,
         \A s \in free : End(s) <= size
  PROVE  IsFiniteSet(free)
<1> DEFINE f == [s \in free |-> s.offset]
<1>1. \A s \in free : s.offset \in Nat /\ s.length \in Nat \ {0} /\ End(s) = s.offset + s.length
  BY SliceFields
<1>2. f \in [free -> 0 .. size]
  BY <1>1
<1>3. \A s, r \in free : f[s] = f[r] => s = r
  BY <1>1 DEF PairwiseApart, Apart
<1>4. f \in Injection(free, 0 .. size)
  BY <1>2, <1>3 DEF Injection, IsInjective
<1>5. IsFiniteSet(0 .. size)
  <2> DEFINE zero == 0
  <2>1. zero \in Int /\ size \in Int
    OBVIOUS
  <2> HIDE DEF zero
  <2>2. IsFiniteSet(zero .. size)
    BY <2>1, FS_Interval
  <2> QED BY <2>2 DEF zero
<1> QED BY <1>4, <1>5, FS_Injection

(* free() goes over the free list once, in whatever order its entries are: that
   is enough to merge the piece with both of its neighbours, whichever piece of
   memory is freed next. *)
THEOREM OnePassCoalesces == Spec => []PassCoalesces
<1>1. Inv => PassCoalesces
  <2> SUFFICES ASSUME Inv, NEW t \in Types, NEW i \in 1 .. Len(chunks[t]),
                      NEW o \in Owners, InChunk(o, t, i), NEW list \in SetToSeqs(chunks[t][i].free)
               PROVE  ToSet(FreePass(list, Slice(memory[o].offset, memory[o].length)))
                         = Coalesce(chunks[t][i].free, Slice(memory[o].offset, memory[o].length))
    BY DEF PassCoalesces
  <2> DEFINE c == chunks[t][i]
             m == Slice(memory[o].offset, memory[o].length)
  <2>1. c \in Chunk
    BY ChunkType DEF Inv
  <2>2. Partition /\ Coalesced
    BY ChunkByChunk DEF Inv
  <2>3. /\ PairwiseApart(c.free) /\ NoneAdjacent(c.free)
        /\ \A s \in c.free : End(s) <= c.size
    BY <2>2, ApartSymmetric DEF Partition, FreeDisjoint, PairwiseApart, Coalesced, NoneAdjacent
  <2>4. c.free \in SUBSET Slices /\ c.size \in Nat
    BY <2>1 DEF Chunk
  <2>5. m \in Slices
    <3>1. memory[o] \in Memory
      BY DEF Inv, TypeOK, InChunk
    <3> QED BY <3>1 DEF Memory, Slices, Slice
  <2> HIDE DEF c, m
  <2>6. IsFiniteSet(c.free)
    BY <2>3, <2>4, FreeIsFinite
  <2>7. list \in SetToSeqs(c.free)
    BY DEF c
  <2>8. ToSet(FreePass(list, m)) = Coalesce(c.free, m)
    BY <2>3, <2>4, <2>5, <2>6, <2>7, PassMerges
  <2> QED BY <2>8 DEF c, m
<1> QED BY InvAlways, <1>1, PTL
=============================================================================
