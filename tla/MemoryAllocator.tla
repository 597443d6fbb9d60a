--------------------------- MODULE MemoryAllocator ---------------------------
(***************************************************************************)
(* DxvkMemoryAllocator (dxvk_memory.cpp): device memory for buffers and     *)
(* images.  Small requests are cut out of chunks, whose unused parts are    *)
(* kept in free lists; large and dedicated ones get device memory of their  *)
(* own.  Every entry point runs under DxvkMemoryAllocator::m_mutex, so that *)
(* each is one action.  A free list is modelled as a set of slices: where   *)
(* its order decides which slice is taken, any may be.                      *)
(***************************************************************************)
EXTENDS Integers, Sequences, FiniteSets, FiniteSetsExt, SequencesExt

CONSTANTS
    Owners,         \* DxvkMemory objects: one per buffer slice handle or image
    NoMemory,       \* an empty DxvkMemory
    NumTypes,       \* memory types of the device, tried in order
    TypeFlags,      \* property flags of each type
    Heaps, HeapOf,  \* memory heaps, and the heap of each type
    HeapSize,       \* size of each heap
    DefaultChunk,   \* chunk size of each type before it is fitted to its heap
    ChunkSize,      \* DxvkMemoryType::chunkSize
    Requests,       \* what the program asks for
    Grants          \* bound: how much of each heap the driver may be ready to hand out

Types == 1 .. NumTypes
Optional == {"local", "cached"}
Flags == SUBSET (Optional \cup {"host"})

(* What a resource asks for: the Vulkan requirements and the flags. *)
Request == [size : Nat \ {0}, align : Nat \ {0}, flags : Flags, priority : Nat,
            types : SUBSET Types, dedicated : {"no", "preferred", "required"}]

(* pickChunkSize halves the default until fifteen chunks fit into the heap. *)
PickChunkSize(t) ==
    Max({n \in {DefaultChunk[t] \div 2^k : k \in 0 .. 27} : 15 * n <= HeapSize[HeapOf[t]]})

ASSUME AllocatorAssumption ==
    /\ NumTypes \in Nat /\ TypeFlags \in [Types -> Flags]
    /\ HeapOf \in [Types -> Heaps] /\ HeapSize \in [Heaps -> Nat]
    /\ ChunkSize \in [Types -> Nat]
    /\ Requests \subseteq Request /\ Grants \subseteq [Heaps -> Nat]
    /\ NoMemory \notin [type : Types, chunk : Nat, offset : Nat, length : Nat]

ASSUME ChunkSizeAssumption == \A t \in Types : ChunkSize[t] = PickChunkSize(t)

(* Alignments are powers of two, far smaller than any chunk. *)
ASSUME AlignmentAssumption ==
    \A r \in Requests, t \in Types, i \in 0 .. 5 :
        ChunkSize[t] \div 2^i >= r.size => (ChunkSize[t] \div 2^i) % r.align = 0

VARIABLES
    chunks,         \* DxvkMemoryType::chunks
    memory,         \* the memory each owner holds
    request,        \* what that was asked for
    memoryUsed,     \* DxvkMemoryStats of each heap
    memoryAllocated

vars == <<chunks, memory, request, memoryUsed, memoryAllocated>>

Init ==
    /\ chunks = [t \in Types |-> <<>>]
    /\ memory = [o \in Owners |-> NoMemory]
    /\ request = [o \in Owners |-> NoMemory]
    /\ memoryUsed = [h \in Heaps |-> 0]
    /\ memoryAllocated = [h \in Heaps |-> 0]

----------------------------------------------------------------------------
(* Slices of a chunk *)

Slice(offset, length) == [offset |-> offset, length |-> length]
End(s) == s.offset + s.length

AlignUp(n, align) == n + ((-n) % align)

(* The slice an allocation is tried in: one of the very size, or a longest. *)
Longest(free) == {s \in free : \A r \in free : r.length <= s.length}
Best(free, size) ==
    LET exact == {s \in free : s.length = size} IN
    IF exact # {} THEN exact ELSE Longest(free)

Start(s, r) == AlignUp(s.offset, r.align)
Finish(s, r) == AlignUp(Start(s, r) + r.size, r.align)
Fits(s, r) == Finish(s, r) <= End(s)

(* What remains of the free list when [start, end) is cut out of slice s. *)
CarveKeepingEmpty(free, s, start, end) ==
    (free \ {s}) \cup {Slice(s.offset, start - s.offset), Slice(end, End(s) - end)}
CarveLosingFront(free, s, start, end) ==
    (free \ {s}) \cup {p \in {Slice(end, End(s) - end)} : p.length # 0}
Carve(free, s, start, end) ==
    (free \ {s}) \cup {p \in {Slice(s.offset, start - s.offset),
                              Slice(end, End(s) - end)} : p.length # 0}

(* DxvkMemoryChunk::free as written: one pass over the list, in whatever order
   it is, that absorbs the entries next to the slice grown so far. *)
FreePassForward(list, slice) ==
    LET Step(acc, s) ==
          IF s.offset = End(acc.slice) THEN [acc EXCEPT !.slice.length = @ + s.length]
          ELSE [acc EXCEPT !.kept = Append(@, s)]
        done == FoldLeft(Step, [slice |-> slice, kept |-> <<>>], list)
    IN  Append(done.kept, done.slice)
FreePass(list, slice) ==
    LET Step(acc, s) ==
          CASE s.offset = End(acc.slice) ->
                 [acc EXCEPT !.slice.length = @ + s.length]
            [] End(s) = acc.slice.offset ->
                 [acc EXCEPT !.slice = Slice(s.offset, @.length + s.length)]
            [] OTHER -> [acc EXCEPT !.kept = Append(@, s)]
        done == FoldLeft(Step, [slice |-> slice, kept |-> <<>>], list)
    IN  Append(done.kept, done.slice)

(* What the pass is for: the slice merged with the free ones on both sides. *)
Before(free, slice) == {s \in free : End(s) = slice.offset}
After(free, slice) == {s \in free : s.offset = End(slice)}
CoalesceBefore(free, slice) ==
    LET start == IF Before(free, slice) = {} THEN slice.offset
                 ELSE (CHOOSE s \in Before(free, slice) : TRUE).offset IN
    (free \ Before(free, slice)) \cup {Slice(start, End(slice) - start)}
Coalesce(free, slice) ==
    LET start == IF Before(free, slice) = {} THEN slice.offset
                 ELSE (CHOOSE s \in Before(free, slice) : TRUE).offset
        end   == IF After(free, slice) = {} THEN End(slice)
                 ELSE End(CHOOSE s \in After(free, slice) : TRUE)
    IN  (free \ (Before(free, slice) \cup After(free, slice)))
        \cup {Slice(start, end - start)}

----------------------------------------------------------------------------
(* Attempts of an allocation *)

(* alloc: as asked, without the dedicated allocation, from slower types. *)
AttemptsNeverDedicated(r) ==
    <<[flags |-> r.flags, dedicated |-> r.dedicated # "no"],
      [flags |-> r.flags \ Optional, dedicated |-> FALSE]>>
Attempts(r) ==
    <<[flags |-> r.flags, dedicated |-> r.dedicated # "no"]>>
    \o (IF r.dedicated = "preferred"
        THEN <<[flags |-> r.flags, dedicated |-> FALSE]>> ELSE <<>>)
    \o (IF r.flags \cap Optional # {}
        THEN <<[flags |-> r.flags \ Optional, dedicated |-> r.dedicated = "required"]>>
        ELSE <<>>)

Supports(t, a, r) == t \in r.types /\ a.flags \subseteq TypeFlags[t]
Priority(a, r) == IF "local" \in a.flags THEN r.priority ELSE 0
OwnMemory(t, a, r) == r.size >= ChunkSize[t] \/ a.dedicated

Matches(c, a, r) == c.flags = a.flags /\ c.priority = Priority(a, r)
ChunkMayRefuse(c, a, r) ==
    ~Matches(c, a, r) \/ c.free = {} \/ \E s \in Best(c.free, r.size) : ~Fits(s, r)
ChunksMayRefuse(t, last, a, r) ==
    \A i \in 1 .. last : ChunkMayRefuse(chunks[t][i], a, r)

(* vkAllocateMemory and vkMapMemory, which succeed while the heap stays within
   what the driver grants at the moment. *)
Granted(t, size, grant) == memoryAllocated[HeapOf[t]] + size <= grant[HeapOf[t]]

(* The sizes a new chunk is tried with. *)
NewChunkSizes(t, r) == {ChunkSize[t] \div 2^i : i \in 0 .. 5} \cap {n \in Nat : n >= r.size}

MayFail(t, a, r, grant) ==
    \/ ~Supports(t, a, r)
    \/ OwnMemory(t, a, r) /\ ~Granted(t, r.size, grant)
    \/ /\ ~OwnMemory(t, a, r)
       /\ ChunksMayRefuse(t, Len(chunks[t]), a, r)
       /\ \A n \in NewChunkSizes(t, r) : ~Granted(t, n, grant)

----------------------------------------------------------------------------
(* Actions *)

Hold(o, r, t, i, offset, length) ==
    /\ memory' = [memory EXCEPT ![o] = [type |-> t, chunk |-> i,
                                        offset |-> offset, length |-> length]]
    /\ request' = [request EXCEPT ![o] = r]
    /\ memoryUsed' = [memoryUsed EXCEPT ![HeapOf[t]] = @ + length]

(* tryAllocDeviceMemory *)
AllocDeviceMemory(t, size) ==
    memoryAllocated' = [memoryAllocated EXCEPT ![HeapOf[t]] = @ + size]

AllocDedicated(o, r, t, a, grant) ==
    /\ OwnMemory(t, a, r) /\ Granted(t, r.size, grant)
    /\ AllocDeviceMemory(t, r.size)
    /\ Hold(o, r, t, 0, 0, r.size)
    /\ UNCHANGED chunks

AllocFromChunk(o, r, t, a) ==
    /\ ~OwnMemory(t, a, r)
    /\ \E i \in 1 .. Len(chunks[t]) :
          /\ ChunksMayRefuse(t, i - 1, a, r)
          /\ Matches(chunks[t][i], a, r)
          /\ \E s \in Best(chunks[t][i].free, r.size) :
                /\ Fits(s, r)
                /\ chunks' = [chunks EXCEPT ![t][i].free = Carve(@, s, Start(s, r), Finish(s, r))]
                /\ Hold(o, r, t, i, Start(s, r), Finish(s, r) - Start(s, r))
    /\ UNCHANGED memoryAllocated

(* A new chunk, of the first size the driver grants; given the alignments that
   occur it always holds the request it is made for. *)
AllocNewChunk(o, r, t, a, grant) ==
    /\ ~OwnMemory(t, a, r)
    /\ ChunksMayRefuse(t, Len(chunks[t]), a, r)
    /\ \E n \in NewChunkSizes(t, r) :
          LET whole == Slice(0, n) IN
          /\ Granted(t, n, grant)
          /\ \A k \in NewChunkSizes(t, r) : k > n => ~Granted(t, k, grant)
          /\ AllocDeviceMemory(t, n)
          /\ Fits(whole, r)
          /\ chunks' = [chunks EXCEPT ![t] = Append(@,
                 [flags |-> a.flags, priority |-> Priority(a, r), size |-> n,
                  free |-> Carve({whole}, whole, Start(whole, r), Finish(whole, r))])]
          /\ Hold(o, r, t, Len(chunks[t]) + 1, Start(whole, r), Finish(whole, r) - Start(whole, r))

(* tryAllocFromType *)
AllocFromType(o, r, t, a, grant) ==
    /\ Supports(t, a, r)
    /\ \/ AllocDedicated(o, r, t, a, grant)
       \/ AllocFromChunk(o, r, t, a)
       \/ AllocNewChunk(o, r, t, a, grant)

(* alloc takes the first type that serves the first attempt that can be served;
   when there is none it throws, and nothing has changed. *)
Alloc(o, r) ==
    /\ memory[o] = NoMemory
    /\ \E grant \in Grants, n \in DOMAIN Attempts(r), t \in Types :
          /\ \A k \in 1 .. n, u \in Types :
                k < n \/ u < t => MayFail(u, Attempts(r)[k], r, grant)
          /\ AllocFromType(o, r, t, Attempts(r)[n], grant)

ReleaseNotCounted(m) == UNCHANGED memoryAllocated
Release(m) ==
    memoryAllocated' = [memoryAllocated EXCEPT ![HeapOf[m.type]] = @ - m.length]

(* The owner's DxvkMemory is destroyed, or assigned an empty one. *)
Free(o) ==
    /\ memory[o] # NoMemory
    /\ LET m == memory[o] IN
       /\ memoryUsed' = [memoryUsed EXCEPT ![HeapOf[m.type]] = @ - m.length]
       /\ IF m.chunk # 0
          THEN /\ chunks' = [chunks EXCEPT ![m.type][m.chunk].free =
                                 Coalesce(@, Slice(m.offset, m.length))]
               /\ UNCHANGED memoryAllocated
          ELSE Release(m) /\ UNCHANGED chunks
    /\ memory' = [memory EXCEPT ![o] = NoMemory]
    /\ request' = [request EXCEPT ![o] = NoMemory]

Next == \E o \in Owners : Free(o) \/ \E r \in Requests : Alloc(o, r)

Spec == Init /\ [][Next]_vars

----------------------------------------------------------------------------
(* Correctness *)

Slices == [offset : Nat, length : Nat \ {0}]
Chunk == [flags : Flags, priority : Nat, size : Nat, free : SUBSET Slices]
Memory == [type : Types, chunk : Nat, offset : Nat, length : Nat \ {0}]

TypeOK ==
    /\ chunks \in [Types -> Seq(Chunk)]
    /\ memory \in [Owners -> Memory \cup {NoMemory}]
    /\ request \in [Owners -> Requests \cup {NoMemory}]
    /\ memoryUsed \in [Heaps -> Int]
    /\ memoryAllocated \in [Heaps -> Int]
    /\ \A o \in Owners : memory[o] # NoMemory =>
          memory[o].chunk \in 0 .. Len(chunks[memory[o].type])

Within(b, s) == s.offset <= b /\ b < End(s)
Apart(s, r) == End(s) <= r.offset \/ End(r) <= s.offset
InChunk(o, t, i) == memory[o] # NoMemory /\ memory[o].type = t /\ memory[o].chunk = i

(* Pieces of a chunk that are in use overlap neither each other nor free ones. *)
MemoryDisjoint ==
    \A t \in Types : \A i \in 1 .. Len(chunks[t]) : \A o \in Owners : InChunk(o, t, i) =>
        /\ End(memory[o]) <= chunks[t][i].size
        /\ \A p \in Owners \ {o} : InChunk(p, t, i) => Apart(memory[o], memory[p])
        /\ \A s \in chunks[t][i].free : Apart(memory[o], s)

(* Entries of a free list do not overlap. *)
FreeDisjoint ==
    \A t \in Types : \A i \in 1 .. Len(chunks[t]) : \A s \in chunks[t][i].free :
        /\ End(s) <= chunks[t][i].size
        /\ \A r \in chunks[t][i].free \ {s} : Apart(r, s)

(* Every byte of a chunk is in use or free. *)
NothingLost ==
    \A t \in Types : \A i \in 1 .. Len(chunks[t]) : \A b \in 0 .. chunks[t][i].size - 1 :
        \/ \E s \in chunks[t][i].free : Within(b, s)
        \/ \E o \in Owners : InChunk(o, t, i) /\ Within(b, memory[o])

(* Two buffers or images never share memory of a chunk, what is free is not in
   use, and every byte of a chunk is one or the other: nothing leaks. *)
Partition == MemoryDisjoint /\ FreeDisjoint /\ NothingLost

(* Freed memory can be reused for larger allocations: no two entries of a free
   list are next to each other. *)
Coalesced ==
    \A t \in Types : \A i \in 1 .. Len(chunks[t]) : \A s, r \in chunks[t][i].free :
        End(s) # r.offset

(* The single pass of free() merges both neighbours whatever the order of the
   list, for every piece of memory that may be freed next. *)
PassCoalesces ==
    \A t \in Types : \A i \in 1 .. Len(chunks[t]) : \A o \in Owners : InChunk(o, t, i) =>
        LET slice == Slice(memory[o].offset, memory[o].length) IN
        \A list \in SetToSeqs(chunks[t][i].free) :
            ToSet(FreePass(list, slice)) = Coalesce(chunks[t][i].free, slice)

(* What an owner holds is what it asked for: large enough, aligned, of a type it
   can use, with the flags it cannot do without, and of its own if it must be. *)
RequestServed ==
    \A o \in Owners : memory[o] # NoMemory =>
        LET m == memory[o]
            r == request[o] IN
        /\ m.length >= r.size /\ m.offset % r.align = 0
        /\ m.type \in r.types /\ r.flags \ Optional \subseteq TypeFlags[m.type]
        /\ r.dedicated = "required" => m.chunk = 0

(* The statistics of a heap, by which the driver's budget is judged, are the
   device memory that exists and the part of it that is in use. *)
HeapAccounting ==
    \A h \in Heaps :
        LET types == {t \in Types : HeapOf[t] = h}
            used == {o \in Owners : memory[o] # NoMemory /\ memory[o].type \in types}
            own == {o \in used : memory[o].chunk = 0}
            Sized(t) == FoldSeq(LAMBDA c, n : c.size + n, 0, chunks[t]) IN
        /\ memoryUsed[h] = MapThenSumSet(LAMBDA o : memory[o].length, used)
        /\ memoryAllocated[h] = MapThenSumSet(Sized, types)
                                + MapThenSumSet(LAMBDA o : memory[o].length, own)
=============================================================================
