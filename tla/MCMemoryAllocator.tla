-------------------------- MODULE MCMemoryAllocator --------------------------
(* A device with a video memory type and a system memory type, each on a heap
   of its own, whose chunks are eight units long. *)
EXTENDS MemoryAllocator, TLC

MCTypeFlags == <<{"local"}, {"host", "cached"}>>
MCHeapOf == <<"vram", "ram">>
MCHeapSize == [vram |-> 120, ram |-> 130]
MCDefaultChunk == <<32, 16>>
MCChunkSize == <<8, 8>>

Ask(size, align, flags, priority, dedicated) ==
    [size |-> size, align |-> align, flags |-> flags, priority |-> priority,
     types |-> {1, 2}, dedicated |-> dedicated]

MCRequests ==
    {Ask(1, 1, {"local"}, 0, "no"), Ask(3, 2, {"local"}, 0, "no"),
     Ask(4, 4, {"local"}, 1, "preferred"), Ask(1, 1, {"host"}, 1, "no"),
     Ask(2, 1, {"local"}, 0, "required")}

(* The driver may be generous with video memory, or have little of it left. *)
MCGrants == {[vram |-> 10, ram |-> 8], [vram |-> 4, ram |-> 8]}

OwnerSymmetry == Permutations(Owners)
=============================================================================
