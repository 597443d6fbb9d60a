SPECIFICATION Spec
CONSTANTS
    Owners = {b1, b2, b3}
    NoMemory = NoMemory
    NumTypes = 2
    TypeFlags <- MCTypeFlags
    Heaps = {"vram", "ram"}
    HeapOf <- MCHeapOf
    HeapSize <- MCHeapSize
    DefaultChunk <- MCDefaultChunk
    ChunkSize <- MCChunkSize
    Requests <- MCRequests
    Grants <- MCGrants
SYMMETRY OwnerSymmetry
INVARIANTS
    TypeOK
    Partition
    Coalesced
    PassCoalesces
    RequestServed
    HeapAccounting
