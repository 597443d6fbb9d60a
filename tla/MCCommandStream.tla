--------------------------- MODULE MCCommandStream ---------------------------
(* Instances of CommandStream for TLC. *)
EXTENDS CommandStream, TLC

ChunkSymmetry == Permutations(Chunks)
=============================================================================
