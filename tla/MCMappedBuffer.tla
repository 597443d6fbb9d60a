--------------------------- MODULE MCMappedBuffer ----------------------------
(* Instances of MappedBuffer for TLC. The slice of the start is not          *)
(* interchangeable with the others.                                         *)
EXTENDS MappedBuffer, TLC

SliceSymmetry == Permutations(Slices \ {Origin})
=============================================================================
