-------------------------- MODULE MCSubmissionQueue --------------------------
(* TLC instances of SubmissionQueue: clients are interchangeable, and so are
   command lists. *)
EXTENDS SubmissionQueue, TLC

Symmetry == Permutations(CmdLists) \cup Permutations(Clients)
=============================================================================
