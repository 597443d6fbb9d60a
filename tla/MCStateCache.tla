----------------------------- MODULE MCStateCache -----------------------------
(* An instance of StateCache for TLC: two pipelines of a vertex and a fragment *)
(* shader, which differ in their state.                                      *)
EXTENDS StateCache

CONSTANTS opaque, blended, vs, fs, c1, c2

MCShadersOf == [p \in {opaque, blended} |-> {vs, fs}]

(* Two threads create the vertex shader, one of them the fragment shader too. *)
MCShadersFrom == [c \in Creators |-> IF c = c1 THEN {vs, fs} ELSE {vs}]
===============================================================================
