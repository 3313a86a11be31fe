---------------------------- MODULE MCMicrotasks ----------------------------
(* Model-checking instances of Microtasks. *)
EXTENDS Microtasks, TLC

(* Task objects and variables are interchangeable: sound for the runs that *)
(* check safety only.                                                      *)
Symmetry == Permutations(Tasks) \cup Permutations(Vars)
=============================================================================
