------------------------------ MODULE MC_Auth ------------------------------
EXTENDS Auth

(* Callers are interchangeable: no definition names one. *)
Symmetry == Permutations(Threads)
====
