---------------------------- MODULE MCLnpmStore ----------------------------
(* The store on small sets.                                                *)
EXTENDS LnpmStore, TLC

(* Files, workers and temp names are interchangeable.                      *)
Symmetry == Permutations(File) \cup Permutations(Worker) \cup Permutations(Temp)
=============================================================================
