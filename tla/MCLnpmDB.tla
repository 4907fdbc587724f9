------------------------------ MODULE MCLnpmDB ------------------------------
(* The database on small sets.  Ids are bounded by MaxId, so a behaviour   *)
(* runs until the counter passes it; updates in place never stop.          *)
EXTENDS LnpmDB, TLC

(* insertFilesTx with no file to number, and with one.                     *)
NoFiles == [h \in Hash |-> 0]
OneFile == [h \in Hash |-> 1]

(* Projects are interchangeable; so are packages, and builds.              *)
Symmetry == Permutations(Path) \cup Permutations(Name) \cup Permutations(Hash)
=============================================================================
