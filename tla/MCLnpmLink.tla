----------------------------- MODULE MCLnpmLink -----------------------------
(* A package of up to two files.                                           *)
EXTENDS LnpmLink, TLC

CONSTANTS f1, f2, x, y

(* Two releases: the second changes one file and drops the other.          *)
TwoFiles == {f1, f2}
TwoBuilds == {(f1 :> x @@ f2 :> x), (f1 :> y @@ f2 :> None)}

(* What a build or an editor leaves where a file was, or adds.  Files that *)
(* are missing come from an Unlink that was cut short.                     *)
Edited == {Odd, y}
=============================================================================
