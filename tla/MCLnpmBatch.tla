---------------------------- MODULE MCLnpmBatch ----------------------------
(* Several packages and projects, on small sets.                           *)
EXTENDS LnpmBatch, TLC

(* Packages, projects and builds are interchangeable.                      *)
Symmetry == Permutations(Pkg) \cup Permutations(Project) \cup Permutations(Hash)

(* Bounds the run: where nothing was added yet, package.json does not have *)
(* the two packages alike.  Each is in one field, in the other or in       *)
(* neither, but not both in the same.                                      *)
MCInit ==
    /\ Init
    /\ \A q \in Project, x, y \in Pkg :
          x # y /\ deps[q][x] = deps[q][y] => Has(deps[q][x], "lnpm")

MCSpec == MCInit /\ [][Next]_vars
=============================================================================
