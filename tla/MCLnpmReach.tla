---------------------------- MODULE MCLnpmReach ----------------------------
(* An instance of LnpmReach: a project under a mount point, and one on the *)
(* root filesystem.                                                        *)
EXTENDS LnpmReach, TLC

CONSTANTS away, home, media

Here == away :> media @@ home :> Root
Symmetry == Permutations(Drive) \cup Permutations(Number)
=============================================================================
