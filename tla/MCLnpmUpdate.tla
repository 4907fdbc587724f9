---------------------------- MODULE MCLnpmUpdate ----------------------------
(* Self update on small sets; updaters are interchangeable.                *)
EXTENDS LnpmUpdate, TLC

Symmetry == Permutations(Updater)
=============================================================================
