---------------------------- MODULE MCLnpmHooks ----------------------------
(* Waiting, on small sets.  No symmetry: the run has a liveness property.  *)
EXTENDS LnpmHooks
=============================================================================
