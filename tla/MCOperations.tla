---------------------------- MODULE MCOperations ----------------------------
(* One task and one ticket of a unit, a manager and a cleaner with a page  *)
(* each; see Operations.cfg for the bounds.                                *)
EXTENDS Operations, TLC

Interchangeable == Permutations(Offers)
=============================================================================
