------------------------------ MODULE MCDataBuf ------------------------------
(* DataBuf for TLC: which connection is which does not matter to any of its *)
(* invariants.                                                              *)
EXTENDS DataBuf, TLC

Symmetry == Permutations(Conns)
=============================================================================
