---------------------------- MODULE MCOrderEffects ----------------------------
(***************************************************************************)
(* Small instances of OrderEffects: one checkout of one or two packages.    *)
(***************************************************************************)
EXTENDS OrderEffects, TLC

Symmetric == Permutations(Orders) \cup Permutations(Requests)
=============================================================================
