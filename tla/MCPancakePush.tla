---------------------------- MODULE MCPancakePush ----------------------------
(* An instance of PancakePush: a gateway or bank-transfer order and two runs. *)
EXTENDS PancakePush, TLC

Symmetric == Permutations(Runs)
=============================================================================
