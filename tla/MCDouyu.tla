------------------------------ MODULE MCDouyu ------------------------------
(* Small instances of Douyu for TLC.                                       *)
EXTENDS Douyu, TLC

Symmetry == Permutations(ClientThread)
=============================================================================
