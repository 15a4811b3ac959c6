------------------------------ MODULE MCLearning ------------------------------
(* A small instance of Learning for TLC.                                   *)
EXTENDS Learning, TLC

CONSTANTS quiz, essay, lab, ann, bob

Symmetry == Permutations({ann, bob})
=============================================================================
