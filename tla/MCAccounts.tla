------------------------------ MODULE MCAccounts ------------------------------
(* A small instance of Accounts for TLC.                                   *)
EXTENDS Accounts, TLC

CONSTANTS ann, bob, s1, s2, r1, r2, i1, i2

Symmetry == Permutations({ann, bob}) \cup Permutations({s1, s2})
            \cup Permutations({r1, r2}) \cup Permutations({i1, i2})
=============================================================================
