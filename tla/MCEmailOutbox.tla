---------------------------- MODULE MCEmailOutbox ----------------------------
(* A small instance of EmailOutbox for TLC.                                *)
EXTENDS EmailOutbox

CONSTANTS welcome, digest

OneOfEach == [a \in Acts |-> 1]
=============================================================================
