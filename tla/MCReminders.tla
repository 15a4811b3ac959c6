------------------------------ MODULE MCReminders ------------------------------
(* A small instance of Reminders for TLC.                                  *)
EXTENDS Reminders

CONSTANTS grade, deadline

OneOfEach == [a \in Acts |-> 1]
=============================================================================
