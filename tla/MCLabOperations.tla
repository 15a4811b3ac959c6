-------------------------- MODULE MCLabOperations --------------------------
(* Small instances of LabOperations for TLC.                               *)
EXTENDS LabOperations, TLC

CONSTANTS i1, i2, w1, w2

OneStream == [i \in Instances |-> "learner"]
TwoStreams == i1 :> "alice" @@ i2 :> "bob"
OneTenant == [i \in Instances |-> "tenant"]

\* Ceilings of 2 keep every path to a ceiling and to an escalation; the
\* source's 3, 5 and 3 only lengthen it.
LowCeilings == [k \in Kinds |-> 2]

\* lab_live follows deploys through their retries, destroys and checks once.
ShortCeilings == [k \in Kinds |-> IF k = "deploy" THEN 2 ELSE 1]

Faulty(some) == [f \in Faults |-> IF f \in some THEN 1 ELSE 0]

NoFaults == {Faulty({})}
SomeFaults == {Faulty(Faults \ {"stall"})}
StallAndMore == {Faulty({"stall", "loss"}), Faulty({"stall", "requests"})}
OneContention == {Faulty({"contention"})}
OneRequest == {Faulty({"requests"})}
=============================================================================
