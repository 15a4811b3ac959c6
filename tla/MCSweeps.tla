------------------------------- MODULE MCSweeps -------------------------------
(* Small instances of the two components that a timer's sweep repairs, the  *)
(* facilitators and the success queue. They share nothing: in a behaviour   *)
(* one of them moves.                                                       *)
EXTENDS Facilitators, SuccessQueue

CONSTANTS net, sec, cohort, ann, bob, timer, one, two, three, none, dean, operator

VARIABLE part

\* What does not move starts at rest: no trouble, nothing offered.
OneInit ==
  /\ Init /\ QueueInit
  /\ part \in {"nominations", "queue"}
  /\ IF part = "queue" THEN offered = {} ELSE ~holds

OneNext ==
  \/ part = "nominations" /\ Next /\ UNCHANGED <<queueVars, part>>
  \/ part = "queue" /\ QueueNext /\ UNCHANGED <<vars, part>>

\* The fairness of each component, where it moves.
OneFairness ==
  /\ \A p \in Requests : WF_vars(part = "nominations" /\ Finish(p))
  /\ WF_vars(part = "nominations" /\ Sweep)
  /\ WF_vars(part = "nominations" /\ CommitSweep)
  /\ WF_queueVars(part = "queue" /\ Start(Timer))
  /\ \A p \in Sweepers : SF_queueVars(part = "queue" /\ Proceed(p))

OneSpec == OneInit /\ [][OneNext]_<<vars, queueVars, part>> /\ OneFairness

\* Each component keeps its types.
SweepsTypeOK == TypeOK /\ QueueTypeOK

\* What the sweeps must get done in the end: a nomination that has become
\* eligible is activated, and the queue follows the learner.
SweepsRepair == EligibleActivated /\ QueueFollows
=============================================================================
