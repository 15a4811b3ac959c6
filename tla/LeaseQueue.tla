------------------------------ MODULE LeaseQueue ------------------------------
(***************************************************************************)
(* What a durable work queue with leases promises, whatever the work is:   *)
(* an item has at most one open job, a job is held by at most one holder   *)
(* and a holder holds at most one job, a job leaves the queue only from    *)
(* its holder's hands, and it is taken at most Limit times.                *)
(***************************************************************************)
EXTENDS Naturals

CONSTANTS
  Items, Holders, Nobody,
  Classes,
  Limit     \* [Classes -> positive number of times a job may be taken]

VARIABLE job

Idle == [state |-> "idle"]
Waiting(c, n) == [state |-> "waiting", class |-> c, by |-> Nobody, tries |-> n]
Held(c, h, n) == [state |-> "held", class |-> c, by |-> h, tries |-> n]

IsHeld(j) == j.state = "held"

Submit(old, new) == old = Idle /\ \E c \in Classes : new = Waiting(c, 0)

Take(old, new) ==
  /\ old.state = "waiting"
  /\ old.tries < Limit[old.class]
  /\ \E h \in Holders : new = Held(old.class, h, old.tries + 1)

\* Handed back, with or without the attempt refunded, never at the limit.
Return(old, new) ==
  /\ IsHeld(old)
  /\ \E n \in {old.tries, old.tries - 1} :
       n < Limit[old.class] /\ new = Waiting(old.class, n)

Finish(old, new) == IsHeld(old) /\ new = Idle

\* The item itself is deleted, and its job with it.
Withdraw(old, new) == old # Idle /\ new = Idle

Step(old, new) == \/ Submit(old, new) \/ Take(old, new) \/ Return(old, new)
                  \/ Finish(old, new) \/ Withdraw(old, new)

Exclusive(jobs) ==
  \A i, k \in Items : IsHeld(jobs[i]) /\ IsHeld(jobs[k]) /\ jobs[i].by = jobs[k].by => i = k

Init == job = [i \in Items |-> Idle]

Next == /\ \A i \in Items : job'[i] = job[i] \/ Step(job[i], job'[i])
        /\ Exclusive(job')

Spec == Init /\ [][Next]_job
=============================================================================
