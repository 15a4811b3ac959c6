----------------------------- MODULE Facilitators -----------------------------
(***************************************************************************)
(* Facilitator nominations of one person in one cohort: an administrator   *)
(* nominates for the whole cohort or for one course offering, completing   *)
(* the required courses activates the nomination, and an active one gives  *)
(* teaching access.                                                        *)
(*                                                                         *)
(* Three transactions activate: the nomination itself, the completion of a *)
(* course, and the repair sweep of the timer.  Each locks nominations and  *)
(* reads what is committed, so a nomination and a completion that do not   *)
(* see each other leave a nomination for the sweep.                        *)
(*                                                                         *)
(* Simplified: an offering is named by its course; notifications and audit *)
(* rows, which are written with the change, are left out, and so are the   *)
(* assignments a migration took over from legacy instructors.              *)
(***************************************************************************)
EXTENDS Naturals, FiniteSets

CONSTANTS
  Courses,          \* courses of the tenant
  Cohort,           \* the cohort, as the scope of a nomination
  Requests,         \* web requests and lab checks in flight
  Sweeper,          \* the timer's process
  Limit,            \* nominations per sweep
  MaxNominations,   \* bound: nominations made
  MaxAborts         \* bound: transactions rolled back

ASSUME NamesAssumption == Cohort \notin Courses /\ Sweeper \notin Requests
ASSUME FiniteAssumption == IsFiniteSet(Courses)
ASSUME LimitsAssumption == Limit \in Nat \ {0} /\ MaxNominations \in Nat /\ MaxAborts \in Nat

VARIABLES
  offered,      \* courses with an active offering in the cohort
  completed,    \* courses the person has completed
  ever,         \* courses the person had completed at some time
  enabled,      \* the person's status is active
  nomination,   \* [Scopes -> status and required courses]
  tx,           \* [Processes -> open transaction]
  nominations, aborts

vars == <<offered, completed, ever, enabled, nomination, tx, nominations, aborts>>

Scopes == {Cohort} \cup Courses
Processes == Requests \cup {Sweeper}

Statuses == {"none", "pending", "active", "revoked"}
Nomination == [status : Statuses, required : SUBSET Courses]

\* A transaction: what it does, the nominations it has locked, those it has
\* activated, the courses it read, and the course it completes.
Idle == [at |-> "idle", locked |-> {}, activated |-> {}, courses |-> {}]
Transaction ==
  [at : {"idle", "asked", "nominated", "activating", "completing", "sweeping"},
   locked : SUBSET Scopes, activated : SUBSET Scopes, courses : SUBSET Courses]

-----------------------------------------------------------------------------
(* Row locks and eligibility.                                              *)

\* Mutant: nominations are not locked.
Free_NoLock(s) == TRUE

Free(s) == \A p \in Processes : s \notin tx[p].locked

\* One transaction at a time recomputes a course's completion.
RecordFree(c) == \A p \in Processes : tx[p].at = "completing" => c \notin tx[p].courses

\* Mutant: an empty or partly completed requirement is enough.
Earned_Any(required, courses) == required = {} \/ required \cap courses # {}

Earned(required, courses) == required # {} /\ required \subseteq courses

Pending(s) == nomination[s].status = "pending"
Eligible(s) == Pending(s) /\ enabled /\ Earned(nomination[s].required, completed)

Set(p, t) == tx' = [tx EXCEPT ![p] = t]

-----------------------------------------------------------------------------
(* Nomination.                                                             *)

\* The request reads the target's courses before it has the nomination's row.
Ask(p, s) ==
  /\ tx[p] = Idle /\ enabled /\ nominations < MaxNominations
  /\ s \in Courses => s \in offered
  /\ Set(p, [Idle EXCEPT !.at = "asked", !.activated = {s},
                         !.courses = IF s = Cohort THEN offered ELSE {s}])
  /\ nominations' = nominations + 1
  /\ UNCHANGED <<offered, completed, ever, enabled, nomination, aborts>>

\* The insert meets a row of this scope that is not revoked.
Standing(s) == nomination[s].status \in {"pending", "active"}

\* The row is inserted or locked; one that is pending or active is returned.
Nominate(p) ==
  /\ tx[p].at = "asked"
  /\ \A s \in tx[p].activated :
       /\ Free(s)
       /\ IF Standing(s)
          THEN Set(p, Idle)
          ELSE Set(p, [tx[p] EXCEPT !.at = "nominated", !.locked = {s}, !.activated = {}])
  /\ UNCHANGED <<offered, completed, ever, enabled, nomination, nominations, aborts>>

\* In the same transaction, a nominee who has completed everything is active.
ActivateNominee(p) ==
  /\ tx[p].at = "nominated"
  /\ Set(p, [tx[p] EXCEPT !.at = "activating",
               !.activated = IF enabled /\ Earned(tx[p].courses, completed)
                             THEN tx[p].locked ELSE {}])
  /\ UNCHANGED <<offered, completed, ever, enabled, nomination, nominations, aborts>>

CommitNomination(p) ==
  /\ tx[p].at = "activating"
  /\ nomination' = [s \in Scopes |->
       IF s \in tx[p].locked
       THEN [status |-> IF s \in tx[p].activated THEN "active" ELSE "pending",
             required |-> tx[p].courses]
       ELSE nomination[s]]
  /\ Set(p, Idle)
  /\ UNCHANGED <<offered, completed, ever, enabled, nominations, aborts>>

Revoke(s) ==
  /\ Free(s) /\ Standing(s)
  /\ nomination' = [nomination EXCEPT ![s].status = "revoked"]
  /\ UNCHANGED <<offered, completed, ever, enabled, tx, nominations, aborts>>

-----------------------------------------------------------------------------
(* Completion of a course.                                                 *)

\* Mutant: the completion activates without reading the other requirements.
WithThis_Alone(s, c) == nomination[s].required

WithThis(s, c) == completed \cup {c}

\* The first completion locks the pending nominations that require the course,
\* waiting for them, and activates those that are complete with it.
Complete(p, c) ==
  /\ tx[p] = Idle /\ c \notin completed /\ RecordFree(c)
  /\ LET affected == {s \in Scopes : Pending(s) /\ c \in nomination[s].required}
     IN /\ \A s \in affected : Free(s)
        /\ Set(p, [at |-> "completing", locked |-> affected, courses |-> {c},
                   activated |-> {s \in affected :
                     enabled /\ Earned(nomination[s].required, WithThis(s, c))}])
  /\ UNCHANGED <<offered, completed, ever, enabled, nomination, nominations, aborts>>

\* UPDATE ... WHERE status = 'pending', of the rows that were locked.
Activated(p) ==
  [s \in Scopes |-> IF s \in tx[p].activated THEN [nomination[s] EXCEPT !.status = "active"]
                    ELSE nomination[s]]

CommitCompletion(p) ==
  /\ tx[p].at = "completing"
  /\ completed' = completed \cup tx[p].courses
  /\ ever' = ever \cup tx[p].courses
  /\ nomination' = Activated(p)
  /\ Set(p, Idle)
  /\ UNCHANGED <<offered, enabled, nominations, aborts>>

\* A score written after an activity was added reopens the course.
Withdraw(c) ==
  /\ c \in completed /\ RecordFree(c)
  /\ completed' = completed \ {c}
  /\ UNCHANGED <<offered, ever, enabled, nomination, tx, nominations, aborts>>

-----------------------------------------------------------------------------
(* The repair sweep.                                                       *)

\* Mutant: incomplete nominations take up the sweep.
Candidate_Pending(s) == Pending(s)

Candidate(s) == Eligible(s)

\* The sweep locks up to Limit eligible nominations that nobody holds.
Sweep ==
  /\ tx[Sweeper] = Idle
  /\ LET found == {s \in Scopes : Candidate(s) /\ Free(s)}
     IN \E some \in SUBSET found :
          /\ some # {}
          /\ \/ Cardinality(some) = Limit
             \/ some = found /\ Cardinality(some) < Limit
          /\ Set(Sweeper, [Idle EXCEPT !.at = "sweeping", !.locked = some,
                                       !.activated = {s \in some : Eligible(s)}])
  /\ UNCHANGED <<offered, completed, ever, enabled, nomination, nominations, aborts>>

CommitSweep ==
  /\ tx[Sweeper].at = "sweeping"
  /\ nomination' = Activated(Sweeper)
  /\ Set(Sweeper, Idle)
  /\ UNCHANGED <<offered, completed, ever, enabled, nominations, aborts>>

Abort(p) ==
  /\ tx[p] # Idle /\ aborts < MaxAborts
  /\ Set(p, Idle)
  /\ aborts' = aborts + 1
  /\ UNCHANGED <<offered, completed, ever, enabled, nomination, nominations>>

-----------------------------------------------------------------------------
(* Administration around it, and the access it gives.                      *)

\* An offering of the cohort starts; nothing in the program ends one.
Offer(c) ==
  /\ c \notin offered
  /\ offered' = offered \cup {c}
  /\ UNCHANGED <<completed, ever, enabled, nomination, tx, nominations, aborts>>

\* The person is suspended, or reinstated.
SetStatus ==
  /\ enabled' = ~enabled
  /\ UNCHANGED <<offered, completed, ever, nomination, tx, nominations, aborts>>

\* Mutant: a cohort assignment reaches every course the cohort offers.
Covers_Cohort(s) == IF s = Cohort THEN Courses ELSE {s}

\* facilitator_access: a cohort assignment reaches what it required.
Covers(s) == IF s = Cohort THEN nomination[s].required ELSE {s}

Teaches ==
  {c \in offered : \E s \in Scopes : nomination[s].status = "active" /\ c \in Covers(s)}

-----------------------------------------------------------------------------

Init ==
  /\ offered \in SUBSET Courses
  /\ completed = {} /\ ever = {} /\ enabled = TRUE
  /\ nomination = [s \in Scopes |-> [status |-> "none", required |-> {}]]
  /\ tx = [p \in Processes |-> Idle]
  /\ nominations = 0 /\ aborts = 0

Finish(p) ==
  \/ Nominate(p) \/ ActivateNominee(p) \/ CommitNomination(p) \/ CommitCompletion(p)

Next ==
  \/ \E p \in Requests : (\E s \in Scopes : Ask(p, s)) \/ (\E c \in Courses : Complete(p, c))
  \/ \E p \in Requests : Finish(p)
  \/ \E p \in Processes : Abort(p)
  \/ \E s \in Scopes : Revoke(s)
  \/ \E c \in Courses : Withdraw(c) \/ Offer(c)
  \/ SetStatus
  \/ Sweep \/ CommitSweep

\* A transaction that is open goes on, and the timer sweeps again and again.
Fairness ==
  /\ \A p \in Requests : WF_vars(Finish(p))
  /\ WF_vars(Sweep) /\ WF_vars(CommitSweep)

Spec == Init /\ [][Next]_vars
FairSpec == Spec /\ Fairness

-----------------------------------------------------------------------------
(* Properties.                                                             *)

\* Every variable keeps its type, and a nomination is locked by at most one
\* transaction (FOR UPDATE in the activation capability, nominate and revoke).
TypeOK ==
  /\ offered \subseteq Courses /\ completed \subseteq ever /\ ever \subseteq Courses
  /\ enabled \in BOOLEAN
  /\ nomination \in [Scopes -> Nomination]
  /\ tx \in [Processes -> Transaction]
  /\ nominations \in 0 .. MaxNominations /\ aborts \in 0 .. MaxAborts
  /\ \A p, o \in Processes : tx[p].locked \cap tx[o].locked # {} => p = o

\* Nobody teaches a course he had not completed, whatever was added to the
\* cohort, nominated anew or withdrawn since (facilitator_access: "a course
\* added to the cohort later must not silently widen an existing assignment").
TaughtIsEarned == Teaches \subseteq ever

\* A nomination whose requirements are all completed does not stay pending:
\* whatever the completion and the nomination missed of each other, a sweep
\* finds it, and incomplete nominations do not starve it.
EligibleActivated == \A s \in Scopes : Eligible(s) ~> ~Eligible(s)

=============================================================================
