---------------------------- MODULE ContainedCall ----------------------------
(***************************************************************************)
(* One external command of the lab worker (containerlab, docker, ssh): it  *)
(* runs in a process group of its own, and whatever ends the call early -  *)
(* its timeout, or a signal that asks the worker to stop - must take the   *)
(* whole group down, politely first, and may not hold the worker for ever. *)
(*                                                                         *)
(* A step is what happens between two points at which Python can raise a   *)
(* signal.  The group is its leader, which the worker started, and one     *)
(* helper that the leader may start.  Processes are free to hang.          *)
(*                                                                         *)
(* Simplified: every member holds the output pipes, so that communicate()  *)
(* returns when all have left; a killed process that is stuck in the       *)
(* kernel is "wedged" and leaves when its system call returns; a group     *)
(* left wedged is not followed by another call.                            *)
(***************************************************************************)
EXTENDS Naturals

CONSTANTS
  Timeout,    \* of a command, in ticks
  Grace,      \* _GROUP_KILL_GRACE_SECONDS, in ticks
  MaxSignals  \* bound: signals the worker gets

ASSUME CallTimesAssumption == Timeout \in Nat /\ Grace \in Nat /\ MaxSignals \in Nat

VARIABLES
  at,       \* where the worker is
  group,    \* [Members -> state of the process]
  blocked,  \* the signals the worker defers
  pending,  \* signals that have arrived and have not been raised
  cause,    \* the exception on its way
  elapsed,  \* ticks of the wait the worker is in
  cut,      \* a signal was raised where nothing catches it for the group
  signals

callVars == <<at, group, blocked, pending, cause, elapsed, cut, signals>>

Deferred == {"INT", "TERM"}
Members == {"leader", "helper"}
Points == {"up", "forking", "entering", "waiting", "returning", "raised",
           "grace", "reap", "lifting", "down"}
MemberStates == {"absent", "running", "deaf", "leaving", "wedged", "zombie"}

\* Python runs the handlers of several pending signals in the order of their
\* numbers, each of them raising.
First == IF "INT" \in pending THEN "INT" ELSE "TERM"

\* A leader that exits stays a zombie until the worker reaps it.
Exited(m) == IF m = "leader" THEN "zombie" ELSE "absent"

\* Mutant: the grace period ends with the leader.
GroupAlive_Leader == group["leader"] \notin {"absent", "zombie"}

\* killpg(pid, 0) succeeds.
GroupAlive == \E m \in Members : group[m] # "absent"

-----------------------------------------------------------------------------
(* _run_contained.                                                         *)

\* SIG_BLOCK before Popen.
Call ==
  /\ at = "up" /\ group["helper"] = "absent" /\ group["leader"] \in {"absent", "zombie"}
  /\ at' = "forking" /\ blocked' = Deferred
  /\ UNCHANGED <<group, pending, cause, elapsed, cut, signals>>

\* Mutant: the child starts with the mask of the worker.
ChildMask_Inherited == blocked

\* preexec_fn lifts the mask that the child inherits.
ChildMask == {}

Fork ==
  /\ at = "forking"
  /\ group' = [group EXCEPT !["leader"] = IF ChildMask = {} THEN "running" ELSE "deaf"]
  /\ at' = "entering"
  /\ UNCHANGED <<blocked, pending, cause, elapsed, cut, signals>>

\* Mutant: a command that cannot start leaves the signals deferred.
MaskAfterFailure_Kept == blocked

MaskAfterFailure == {}

\* Popen raises; lifting the mask raises what is pending.
ForkFails ==
  /\ at = "forking"
  /\ blocked' = MaskAfterFailure
  /\ at' = IF pending = {} \/ blocked' # {} THEN "up" ELSE "down"
  /\ UNCHANGED <<group, pending, cause, elapsed, cut, signals>>

\* The mask is lifted inside the try, so a pending signal is raised inside it.
Enter ==
  /\ at = "entering"
  /\ blocked' = {} /\ elapsed' = 0
  /\ IF pending = {} THEN at' = "waiting" /\ UNCHANGED <<pending, cause>>
                     ELSE at' = "raised" /\ pending' = pending \ {First} /\ cause' = First
  /\ UNCHANGED <<group, cut, signals>>

\* communicate(): all have left, and the leader is reaped.
Collect ==
  /\ at = "waiting" /\ group["helper"] = "absent" /\ group["leader"] = "zombie"
  /\ group' = [group EXCEPT !["leader"] = "absent"]
  /\ at' = "returning"
  /\ UNCHANGED <<blocked, pending, cause, elapsed, cut, signals>>

Return ==
  /\ at = "returning" /\ at' = "up"
  /\ UNCHANGED <<group, blocked, pending, cause, elapsed, cut, signals>>

Expire ==
  /\ at = "waiting" /\ elapsed = Timeout
  /\ at' = "raised" /\ cause' = "timeout"
  /\ UNCHANGED <<group, blocked, pending, elapsed, cut, signals>>

-----------------------------------------------------------------------------
(* _terminate_process_group, in the except clause.                         *)

\* SIG_BLOCK, then SIGTERM for the group, if there is one.
AskToEnd ==
  /\ at = "raised" /\ pending = {}
  /\ blocked' = Deferred /\ elapsed' = 0
  /\ group' = [m \in Members |-> IF group[m] = "running" THEN "leaving" ELSE group[m]]
  /\ at' = IF GroupAlive THEN "grace" ELSE "reap"
  /\ UNCHANGED <<pending, cause, cut, signals>>

\* A second signal, of the other kind, was pending too: it is raised before the
\* mask is back.
RaiseAgain ==
  /\ at = "raised" /\ pending # {}
  /\ at' = "down" /\ cut' = TRUE /\ pending' = {}
  /\ UNCHANGED <<group, blocked, cause, elapsed, signals>>

\* One poll of the grace period.
Poll ==
  /\ at = "grace"
  /\ \/ ~GroupAlive /\ at' = "reap" /\ elapsed' = 0 /\ UNCHANGED group
     \/ /\ GroupAlive /\ elapsed < Grace /\ group["leader"] = "zombie"
        /\ group' = [group EXCEPT !["leader"] = "absent"]
        /\ UNCHANGED <<at, elapsed>>
  /\ UNCHANGED <<blocked, pending, cause, cut, signals>>

\* The deadline: SIGKILL, which does not end who is stuck in the kernel.
Kill ==
  /\ at = "grace" /\ GroupAlive /\ elapsed = Grace
  /\ \E stuck \in SUBSET Members :
       group' = [m \in Members |->
                   CASE group[m] \in {"absent", "zombie"} -> group[m]
                     [] group[m] \notin {"absent", "zombie"} /\ m \in stuck -> "wedged"
                     [] OTHER -> Exited(m)]
  /\ at' = "reap" /\ elapsed' = 0
  /\ UNCHANGED <<blocked, pending, cause, cut, signals>>

\* Mutant: the last wait has no bound.
WaitOver_Never == group["leader"] = "absent"

WaitOver == group["leader"] = "absent" \/ elapsed = Grace

\* The last wait for the leader.
Reap ==
  /\ at = "reap"
  /\ \/ /\ group["leader"] = "zombie"
        /\ group' = [group EXCEPT !["leader"] = "absent"]
        /\ UNCHANGED at
     \/ WaitOver /\ at' = "lifting" /\ UNCHANGED group
  /\ UNCHANGED <<blocked, pending, cause, elapsed, cut, signals>>

\* The mask is lifted and the exception goes on, unless a signal that came
\* meanwhile takes its place.
Lift ==
  /\ at = "lifting"
  /\ blocked' = {} /\ pending' = {}
  /\ at' = IF pending # {} \/ cause \in Deferred THEN "down" ELSE "up"
  /\ UNCHANGED <<group, cause, elapsed, cut, signals>>

-----------------------------------------------------------------------------
(* The world around it.                                                    *)

\* SIGTERM or SIGINT for the worker: deferred, or raised where it is.
Signal(s) ==
  /\ at # "down" /\ signals < MaxSignals
  /\ signals' = signals + 1
  /\ IF s \in blocked
     THEN pending' = pending \cup {s} /\ UNCHANGED <<at, cause, cut>>
     ELSE /\ at' = IF at \in {"waiting", "returning"} THEN "raised" ELSE "down"
          /\ cause' = s
          /\ cut' = (cut \/ at = "raised")
          /\ UNCHANGED pending
  /\ UNCHANGED <<group, blocked, elapsed>>

Spawn ==
  /\ group["leader"] \in {"running", "deaf"} /\ group["helper"] = "absent"
  /\ group' = [group EXCEPT !["helper"] = group["leader"]]
  /\ UNCHANGED <<at, blocked, pending, cause, elapsed, cut, signals>>

Leave(m) ==
  /\ group[m] \notin {"absent", "zombie"}
  /\ group' = [group EXCEPT ![m] = Exited(m)]
  /\ UNCHANGED <<at, blocked, pending, cause, elapsed, cut, signals>>

CallTick ==
  /\ \/ at = "waiting" /\ elapsed < Timeout
     \/ at \in {"grace", "reap"} /\ elapsed < Grace
  /\ elapsed' = elapsed + 1
  /\ UNCHANGED <<at, group, blocked, pending, cause, cut, signals>>

-----------------------------------------------------------------------------

CallInit ==
  /\ at = "up" /\ group = [m \in Members |-> "absent"]
  /\ blocked = {} /\ pending = {} /\ cause = "none"
  /\ elapsed = 0 /\ cut = FALSE /\ signals = 0

\* What the worker does by itself once it has begun a call.
Work ==
  \/ Fork \/ ForkFails \/ Enter \/ Collect \/ Return \/ Expire
  \/ AskToEnd \/ RaiseAgain \/ Poll \/ Kill \/ Reap \/ Lift

CallNext ==
  \/ Call \/ Work \/ CallTick \/ Spawn
  \/ \E s \in Deferred : Signal(s)
  \/ \E m \in Members : Leave(m)

\* The worker and the clock go on; nothing is asked of the processes.
CallFairness == WF_callVars(Work) /\ WF_callVars(CallTick)

CallSpec == CallInit /\ [][CallNext]_callVars
FairCallSpec == CallSpec /\ CallFairness

-----------------------------------------------------------------------------
(* Properties.                                                             *)

\* Every variable keeps its type, and outside a call no signal is deferred.
CallTypeOK ==
  /\ at \in Points
  /\ group \in [Members -> MemberStates]
  /\ blocked \in {{}, Deferred} /\ pending \subseteq Deferred
  /\ cause \in Deferred \cup {"none", "timeout"}
  /\ elapsed \in Nat /\ cut \in BOOLEAN /\ signals \in 0 .. MaxSignals
  /\ at = "up" => blocked = {}

\* The group ends with the call (_run_contained: "guaranteeing group teardown"):
\* when the worker goes on or stops, nothing of the group runs but what cannot
\* be killed, except where a signal cut in between the failure of a call and its
\* cleanup; and whoever the grace period is spent on has heard the request.
CallTornDown ==
  /\ at \in {"up", "down"} /\ ~cut =>
       \A m \in Members : group[m] \in {"absent", "zombie", "wedged"}
  /\ at = "grace" => \A m \in Members : group[m] \notin {"running", "deaf"}

\* "No external command interaction may hang the worker indefinitely", and a
\* deferred signal is not lost: it stops the worker.
CallSettles ==
  /\ (at # "up") ~> (at \in {"up", "down"})
  /\ (pending # {}) ~> (at = "down")
=============================================================================
