----------------------------- MODULE ConsoleUse -----------------------------
(***************************************************************************)
(* Console use and the idle reaper, for one lab.  A web process that sees  *)
(* a keystroke on a terminal's websocket records it, at most once per      *)
(* interval, in a background task; opening a console is recorded in the    *)
(* request.  The reaper compares the later of that record and the stamp of *)
(* the last deploy with its cut-off.                                       *)
(*                                                                         *)
(* Several processes record the same lab, each with a throttle of its own, *)
(* and the upsert throttles them once more.                                *)
(*                                                                         *)
(* Bounds: a write ends within the tick it was issued in.  A write that    *)
(* fails is swallowed; MaxFailures bounds them.                            *)
(***************************************************************************)
EXTENDS Integers

CONSTANTS
  WebProcesses, \* web processes
  Interval,     \* HEARTBEAT_INTERVAL_SECONDS, in ticks
  IdleLimit,    \* lab_idle_minutes, in ticks
  MaxTime,      \* bound on the clock
  MaxFailures   \* bound on writes that fail

ASSUME UseTimesAssumption ==
  Interval \in Nat /\ IdleLimit \in Nat /\ MaxTime \in Nat /\ MaxFailures \in Nat

VARIABLES
  now,
  attempted,  \* [WebProcesses -> _last_attempt of the lab]
  issued,     \* processes with a write on its way
  lastSeen,   \* lab_console_activity.last_seen_at
  deployed,   \* last_active_at of the instance
  used,       \* when the console was last used
  reaped,     \* a destroy of the idle lab is queued
  failures

useVars == <<now, attempted, issued, lastSeen, deployed, used, reaped, failures>>

\* Before anything happened.
Never == -1

-----------------------------------------------------------------------------
(* The two throttles.                                                      *)

\* Mutant: the slot is kept for one interval too many.
SlotDue_Doubled(p) == attempted[p] = Never \/ now - attempted[p] >= 2 * Interval

\* _due
SlotDue(p) == attempted[p] = Never \/ now - attempted[p] >= Interval

\* Mutant: the row must be as old as the idle limit.
Rewritten_Idle(at) == lastSeen = Never \/ lastSeen < at - IdleLimit

\* The WHERE of the upsert.
Rewritten(at) == lastSeen = Never \/ lastSeen < at - Interval

\* A keystroke passes the gate of its process, and a task is started; others
\* pass by.
Keystroke(p) ==
  /\ ~reaped
  /\ used' = now
  /\ IF SlotDue(p) THEN attempted' = [attempted EXCEPT ![p] = now] /\ issued' = issued \cup {p}
                   ELSE UNCHANGED <<attempted, issued>>
  /\ UNCHANGED <<now, lastSeen, deployed, reaped, failures>>

\* The page of a console is opened, and the use recorded in its transaction.
OpenPage(p) ==
  /\ ~reaped
  /\ used' = now
  /\ IF SlotDue(p)
     THEN /\ attempted' = [attempted EXCEPT ![p] = now]
          /\ lastSeen' = IF Rewritten(now) THEN now ELSE lastSeen
     ELSE UNCHANGED <<attempted, lastSeen>>
  /\ UNCHANGED <<now, issued, deployed, reaped, failures>>

\* The task writes and commits.
WriteBeat(p) ==
  /\ p \in issued
  /\ issued' = issued \ {p}
  /\ lastSeen' = IF Rewritten(now) THEN now ELSE lastSeen
  /\ UNCHANGED <<now, attempted, deployed, used, reaped, failures>>

\* It fails, and the slot stays taken.
LoseBeat(p) ==
  /\ p \in issued /\ failures < MaxFailures
  /\ issued' = issued \ {p} /\ failures' = failures + 1
  /\ UNCHANGED <<now, attempted, lastSeen, deployed, used, reaped>>

\* The process restarts, or drops the slot of this lab for others.
ForgetSlot(p) ==
  /\ attempted[p] # Never /\ p \notin issued
  /\ attempted' = [attempted EXCEPT ![p] = Never]
  /\ UNCHANGED <<now, issued, lastSeen, deployed, used, reaped, failures>>

-----------------------------------------------------------------------------
(* The worker and the reaper.                                              *)

\* A deploy of the lab ends, the first or a reset: it stamps the row.
StampDeploy ==
  /\ ~reaped
  /\ deployed' = now
  /\ UNCHANGED <<now, attempted, issued, lastSeen, used, reaped, failures>>

\* Mutant: the reaper knows only of deploys.
LastActive_Deploy == deployed

\* greatest(last_active_at, last_seen_at)
LastActive == IF lastSeen > deployed THEN lastSeen ELSE deployed

RequestIdleReap ==
  /\ ~reaped /\ LastActive < now - IdleLimit
  /\ reaped' = TRUE
  /\ UNCHANGED <<now, attempted, issued, lastSeen, deployed, used, failures>>

UseTick ==
  /\ now < MaxTime /\ ~reaped /\ issued = {}
  /\ now' = now + 1
  /\ UNCHANGED <<attempted, issued, lastSeen, deployed, used, reaped, failures>>

-----------------------------------------------------------------------------

UseInit ==
  /\ now = 0 /\ attempted = [p \in WebProcesses |-> Never] /\ issued = {}
  /\ lastSeen = Never /\ deployed = 0 /\ used = Never
  /\ reaped = FALSE /\ failures = 0

UseNext ==
  \/ \E p \in WebProcesses :
       Keystroke(p) \/ OpenPage(p) \/ WriteBeat(p) \/ LoseBeat(p) \/ ForgetSlot(p)
  \/ StampDeploy \/ RequestIdleReap \/ UseTick

UseSpec == UseInit /\ [][UseNext]_useVars

-----------------------------------------------------------------------------
(* Properties.                                                             *)

\* Every variable keeps its type, and nothing is recorded that was not used.
UseTypeOK ==
  /\ now \in 0 .. MaxTime /\ attempted \in [WebProcesses -> Never .. now]
  /\ issued \subseteq WebProcesses
  /\ lastSeen \in Never .. used /\ deployed \in 0 .. now /\ used \in Never .. now
  /\ reaped \in BOOLEAN /\ failures \in 0 .. MaxFailures

\* A lab is reaped only when nobody has used its console for the idle limit
\* less two intervals, whatever processes the keystrokes went through: one that
\* the throttle of a process lets pass, and one that the upsert does
\* (lab_console_activity: "typing in a lab console keeps the lab alive"). Excepted
\* are the tick of the reap itself, whose writes may come too late, and a write
\* that is lost. Nor is a lab reaped that was just deployed.
ReapedWasIdle ==
  reaped => /\ failures = 0 /\ used \notin {Never, now} =>
                 now - used > IdleLimit - 2 * Interval
            /\ now - deployed > IdleLimit
=============================================================================
