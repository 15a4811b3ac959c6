----------------------------- MODULE SuccessQueue -----------------------------
(***************************************************************************)
(* The success queue of one learner: a sweep opens an entry when a rule    *)
(* finds the learner in trouble, refreshes the live one, and resolves it   *)
(* when the rule fires no longer; staff acknowledge and resolve entries in *)
(* between.                                                                *)
(*                                                                         *)
(* A sweep is one transaction over all active students: for this one it    *)
(* evaluates the rule, looks for a live entry and writes, and the row it   *)
(* has written stays locked until the others are done.  Staff read an      *)
(* entry without a lock and write what they decided from that reading.     *)
(*                                                                         *)
(* Simplified: one rule stands for the five, which are alike, and what it  *)
(* computes is its verdict; facts, severity and assignee are left out, and *)
(* with them the transitions that change only those; a resolved row that   *)
(* nobody holds serves again for a new entry.  A sweep that fails over     *)
(* another learner is one that dies.                                       *)
(***************************************************************************)
EXTENDS Naturals, FiniteSets

CONSTANTS
  Rows,       \* rows for entries of the learner
  Staff,      \* requests of instructors
  Sweepers,   \* processes that sweep
  Timer,      \* the one the timer starts again and again
  None,       \* no row
  MaxCrashes  \* bound: sweeps that die

ASSUME TimerAssumption == Timer \in Sweepers
ASSUME NoneAssumption == None \notin Rows
ASSUME CrashAssumption == MaxCrashes \in Nat

VARIABLES
  holds,      \* the rule fires for the learner
  enrolled,   \* the learner is active and enrolled as a student
  status,     \* [Rows -> status of the entry], as committed
  desk,       \* [Staff -> the entry a request has read, and the status to give it]
  sweep,      \* [Sweepers -> the open sweep]
  crashes

queueVars == <<holds, enrolled, status, desk, sweep, crashes>>

\* A row not in use counts as resolved.
EntryStatuses == {"open", "acknowledged", "resolved"}

AtEase == [row |-> None, to |-> "resolved"]
Reading == {AtEase} \cup [row : Rows, to : {"acknowledged", "resolved"}]

\* A sweep: how far it is, the verdict and the entry it read; then the row it
\* has locked, and the status that row has once the sweep commits.
Resting == [at |-> "resting", fires |-> FALSE, found |-> None, row |-> None, to |-> "same"]
SweepStates == [at : {"resting", "listed", "looked", "wrote"}, fires : BOOLEAN,
          found : Rows \cup {None}, row : Rows \cup {None}, to : {"same", "open", "resolved"}]

-----------------------------------------------------------------------------
(* Entries, locks and the unique index on open entries.                    *)

\* Mutant: an acknowledged entry is no longer looked at.
Found_OpenOnly == {e \in Rows : status[e] = "open"}

\* The live entries, one of which the sweep takes.
Found == {e \in Rows : status[e] \in {"open", "acknowledged"}}

\* Mutant: no unique index keeps a second open entry out.
Indexed_Not == {}

\* The rows in the unique index: open ones, and those being opened.
Indexed ==
  {e \in Rows : \/ status[e] = "open"
                \/ \E o \in Sweepers : sweep[o].row = e /\ sweep[o].to = "open"}

Unlocked(e) == \A o \in Sweepers : sweep[o].row # e

\* Rows that a new entry may take.
Spare ==
  {e \in Rows : /\ status[e] = "resolved" /\ Unlocked(e)
                /\ \A o \in Sweepers : sweep[o].found # e
                /\ \A s \in Staff : desk[s].row # e}

\* No other transaction has the row that p is to write.
MayUpdate(p) == sweep[p].at = "looked" /\ sweep[p].found # None /\ Unlocked(sweep[p].found)

\* p is to insert, and no open transaction has a row its entry collides with.
MayInsert(p) ==
  /\ sweep[p].at = "looked" /\ sweep[p].found = None /\ sweep[p].fires
  /\ \A e \in Indexed : Unlocked(e)

-----------------------------------------------------------------------------
(* The sweep.                                                              *)

\* Its first query lists the active students, and the learner among them.
Start(p) ==
  /\ sweep[p] = Resting /\ enrolled
  /\ sweep' = [sweep EXCEPT ![p].at = "listed"]
  /\ UNCHANGED <<holds, enrolled, status, desk, crashes>>

\* It evaluates the rule and looks for a live entry.
Evaluate(p) ==
  /\ sweep[p].at = "listed"
  /\ \E e \in IF Found = {} THEN {None} ELSE Found :
       sweep' = [sweep EXCEPT ![p].at = "looked", ![p].fires = holds, ![p].found = e]
  /\ UNCHANGED <<holds, enrolled, status, desk, crashes>>

Wrote(p, e, to) ==
  sweep' = [sweep EXCEPT ![p] = [Resting EXCEPT !.at = "wrote", !.row = e, !.to = to]]

\* The rule fires: the entry it found gets new facts, and keeps its status.
Refresh(p) ==
  /\ MayUpdate(p) /\ sweep[p].fires
  /\ Wrote(p, sweep[p].found, "same")
  /\ UNCHANGED <<holds, enrolled, status, desk, crashes>>

\* The rule fires and it found none: it inserts an entry.
OpenEntry(p) ==
  /\ MayInsert(p) /\ Indexed = {} /\ Spare # {}
  /\ Wrote(p, CHOOSE e \in Spare : TRUE, "open")
  /\ UNCHANGED <<holds, enrolled, status, desk, crashes>>

\* Another sweep has opened one since: the insert fails, and with it the sweep.
Collide(p) ==
  /\ MayInsert(p) /\ Indexed # {}
  /\ sweep' = [sweep EXCEPT ![p] = Resting]
  /\ UNCHANGED <<holds, enrolled, status, desk, crashes>>

\* The rule fires no longer: the entry it found is resolved, whatever has
\* become of it since.
Resolve(p) ==
  /\ MayUpdate(p) /\ ~sweep[p].fires
  /\ Wrote(p, sweep[p].found, "resolved")
  /\ UNCHANGED <<holds, enrolled, status, desk, crashes>>

\* The rule does not fire and there is no entry.
LeaveAlone(p) ==
  /\ sweep[p].at = "looked" /\ ~sweep[p].fires /\ sweep[p].found = None
  /\ Wrote(p, None, "same")
  /\ UNCHANGED <<holds, enrolled, status, desk, crashes>>

Commit(p) ==
  /\ sweep[p].at = "wrote"
  /\ status' = [e \in Rows |-> IF e = sweep[p].row /\ sweep[p].to # "same"
                               THEN sweep[p].to ELSE status[e]]
  /\ sweep' = [sweep EXCEPT ![p] = Resting]
  /\ UNCHANGED <<holds, enrolled, desk, crashes>>

\* The sweep dies, and the database rolls its transaction back.
Crash(p) ==
  /\ sweep[p] # Resting /\ crashes < MaxCrashes
  /\ sweep' = [sweep EXCEPT ![p] = Resting]
  /\ crashes' = crashes + 1
  /\ UNCHANGED <<holds, enrolled, status, desk>>

-----------------------------------------------------------------------------
(* Staff, and what happens to the learner.                                 *)

\* A request reads an entry and decides: only an open one is acknowledged, only
\* a live one resolved.
Read(s) ==
  /\ desk[s] = AtEase
  /\ \E e \in Rows, to \in {"acknowledged", "resolved"} :
       /\ status[e] \in {"open"} \cup (IF to = "resolved" THEN {"acknowledged"} ELSE {})
       /\ desk' = [desk EXCEPT ![s] = [row |-> e, to |-> to]]
  /\ UNCHANGED <<holds, enrolled, status, sweep, crashes>>

\* It writes and commits, once no sweep holds the row.
Transition(s) ==
  /\ desk[s] # AtEase /\ Unlocked(desk[s].row)
  /\ status' = [status EXCEPT ![desk[s].row] = desk[s].to]
  /\ desk' = [desk EXCEPT ![s] = AtEase]
  /\ UNCHANGED <<holds, enrolled, sweep, crashes>>

\* The learner falls behind or catches up.
Change == holds' = ~holds /\ UNCHANGED <<enrolled, status, desk, sweep, crashes>>

\* The learner is suspended or withdrawn, or taken back.
Enrol == enrolled' = ~enrolled /\ UNCHANGED <<holds, status, desk, sweep, crashes>>

-----------------------------------------------------------------------------

QueueInit ==
  /\ holds \in BOOLEAN /\ enrolled = TRUE
  /\ status = [e \in Rows |-> "resolved"]
  /\ desk = [s \in Staff |-> AtEase]
  /\ sweep = [p \in Sweepers |-> Resting]
  /\ crashes = 0

\* The steps of an open sweep.
Proceed(p) ==
  \/ Evaluate(p) \/ Refresh(p) \/ OpenEntry(p) \/ Collide(p) \/ Resolve(p) \/ LeaveAlone(p)
  \/ Commit(p)

QueueNext ==
  \/ \E p \in Sweepers : Start(p) \/ Proceed(p) \/ Crash(p)
  \/ \E s \in Staff : Read(s) \/ Transition(s)
  \/ Change \/ Enrol

\* The timer starts sweeps again and again; an open transaction proceeds, and
\* gets a lock it waits for (the database serves waiting transactions in turn).
QueueFairness ==
  /\ WF_queueVars(Start(Timer))
  /\ \A p \in Sweepers : SF_queueVars(Proceed(p))

QueueSpec == QueueInit /\ [][QueueNext]_queueVars
FairQueueSpec == QueueSpec /\ QueueFairness

-----------------------------------------------------------------------------
(* Properties.                                                             *)

\* Every variable keeps its type; a row is locked by at most one sweep, and the
\* learner has at most one open entry, however sweeps and staff interleave
\* (the unique index and the docstring of SuccessQueueEntry).
QueueTypeOK ==
  /\ holds \in BOOLEAN /\ enrolled \in BOOLEAN
  /\ status \in [Rows -> EntryStatuses]
  /\ desk \in [Staff -> Reading]
  /\ sweep \in [Sweepers -> SweepStates]
  /\ crashes \in 0 .. MaxCrashes
  /\ \A p, o \in Sweepers : sweep[p].row = sweep[o].row /\ p # o => sweep[p].row = None
  /\ Cardinality({e \in Rows : status[e] = "open"}) <= 1

\* The queue follows the rule: a learner in trouble gets a live entry, and a
\* live entry whose rule fires no longer is closed, unless the learner's state
\* changes first; whatever sweep fails, and whatever staff did from what they
\* had read.
Live(e) == status[e] \in {"open", "acknowledged"}

QueueFollows ==
  /\ (enrolled /\ holds) ~> (~enrolled \/ ~holds \/ \E e \in Rows : Live(e))
  /\ \A e \in Rows : (enrolled /\ ~holds /\ Live(e)) ~> (~enrolled \/ holds \/ ~Live(e))
=============================================================================
