------------------------------ MODULE UpkeepProofs ------------------------------
(* Proofs about the components that timers and the worker keep in order, in *)
(* two halves that share nothing. The sweeps: the facilitators and the      *)
(* success queue, for any courses, requests, entries, sweeps and limits.    *)
(* The host: external commands, consoles and the record of their use, for   *)
(* any labs, ports, processes, times and bounds on faults.                  *)
EXTENDS MCSweeps, MCConsoles, FiniteSetTheorems, TLAPS

-----------------------------------------------------------------------------
(* Facilitators: the inductive invariant.                                  *)

Types ==
  /\ offered \subseteq Courses /\ completed \subseteq ever /\ ever \subseteq Courses
  /\ enabled \in BOOLEAN
  /\ nomination \in [Scopes -> Nomination]
  /\ tx \in [Processes -> Transaction]
  /\ nominations \in 0 .. MaxNominations /\ aborts \in 0 .. MaxAborts

\* A nomination has one transaction.
Exclusive == \A p, o \in Processes : p # o => tx[p].locked \cap tx[o].locked = {}

\* A nomination for one course requires that course.
Includes(s, courses) == s \in Courses => s \in courses

\* An active nomination was earned, whatever was withdrawn since.
EarnedOnce ==
  \A s \in Scopes :
    /\ nomination[s].status # "none" => Includes(s, nomination[s].required)
    /\ nomination[s].status = "active" => nomination[s].required \subseteq ever

\* What a transaction has read is enough for what it will write.
Grounded(x) ==
  /\ x.at = "asked" =>
       /\ x.locked = {}
       /\ \E s \in Scopes : x.activated = {s} /\ Includes(s, x.courses)
  /\ x.at \in {"nominated", "activating"} => \A s \in x.locked : Includes(s, x.courses)
  /\ x.at = "activating" => x.activated = {} \/ x.courses \subseteq ever
  /\ x.at \in {"completing", "sweeping"} =>
       \A s \in x.activated :
         /\ s \in x.locked /\ nomination[s].status = "pending"
         /\ nomination[s].required \subseteq
              ever \cup (IF x.at = "completing" THEN x.courses ELSE {})

AllGrounded == \A p \in Processes : Grounded(tx[p])

NominationInv == Types /\ Exclusive /\ EarnedOnce /\ AllGrounded

-----------------------------------------------------------------------------
(* The success queue: the inductive invariant.                             *)

QueueTypes ==
  /\ holds \in BOOLEAN /\ enrolled \in BOOLEAN
  /\ status \in [Rows -> EntryStatuses]
  /\ desk \in [Staff -> Reading]
  /\ sweep \in [Sweepers -> SweepStates]
  /\ crashes \in 0 .. MaxCrashes

\* A row has one sweep, and only one that has written has a row.
RowsLocked ==
  /\ \A p, o \in Sweepers : sweep[p].row = sweep[o].row /\ p # o => sweep[p].row = None
  /\ \A p \in Sweepers : sweep[p].at # "wrote" => sweep[p].row = None /\ sweep[p].to = "same"

\* The index has one row at most, among those open and those being opened.
OneIndexed == \A e, f \in Indexed : e = f

QueueInv == QueueTypes /\ RowsLocked /\ OneIndexed

USE NamesAssumption, FiniteAssumption, LimitsAssumption, TimerAssumption, NoneAssumption,
    CrashAssumption

-----------------------------------------------------------------------------
(* Facilitators: lemmas.                                                   *)

LEMMA IdleTyped ==
  /\ Idle \in Transaction /\ Idle.at = "idle" /\ Idle.locked = {} /\ Idle.activated = {}
  /\ Idle.courses = {}
  BY DEF Idle, Transaction

LEMMA IdleGrounded == Grounded(Idle)
  BY IdleTyped DEF Grounded

\* One transaction moves on, and holds what no other holds.
LEMMA Moved ==
  ASSUME Types, Exclusive, NEW p \in Processes, NEW x \in Transaction, Set(p, x),
         \A o \in Processes \ {p} : x.locked \cap tx[o].locked = {}
  PROVE  /\ tx' \in [Processes -> Transaction] /\ tx'[p] = x
         /\ \A o \in Processes \ {p} : tx'[o] = tx[o]
         /\ Exclusive'
<1>1. /\ tx' \in [Processes -> Transaction] /\ tx'[p] = x
      /\ \A o \in Processes \ {p} : tx'[o] = tx[o]
  BY DEF Set, Types
<1> QED  BY <1>1 DEF Exclusive

\* A step that only moves one transaction on.
LEMMA Advanced ==
  ASSUME NominationInv, NEW p \in Processes, NEW x \in Transaction, Set(p, x),
         \A o \in Processes \ {p} : x.locked \cap tx[o].locked = {},
         Grounded(x), UNCHANGED <<offered, completed, ever, enabled, nomination>>,
         nominations' \in 0 .. MaxNominations, aborts' \in 0 .. MaxAborts
  PROVE  NominationInv'
<1> USE DEF NominationInv
<1>1. /\ tx' \in [Processes -> Transaction] /\ tx'[p] = x
      /\ \A o \in Processes \ {p} : tx'[o] = tx[o]
      /\ Exclusive'
  BY Moved
<1>2. Types'  BY <1>1 DEF Types
<1>3. EarnedOnce'  BY DEF EarnedOnce
<1>4. AllGrounded'  BY <1>1 DEF AllGrounded, Grounded
<1> QED  BY <1>1, <1>2, <1>3, <1>4

\* A step that touches no nomination and no transaction, and forgets no course
\* that was completed.
LEMMA Around ==
  ASSUME NominationInv, UNCHANGED <<ever, nomination, tx, nominations, aborts>>,
         offered' \subseteq Courses, completed' \subseteq ever, enabled' \in BOOLEAN
  PROVE  NominationInv'
<1> USE DEF NominationInv
<1>1. Types' /\ Exclusive'  BY DEF Types, Exclusive
<1>2. EarnedOnce' /\ AllGrounded'  BY DEF EarnedOnce, AllGrounded, Grounded
<1> QED  BY <1>1, <1>2

\* A transaction ends and writes the nominations that it holds: what the others
\* hold stays.
LEMMA Written ==
  ASSUME NominationInv, NEW p \in Processes, Set(p, Idle),
         nomination' \in [Scopes -> Nomination],
         \A s \in Scopes \ tx[p].locked : nomination'[s] = nomination[s],
         \A s \in tx[p].locked : s \in Scopes =>
           /\ nomination'[s].status # "none" => Includes(s, nomination'[s].required)
           /\ nomination'[s].status = "active" => nomination'[s].required \subseteq ever',
         ever \subseteq ever', ever' \subseteq Courses, completed' \subseteq ever',
         UNCHANGED <<offered, enabled, nominations, aborts>>
  PROVE  NominationInv'
<1> USE DEF NominationInv
<1>1. /\ tx' \in [Processes -> Transaction] /\ tx'[p] = Idle
      /\ \A o \in Processes \ {p} : tx'[o] = tx[o]
      /\ Exclusive'
  BY IdleTyped, Moved
<1>2. Types'  BY <1>1 DEF Types
<1>3. EarnedOnce'
  <2> SUFFICES ASSUME NEW s \in Scopes
               PROVE  /\ nomination'[s].status # "none" => Includes(s, nomination'[s].required)
                      /\ nomination'[s].status = "active" => nomination'[s].required \subseteq ever'
    BY DEF EarnedOnce, Includes
  <2>1. CASE s \in tx[p].locked  BY <2>1
  <2>2. CASE s \notin tx[p].locked  BY <2>2 DEF EarnedOnce
  <2> QED  BY <2>1, <2>2
<1>4. AllGrounded'
  <2> SUFFICES ASSUME NEW o \in Processes \ {p} PROVE Grounded(tx[o])'
    BY <1>1, IdleTyped DEF AllGrounded, Grounded
  <2>1. Grounded(tx[o]) /\ tx[o] \in Transaction /\ tx'[o] = tx[o]
    BY <1>1 DEF AllGrounded, Types
  <2>2. \A s \in tx[o].locked : s \in Scopes /\ nomination'[s] = nomination[s]
    BY <2>1 DEF Exclusive, Transaction
  <2> QED  BY <2>1, <2>2 DEF Grounded, Includes
<1> QED  BY <1>1, <1>2, <1>3, <1>4

LEMMA NominationInit == Init => NominationInv
<1> SUFFICES ASSUME Init PROVE NominationInv  OBVIOUS
<1>1. Types  BY IdleTyped DEF Init, Types, Nomination, Statuses
<1>2. Exclusive  BY IdleTyped DEF Init, Exclusive
<1>3. EarnedOnce  BY DEF Init, EarnedOnce
<1>4. AllGrounded  BY IdleGrounded DEF Init, AllGrounded
<1> QED  BY <1>1, <1>2, <1>3, <1>4 DEF NominationInv

-----------------------------------------------------------------------------
(* Facilitators: the actions.                                              *)

LEMMA AskInv ==
  ASSUME NominationInv, NEW p \in Requests, NEW s \in Scopes, Ask(p, s)
  PROVE  NominationInv'
<1> DEFINE x == [Idle EXCEPT !.at = "asked", !.activated = {s},
                             !.courses = IF s = Cohort THEN offered ELSE {s}]
<1>1. p \in Processes  BY DEF Processes
<1>2. (IF s = Cohort THEN offered ELSE {s}) \subseteq Courses
  BY DEF Scopes, NominationInv, Types
<1>3. /\ x.at = "asked" /\ x.locked = {} /\ x.activated = {s}
      /\ x.courses = IF s = Cohort THEN offered ELSE {s}
  BY DEF Idle
<1>4. x \in Transaction  BY <1>2 DEF Idle, Transaction
<1>5. Set(p, x)  BY DEF Ask
<1> HIDE DEF x
<1>6. Grounded(x)  BY <1>3 DEF Grounded, Includes
<1>7. nominations' \in 0 .. MaxNominations  BY DEF Ask, NominationInv, Types
<1> QED  BY <1>1, <1>3, <1>4, <1>5, <1>6, <1>7, Advanced DEF Ask, NominationInv, Types

\* The row is free when it is locked.
LEMMA NominateInv ==
  ASSUME NominationInv, NEW p \in Processes, Nominate(p)
  PROVE  NominationInv'
<1>1. tx[p] \in Transaction /\ Grounded(tx[p]) /\ tx[p].at = "asked"
  BY DEF Nominate, NominationInv, Types, AllGrounded
<1>2. PICK s \in Scopes : tx[p].activated = {s} /\ Includes(s, tx[p].courses)
  BY <1>1 DEF Grounded
<1>3. Free(s)  BY <1>2 DEF Nominate
<1> DEFINE x == [tx[p] EXCEPT !.at = "nominated", !.locked = {s}, !.activated = {}]
<1>4. /\ x \in Transaction /\ x.at = "nominated" /\ x.locked = {s}
      /\ x.activated = {} /\ x.courses = tx[p].courses
  BY <1>1 DEF Transaction
<1>5. Set(p, Idle) \/ Set(p, x)  BY <1>2 DEF Nominate
<1> HIDE DEF x
<1>6. Grounded(x)  BY <1>2, <1>4 DEF Grounded
<1>7. \A o \in Processes : x.locked \cap tx[o].locked = {}  BY <1>3, <1>4 DEF Free
<1> QED  BY <1>4, <1>5, <1>6, <1>7, IdleTyped, IdleGrounded, Advanced
         DEF Nominate, NominationInv, Types

LEMMA ActivateNomineeInv ==
  ASSUME NominationInv, NEW p \in Processes, ActivateNominee(p)
  PROVE  NominationInv'
<1> DEFINE some == IF enabled /\ Earned(tx[p].courses, completed) THEN tx[p].locked ELSE {}
           x == [tx[p] EXCEPT !.at = "activating", !.activated = some]
<1>1. tx[p] \in Transaction /\ Grounded(tx[p]) /\ tx[p].at = "nominated"
  BY DEF ActivateNominee, NominationInv, Types, AllGrounded
<1>2. some \subseteq Scopes /\ (some = {} \/ tx[p].courses \subseteq ever)
  BY <1>1 DEF Earned, Transaction, NominationInv, Types
<1>3. Set(p, x)  BY DEF ActivateNominee
<1> HIDE DEF some
<1>4. /\ x \in Transaction /\ x.at = "activating" /\ x.locked = tx[p].locked
      /\ x.activated = some /\ x.courses = tx[p].courses
  BY <1>1, <1>2 DEF Transaction
<1> HIDE DEF x
<1>5. Grounded(x)  BY <1>1, <1>2, <1>4 DEF Grounded
<1>6. \A o \in Processes \ {p} : x.locked \cap tx[o].locked = {}
  BY <1>4 DEF NominationInv, Exclusive
<1> QED  BY <1>3, <1>4, <1>5, <1>6, Advanced DEF ActivateNominee, NominationInv, Types

LEMMA CommitNominationInv ==
  ASSUME NominationInv, NEW p \in Processes, CommitNomination(p)
  PROVE  NominationInv'
<1>1. tx[p] \in Transaction /\ Grounded(tx[p]) /\ tx[p].at = "activating"
  BY DEF CommitNomination, NominationInv, Types, AllGrounded
<1>2. \A s \in Scopes : nomination'[s] =
        IF s \in tx[p].locked
        THEN [status |-> IF s \in tx[p].activated THEN "active" ELSE "pending",
              required |-> tx[p].courses]
        ELSE nomination[s]
  BY DEF CommitNomination
<1>3. nomination' \in [Scopes -> Nomination]
  <2>1. tx[p].courses \subseteq Courses  BY <1>1 DEF Transaction
  <2>2. \A s \in Scopes : nomination[s] \in Nomination  BY DEF NominationInv, Types
  <2>3. \A st \in {"active", "pending"} : [status |-> st, required |-> tx[p].courses] \in Nomination
    BY <2>1 DEF Nomination, Statuses
  <2>4. \A s \in Scopes : nomination'[s] \in Nomination  BY <1>2, <2>2, <2>3
  <2> QED  BY <2>4 DEF CommitNomination
<1>4. ASSUME NEW s \in tx[p].locked, s \in Scopes
      PROVE  /\ nomination'[s].status # "none" => Includes(s, nomination'[s].required)
             /\ nomination'[s].status = "active" => nomination'[s].required \subseteq ever
  <2> DEFINE st == IF s \in tx[p].activated THEN "active" ELSE "pending"
  <2>0. nomination'[s] = [status |-> st, required |-> tx[p].courses]  BY <1>2, <1>4
  <2>1. /\ nomination'[s].required = tx[p].courses /\ nomination'[s].status = st
        /\ st = "active" => s \in tx[p].activated
    <3> HIDE DEF st
    <3>1. nomination'[s].required = tx[p].courses /\ nomination'[s].status = st  BY <2>0
    <3>2. st = "active" => s \in tx[p].activated  BY DEF st
    <3> QED  BY <3>1, <3>2
  <2> HIDE DEF st
  <2>2. Includes(s, tx[p].courses) /\ (s \in tx[p].activated => tx[p].courses \subseteq ever)
    BY <1>1 DEF Grounded
  <2> QED  BY <2>1, <2>2
<1> QED  BY <1>2, <1>3, <1>4, Written DEF CommitNomination, NominationInv, Types

\* A nomination that a transaction has locked is not revoked under it.
LEMMA RevokeInv ==
  ASSUME NominationInv, NEW s \in Scopes, Revoke(s)
  PROVE  NominationInv'
<1> USE DEF NominationInv
<1>1. /\ nomination' \in [Scopes -> Nomination]
      /\ \A t \in Scopes \ {s} : nomination'[t] = nomination[t]
      /\ nomination'[s].status = "revoked" /\ nomination'[s].required = nomination[s].required
      /\ nomination[s].status # "none"
  BY DEF Revoke, Standing, Types, Nomination, Statuses
<1>2. Types' /\ Exclusive'  BY <1>1 DEF Revoke, Types, Exclusive
<1>3. EarnedOnce'  BY <1>1 DEF Revoke, EarnedOnce, Includes
<1>4. AllGrounded'
  <2> SUFFICES ASSUME NEW o \in Processes PROVE Grounded(tx[o])'  BY DEF AllGrounded
  <2>1. Grounded(tx[o]) /\ tx[o] \in Transaction  BY DEF AllGrounded, Types
  <2>2. \A t \in tx[o].locked : t \in Scopes /\ nomination'[t] = nomination[t]
    BY <1>1, <2>1 DEF Revoke, Free, Transaction
  <2> QED  BY <2>1, <2>2 DEF Revoke, Grounded, Includes
<1> QED  BY <1>2, <1>3, <1>4

LEMMA CompleteInv ==
  ASSUME NominationInv, NEW p \in Requests, NEW c \in Courses, Complete(p, c)
  PROVE  NominationInv'
<1> DEFINE affected == {s \in Scopes : Pending(s) /\ c \in nomination[s].required}
           some == {s \in affected : enabled /\ Earned(nomination[s].required, WithThis(s, c))}
           x == [at |-> "completing", locked |-> affected, courses |-> {c}, activated |-> some]
<1>1. p \in Processes  BY DEF Processes
<1>2. x \in Transaction  BY DEF Transaction
<1>3. Grounded(x)
  <2>1. \A s \in some : /\ s \in affected /\ nomination[s].status = "pending"
                        /\ nomination[s].required \subseteq ever \cup {c}
    BY DEF Pending, Earned, WithThis, NominationInv, Types
  <2> QED  BY <2>1 DEF Grounded
<1>4. \A o \in Processes : affected \cap tx[o].locked = {}  BY DEF Complete, Free
<1>5. Set(p, x)  BY DEF Complete
<1> HIDE DEF affected, some
<1> QED  BY <1>1, <1>2, <1>3, <1>4, <1>5, Advanced DEF Complete, NominationInv, Types

\* What is activated with this completion has been completed by now.
LEMMA CommitCompletionInv ==
  ASSUME NominationInv, NEW p \in Processes, CommitCompletion(p)
  PROVE  NominationInv'
<1>1. tx[p] \in Transaction /\ Grounded(tx[p]) /\ tx[p].at = "completing"
  BY DEF CommitCompletion, NominationInv, Types, AllGrounded
<1>2. tx[p].courses \subseteq Courses  BY <1>1 DEF Transaction
<1>3. nomination' \in [Scopes -> Nomination]
  BY DEF CommitCompletion, Activated, NominationInv, Types, Nomination, Statuses
<1>4. \A s \in Scopes :
        /\ s \notin tx[p].activated => nomination'[s] = nomination[s]
        /\ s \in tx[p].activated => /\ nomination'[s].required = nomination[s].required
                                    /\ nomination'[s].status = "active"
  BY DEF CommitCompletion, Activated, NominationInv, Types, Nomination
<1>5. \A s \in tx[p].locked : s \in Scopes =>
        /\ nomination'[s].status # "none" => Includes(s, nomination'[s].required)
        /\ nomination'[s].status = "active" => nomination'[s].required \subseteq ever'
  BY <1>1, <1>4 DEF CommitCompletion, Grounded, NominationInv, EarnedOnce, Includes
<1>6. \A s \in Scopes \ tx[p].locked : nomination'[s] = nomination[s]
  BY <1>1, <1>4 DEF Grounded
<1>7. ever \subseteq ever' /\ ever' \subseteq Courses /\ completed' \subseteq ever'
  BY <1>2 DEF CommitCompletion, NominationInv, Types
<1> QED  BY <1>3, <1>5, <1>6, <1>7, Written DEF CommitCompletion

LEMMA SweepInv ==
  ASSUME NominationInv, Sweep
  PROVE  NominationInv'
<1>1. PICK some \in SUBSET {s \in Scopes : Candidate(s) /\ Free(s)} :
        Set(Sweeper, [Idle EXCEPT !.at = "sweeping", !.locked = some,
                                  !.activated = {s \in some : Eligible(s)}])
  BY DEF Sweep
<1> DEFINE those == {s \in some : Eligible(s)}
           x == [Idle EXCEPT !.at = "sweeping", !.locked = some, !.activated = those]
<1>2. Sweeper \in Processes  BY DEF Processes
<1>3. /\ x \in Transaction /\ x.at = "sweeping" /\ x.locked = some /\ x.activated = those
  BY IdleTyped DEF Idle, Transaction
<1>4. \A s \in those : /\ s \in some /\ nomination[s].status = "pending"
                       /\ nomination[s].required \subseteq ever
  BY DEF Eligible, Pending, Earned, NominationInv, Types
<1>5. Set(Sweeper, x)  BY <1>1
<1> HIDE DEF x, those
<1>6. Grounded(x)  BY <1>3, <1>4 DEF Grounded
<1>7. \A o \in Processes : x.locked \cap tx[o].locked = {}  BY <1>3 DEF Free
<1> QED  BY <1>2, <1>3, <1>5, <1>6, <1>7, Advanced DEF Sweep, NominationInv, Types

LEMMA CommitSweepInv ==
  ASSUME NominationInv, CommitSweep
  PROVE  NominationInv'
<1>1. Sweeper \in Processes  BY DEF Processes
<1>2. Grounded(tx[Sweeper]) /\ tx[Sweeper].at = "sweeping"
  BY <1>1 DEF CommitSweep, NominationInv, AllGrounded
<1>3. nomination' \in [Scopes -> Nomination]
  BY DEF CommitSweep, Activated, NominationInv, Types, Nomination, Statuses
<1>4. \A s \in Scopes :
        /\ s \notin tx[Sweeper].activated => nomination'[s] = nomination[s]
        /\ s \in tx[Sweeper].activated => /\ nomination'[s].required = nomination[s].required
                                          /\ nomination'[s].status = "active"
  BY DEF CommitSweep, Activated, NominationInv, Types, Nomination
<1>5. \A s \in tx[Sweeper].locked : s \in Scopes =>
        /\ nomination'[s].status # "none" => Includes(s, nomination'[s].required)
        /\ nomination'[s].status = "active" => nomination'[s].required \subseteq ever'
  BY <1>2, <1>4 DEF CommitSweep, Grounded, NominationInv, EarnedOnce, Includes
<1>6. \A s \in Scopes \ tx[Sweeper].locked : nomination'[s] = nomination[s]
  BY <1>2, <1>4 DEF Grounded
<1> QED  BY <1>1, <1>3, <1>5, <1>6, Written DEF CommitSweep, NominationInv, Types

LEMMA AbortInv ==
  ASSUME NominationInv, NEW p \in Processes, Abort(p)
  PROVE  NominationInv'
<1>1. aborts' \in 0 .. MaxAborts  BY DEF Abort, NominationInv, Types
<1> QED  BY <1>1, IdleTyped, IdleGrounded, Advanced DEF Abort, NominationInv, Types

LEMMA NominationNext ==
  ASSUME NominationInv, [Next]_vars
  PROVE  NominationInv'
<1>1. CASE UNCHANGED vars  BY <1>1, Around DEF vars, NominationInv, Types
<1>2. ASSUME NEW p \in Requests, NEW s \in Scopes, Ask(p, s) PROVE NominationInv'
  BY <1>2, AskInv
<1>3. ASSUME NEW p \in Requests, NEW c \in Courses, Complete(p, c) PROVE NominationInv'
  BY <1>3, CompleteInv
<1>4. ASSUME NEW p \in Requests, Finish(p) PROVE NominationInv'
  <2>1. p \in Processes  BY DEF Processes
  <2> QED  BY <1>4, <2>1, NominateInv, ActivateNomineeInv, CommitNominationInv,
              CommitCompletionInv DEF Finish
<1>5. ASSUME NEW p \in Processes, Abort(p) PROVE NominationInv'  BY <1>5, AbortInv
<1>6. ASSUME NEW s \in Scopes, Revoke(s) PROVE NominationInv'  BY <1>6, RevokeInv
<1>7. ASSUME NEW c \in Courses, Withdraw(c) \/ Offer(c) PROVE NominationInv'
  BY <1>7, Around DEF Withdraw, Offer, NominationInv, Types
<1>8. CASE SetStatus  BY <1>8, Around DEF SetStatus, NominationInv, Types
<1>9. CASE Sweep \/ CommitSweep  BY <1>9, SweepInv, CommitSweepInv
<1> QED  BY <1>1, <1>2, <1>3, <1>4, <1>5, <1>6, <1>7, <1>8, <1>9 DEF Next

LEMMA NominationKept ==
  ASSUME NominationInv
  PROVE  TypeOK /\ TaughtIsEarned
<1>1. TypeOK  BY DEF NominationInv, Types, Exclusive, TypeOK
<1>2. TaughtIsEarned
  <2> SUFFICES ASSUME NEW c \in Teaches PROVE c \in ever  BY DEF TaughtIsEarned
  <2>1. PICK s \in Scopes : nomination[s].status = "active" /\ c \in Covers(s)
    BY DEF Teaches
  <2>2. Includes(s, nomination[s].required) /\ nomination[s].required \subseteq ever
    BY <2>1 DEF NominationInv, EarnedOnce
  <2> QED  BY <2>1, <2>2 DEF Covers, Includes, Scopes
<1> QED  BY <1>1, <1>2

\* The inductive invariant of the facilitators.
THEOREM NominationInvariance == Spec => []NominationInv
  BY NominationInit, NominationNext, PTL DEF Spec

\* Nominations keep their types and have one transaction each (nominate, the
\* activation capability).
THEOREM FacilitatorsTypeCorrect == Spec => []TypeOK
  BY NominationInvariance, NominationKept, PTL

\* Nobody teaches a course he had not completed, whatever was added, nominated
\* anew, withdrawn or aborted since (facilitator_access).
THEOREM TaughtIsAlwaysEarned == Spec => []TaughtIsEarned
  BY NominationInvariance, NominationKept, PTL

-----------------------------------------------------------------------------
(* The success queue: lemmas.                                              *)

LEMMA RestingTyped ==
  /\ Resting \in SweepStates /\ Resting.at = "resting" /\ Resting.row = None
  /\ Resting.to = "same"
  BY DEF Resting, SweepStates

\* One sweep moves on: it holds a row that no other holds, and opens an entry
\* only where the index has none.
LEMMA Swept ==
  ASSUME QueueInv, NEW p \in Sweepers, NEW x \in SweepStates,
         sweep' = [sweep EXCEPT ![p] = x],
         x.at # "wrote" => x.row = None /\ x.to = "same",
         x.row = None \/ \A o \in Sweepers \ {p} : sweep[o].row # x.row,
         x.to = "open" => Indexed = {},
         UNCHANGED <<holds, enrolled, status, desk>>, crashes' \in 0 .. MaxCrashes
  PROVE  QueueInv'
<1> USE DEF QueueInv
<1>1. /\ sweep' \in [Sweepers -> SweepStates] /\ sweep'[p] = x
      /\ \A o \in Sweepers \ {p} : sweep'[o] = sweep[o]
  BY DEF QueueTypes
<1>2. QueueTypes'  BY <1>1 DEF QueueTypes
<1>3. RowsLocked'  BY <1>1 DEF RowsLocked
<1>4. OneIndexed'
  <2>1. ASSUME NEW e \in Indexed' PROVE e \in Indexed \/ (x.to = "open" /\ e = x.row)
    <3>1. e \in Rows  BY DEF Indexed
    <3>2. CASE status'[e] = "open"  BY <3>1, <3>2 DEF Indexed
    <3>3. ASSUME NEW o \in Sweepers, sweep'[o].row = e, sweep'[o].to = "open"
          PROVE  e \in Indexed \/ (x.to = "open" /\ e = x.row)
      BY <1>1, <3>1, <3>3 DEF Indexed
    <3> QED  BY <3>2, <3>3 DEF Indexed
  <2> QED  BY <2>1 DEF OneIndexed
<1> QED  BY <1>2, <1>3, <1>4

LEMMA QueueStart == QueueInit => QueueInv
<1> SUFFICES ASSUME QueueInit PROVE QueueInv  OBVIOUS
<1>1. QueueTypes
  <2>1. AtEase \in Reading  BY DEF Reading
  <2> QED  BY <2>1, RestingTyped DEF QueueInit, QueueTypes, EntryStatuses
<1>2. RowsLocked  BY RestingTyped DEF QueueInit, RowsLocked
<1>3. OneIndexed  BY RestingTyped DEF QueueInit, OneIndexed, Indexed
<1> QED  BY <1>1, <1>2, <1>3 DEF QueueInv

-----------------------------------------------------------------------------
(* The success queue: the actions.                                         *)

LEMMA StartInv ==
  ASSUME QueueInv, NEW p \in Sweepers, Start(p)
  PROVE  QueueInv'
<1> DEFINE x == [sweep[p] EXCEPT !.at = "listed"]
<1>1. /\ x \in SweepStates /\ x.at = "listed" /\ x.row = None /\ x.to = "same"
  BY RestingTyped DEF Start, SweepStates
<1>2. sweep' = [sweep EXCEPT ![p] = x]  BY DEF Start
<1> HIDE DEF x
<1> QED  BY <1>1, <1>2, Swept DEF Start, QueueInv, QueueTypes

LEMMA EvaluateInv ==
  ASSUME QueueInv, NEW p \in Sweepers, Evaluate(p)
  PROVE  QueueInv'
<1>1. PICK e \in IF Found = {} THEN {None} ELSE Found :
        sweep' = [sweep EXCEPT ![p].at = "looked", ![p].fires = holds, ![p].found = e]
  BY DEF Evaluate
<1>2. e \in Rows \cup {None}  BY <1>1 DEF Found
<1>3. /\ sweep[p] \in SweepStates /\ sweep[p].row = None /\ sweep[p].to = "same"
      /\ holds \in BOOLEAN
  BY DEF Evaluate, QueueInv, QueueTypes, RowsLocked
<1> DEFINE x == [sweep[p] EXCEPT !.at = "looked", !.fires = holds, !.found = e]
<1>4. /\ x \in SweepStates /\ x.at = "looked" /\ x.row = None /\ x.to = "same"
  BY <1>2, <1>3 DEF SweepStates
<1>5. sweep' = [sweep EXCEPT ![p] = x]
  BY <1>1, <1>3 DEF QueueInv, QueueTypes, SweepStates
<1> HIDE DEF x
<1> QED  BY <1>4, <1>5, Swept DEF Evaluate, QueueInv, QueueTypes

\* What a sweep writes is a row that nobody holds, or none.
LEMMA WroteInv ==
  ASSUME QueueInv, NEW p \in Sweepers, NEW e \in Rows \cup {None},
         NEW to \in {"same", "open", "resolved"}, Wrote(p, e, to),
         e = None \/ Unlocked(e), to = "open" => Indexed = {},
         UNCHANGED <<holds, enrolled, status, desk, crashes>>
  PROVE  QueueInv'
<1> DEFINE x == [Resting EXCEPT !.at = "wrote", !.row = e, !.to = to]
<1>1. x \in SweepStates /\ x.at = "wrote" /\ x.row = e /\ x.to = to
  BY DEF Resting, SweepStates
<1>2. sweep' = [sweep EXCEPT ![p] = x]  BY DEF Wrote
<1> HIDE DEF x
<1>3. x.row = None \/ \A o \in Sweepers \ {p} : sweep[o].row # x.row  BY <1>1 DEF Unlocked
<1> QED  BY <1>1, <1>2, <1>3, Swept DEF QueueInv, QueueTypes

LEMMA UpdateInv ==
  ASSUME QueueInv, NEW p \in Sweepers, Refresh(p) \/ Resolve(p) \/ LeaveAlone(p)
  PROVE  QueueInv'
<1>1. sweep[p].found \in Rows \cup {None}  BY DEF QueueInv, QueueTypes, SweepStates
<1>2. CASE Refresh(p)  BY <1>1, <1>2, WroteInv DEF Refresh, MayUpdate
<1>3. CASE Resolve(p)  BY <1>1, <1>3, WroteInv DEF Resolve, MayUpdate
<1>4. CASE LeaveAlone(p)  BY <1>4, WroteInv DEF LeaveAlone
<1> QED  BY <1>2, <1>3, <1>4

\* The index has no row when an entry is inserted, whatever the sweep had found.
LEMMA OpenEntryInv ==
  ASSUME QueueInv, NEW p \in Sweepers, OpenEntry(p)
  PROVE  QueueInv'
<1> DEFINE e == CHOOSE e \in Spare : TRUE
<1>1. e \in Spare /\ Wrote(p, e, "open") /\ Indexed = {}  BY DEF OpenEntry
<1> HIDE DEF e
<1>2. e \in Rows /\ Unlocked(e)  BY <1>1 DEF Spare
<1> QED  BY <1>1, <1>2, WroteInv DEF OpenEntry

LEMMA RestInv ==
  ASSUME QueueInv, NEW p \in Sweepers, Collide(p) \/ Crash(p)
  PROVE  QueueInv'
<1>1. /\ sweep' = [sweep EXCEPT ![p] = Resting] /\ crashes' \in 0 .. MaxCrashes
      /\ UNCHANGED <<holds, enrolled, status, desk>>
  BY DEF Collide, Crash, QueueInv, QueueTypes
<1> QED  BY <1>1, RestingTyped, Swept

\* An entry that is opened by a commit was in the index before.
LEMMA CommitInv ==
  ASSUME QueueInv, NEW p \in Sweepers, Commit(p)
  PROVE  QueueInv'
<1> USE DEF QueueInv
<1>1. /\ sweep' \in [Sweepers -> SweepStates] /\ sweep'[p] = Resting
      /\ \A o \in Sweepers \ {p} : sweep'[o] = sweep[o]
  BY RestingTyped DEF Commit, QueueTypes
<1>2. \A e \in Rows : status'[e] = IF e = sweep[p].row /\ sweep[p].to # "same"
                                   THEN sweep[p].to ELSE status[e]
  BY DEF Commit
<1>3. QueueTypes'
  <2>1. sweep[p].to \in {"same", "open", "resolved"}  BY DEF QueueTypes, SweepStates
  <2>2. status' \in [Rows -> EntryStatuses]
    BY <2>1 DEF Commit, QueueTypes, EntryStatuses
  <2> QED  BY <1>1, <2>2 DEF Commit, QueueTypes
<1>4. RowsLocked'  BY <1>1, RestingTyped DEF RowsLocked
<1>5. OneIndexed'
  <2>1. ASSUME NEW e \in Indexed' PROVE e \in Indexed
    <3>1. e \in Rows  BY DEF Indexed
    <3>2. CASE status'[e] = "open"  BY <1>2, <3>1, <3>2 DEF Indexed
    <3>3. ASSUME NEW o \in Sweepers, sweep'[o].row = e, sweep'[o].to = "open"
          PROVE  e \in Indexed
      BY <1>1, <3>1, <3>3, RestingTyped DEF Indexed
    <3> QED  BY <3>2, <3>3 DEF Indexed
  <2> QED  BY <2>1 DEF OneIndexed
<1> QED  BY <1>3, <1>4, <1>5

\* Nothing that staff write opens an entry.
LEMMA StaffInv ==
  ASSUME QueueInv, NEW s \in Staff, Read(s) \/ Transition(s)
  PROVE  QueueInv'
<1> USE DEF QueueInv
<1>1. CASE Read(s)
  <2>1. desk' \in [Staff -> Reading]  BY <1>1 DEF Read, QueueTypes, Reading
  <2> QED  BY <1>1, <2>1 DEF Read, QueueTypes, RowsLocked, OneIndexed, Indexed
<1>2. CASE Transition(s)
  <2>1. desk[s].row \in Rows /\ desk[s].to \in {"acknowledged", "resolved"}
    BY <1>2 DEF Transition, QueueTypes, Reading
  <2>2. /\ status' \in [Rows -> EntryStatuses]
        /\ \A e \in Rows : status'[e] = "open" => status[e] = "open"
    BY <1>2, <2>1 DEF Transition, QueueTypes, EntryStatuses
  <2>3. desk' \in [Staff -> Reading]  BY <1>2 DEF Transition, QueueTypes, Reading
  <2>4. Indexed' \subseteq Indexed  BY <1>2, <2>2 DEF Transition, Indexed
  <2> QED  BY <1>2, <2>2, <2>3, <2>4 DEF Transition, QueueTypes, RowsLocked, OneIndexed
<1> QED  BY <1>1, <1>2

LEMMA QueueStep ==
  ASSUME QueueInv, [QueueNext]_queueVars
  PROVE  QueueInv'
<1>1. CASE UNCHANGED queueVars
  BY <1>1 DEF queueVars, QueueInv, QueueTypes, RowsLocked, OneIndexed, Indexed
<1>2. ASSUME NEW p \in Sweepers, Start(p) \/ Proceed(p) \/ Crash(p) PROVE QueueInv'
  BY <1>2, StartInv, EvaluateInv, UpdateInv, OpenEntryInv, RestInv, CommitInv DEF Proceed
<1>3. ASSUME NEW s \in Staff, Read(s) \/ Transition(s) PROVE QueueInv'
  BY <1>3, StaffInv
<1>4. CASE Change \/ Enrol
  BY <1>4 DEF Change, Enrol, QueueInv, QueueTypes, RowsLocked, OneIndexed, Indexed
<1> QED  BY <1>1, <1>2, <1>3, <1>4 DEF QueueNext

\* The open entries are in the index, and it has one row at most.
LEMMA QueueKept ==
  ASSUME QueueInv
  PROVE  QueueTypeOK
<1> DEFINE opened == {e \in Rows : status[e] = "open"}
<1>1. \A e, f \in opened : e = f  BY DEF QueueInv, OneIndexed, Indexed
<1>2. opened = {} \/ \E e \in opened : opened = {e}  BY <1>1
<1> HIDE DEF opened
<1>3. CASE opened = {}
  <2>1. Cardinality(opened) = 0  BY <1>3, FS_EmptySet
  <2> QED  BY <2>1 DEF opened, QueueInv, QueueTypes, RowsLocked, QueueTypeOK
<1>4. ASSUME NEW e \in opened, opened = {e} PROVE QueueTypeOK
  <2>1. Cardinality(opened) = 1  BY <1>4, FS_Singleton
  <2> QED  BY <2>1 DEF opened, QueueInv, QueueTypes, RowsLocked, QueueTypeOK
<1> QED  BY <1>2, <1>3, <1>4

\* The inductive invariant of the success queue.
THEOREM QueueInvariance == QueueSpec => []QueueInv
  BY QueueStart, QueueStep, PTL DEF QueueSpec

\* A learner has at most one open entry and a row one sweep, whatever sweeps
\* and staff do at the same time (the unique index, SuccessQueueEntry).
THEOREM QueueTypeCorrect == QueueSpec => []QueueTypeOK
  BY QueueInvariance, QueueKept, PTL

-----------------------------------------------------------------------------
(* The two components side by side, as the runs have them.                 *)

LEMMA OneStep ==
  ASSUME NominationInv /\ QueueInv, [OneNext]_<<vars, queueVars, part>>
  PROVE  (NominationInv /\ QueueInv)'
<1>1. [Next]_vars /\ [QueueNext]_queueVars  BY DEF OneNext
<1> QED  BY <1>1, NominationNext, QueueStep

\* Both invariants together: a step of the composition is a step of each component
\* or leaves it alone.
THEOREM OneInvariance == OneSpec => [](NominationInv /\ QueueInv)
<1>1. OneInit => NominationInv /\ QueueInv  BY NominationInit, QueueStart DEF OneInit
<1> QED  BY <1>1, OneStep, PTL DEF OneSpec

\* Both components keep their types, one transaction per nomination and one open
\* entry per learner among them.
THEOREM SweepsTypeCorrect == OneSpec => []SweepsTypeOK
<1>1. NominationInv /\ QueueInv => SweepsTypeOK
  BY NominationKept, QueueKept DEF SweepsTypeOK
<1> QED  BY <1>1, OneInvariance, PTL

\* Nobody teaches a course he had not completed, in the composed system too.
THEOREM TaughtIsEarnedSweeping == OneSpec => []TaughtIsEarned
<1>1. NominationInv /\ QueueInv => TaughtIsEarned  BY NominationKept
<1> QED  BY <1>1, OneInvariance, PTL

-----------------------------------------------------------------------------
(* An external command: the inductive invariant.                           *)

Ended(m) == group[m] \in {"absent", "zombie", "wedged"}
Gone(m) == group[m] \in {"absent", "zombie"}

\* Signals are deferred where a group may be without an owner; no member is deaf;
\* before a group starts, after it was collected and after it was killed none
\* is left that could run.
CallInv ==
  /\ CallTypeOK
  /\ at \in {"forking", "entering", "grace", "reap", "lifting"} <=> blocked # {}
  /\ \A m \in Members : group[m] # "deaf"
  /\ at \in {"forking", "returning"} => \A m \in Members : Gone(m)
  /\ at \in {"reap", "lifting"} => \A m \in Members : Ended(m)
  /\ CallTornDown

-----------------------------------------------------------------------------
(* Console use: the inductive invariant.                                   *)

UseTypes ==
  /\ now \in 0 .. MaxTime /\ attempted \in [WebProcesses -> Never .. now]
  /\ issued \subseteq WebProcesses
  /\ lastSeen \in Never .. used /\ deployed \in 0 .. now /\ used \in Never .. now
  /\ reaped \in BOOLEAN /\ failures \in 0 .. MaxFailures

\* A write on its way is of this tick, and so is the use it records.
InTick == \A p \in issued : attempted[p] = now /\ used = now

\* The record lags behind what a process has attempted by an interval at most,
\* and behind the use by two, once the writes have ended.
Recorded ==
  failures = 0 =>
    /\ \A p \in WebProcesses \ issued :
         attempted[p] # Never => lastSeen # Never /\ lastSeen >= attempted[p] - Interval
    /\ used # Never =>
         \/ issued # {}
         \/ lastSeen # Never /\ lastSeen >= used - 2 * Interval

UseInv == UseTypes /\ InTick /\ Recorded /\ ReapedWasIdle

-----------------------------------------------------------------------------
(* Consoles: the inductive invariant.                                      *)

ConsoleTypes ==
  /\ lab \in [Labs -> LabRows] /\ intent \in [Labs -> IntentKinds]
  /\ running \subseteq Labs /\ ttys \in [Labs -> SUBSET Ports] /\ dying \subseteq Ports
  /\ worker \in WorkerStates /\ sweeper \in SweeperStates
  /\ missed \subseteq Labs /\ left \in [ConsoleFaults -> Nat]

PortsApart == \A l, m \in Labs : l # m => ttys[l] \cap ttys[m] = {}

\* One console, unless an operation could not see the one it was to stop.
OneAlive == \A l \in Labs \ missed : \A p, q \in Alive(l) : p = q

\* A lab the worker has still to look at has the consoles it saw, or fewer.
SeenInTime == worker.at = "recover" => \A l \in worker.todo : ttys[l] \subseteq worker.seen[l]

\* Before a console is started the others have been told to end.
Emptied == worker.at = "start" => \A l \in worker.on : l \in missed \/ Alive(l) = {}

\* The lab an operation is executed on is known to be uncertain.
InHand ==
  worker.at \in {"engine", "stop", "start", "settle"} =>
    \E l \in Labs : worker.on = {l} /\ intent[l] # "none" /\ lab[l].presence = "unknown"

\* A destroy that goes on has removed the lab, and starts no console.
Removed ==
  /\ worker.at \in {"stop", "settle"} /\ worker.ok =>
       \A l \in worker.on : intent[l] = "destroy" => l \notin running
  /\ worker.at = "start" => \A l \in worker.on : intent[l] # "destroy"

\* The row of a lab that runs says that it may.
RunningKept == \A l \in running : Kept(l)

\* A lab stays calm only without an operation, and the sweep is to kill none of
\* its consoles if it runs.
CalmSpared ==
  /\ \A l \in sweeper.calm : intent[l] = "none"
  /\ sweeper.at = "read" => \A l \in sweeper.calm \cap running : sweeper.seen[l] = {}

ConsolesInv ==
  /\ ConsoleTypes /\ PortsApart /\ OneAlive /\ SeenInTime /\ Emptied /\ InHand /\ Removed
  /\ RunningKept /\ CalmSpared

USE CallTimesAssumption, UseTimesAssumption, PortAssumption, HazardAssumption

-----------------------------------------------------------------------------
(* An external command: the actions.                                       *)

LEMMA CallStart == CallInit => CallInv
<1> SUFFICES ASSUME CallInit PROVE CallInv  OBVIOUS
<1>1. at = "up" /\ blocked = {} /\ \A m \in Members : group[m] = "absent"  BY DEF CallInit
<1>2. group \in [Members -> MemberStates]  BY DEF CallInit, MemberStates
<1>3. cut \in BOOLEAN  BY DEF CallInit
<1>4. /\ at \in Points /\ pending \subseteq Deferred /\ elapsed \in Nat
      /\ signals \in 0 .. MaxSignals /\ cause = "none"
  BY DEF CallInit, Points
<1>5. CallTypeOK  BY <1>1, <1>2, <1>3, <1>4 DEF CallTypeOK
<1> QED  BY <1>1, <1>5 DEF CallInv, CallTornDown

LEMMA CallCallInv ==
  ASSUME CallInv, Call
  PROVE  CallInv'
<1>1. CallTypeOK'  BY DEF CallInv, Call, CallTypeOK, Points
<1> QED  BY <1>1 DEF CallInv, Call, CallTornDown, Gone, Ended, Deferred, Members

\* The child starts with no signal deferred.
LEMMA ForkInv ==
  ASSUME CallInv, Fork
  PROVE  CallInv'
<1>1. /\ group' \in [Members -> MemberStates] /\ \A m \in Members : group'[m] # "deaf"
  BY DEF CallInv, Fork, CallTypeOK, ChildMask, MemberStates, Members
<1>2. CallTypeOK'  BY <1>1 DEF CallInv, Fork, CallTypeOK, Points
<1> QED  BY <1>1, <1>2 DEF CallInv, Fork, CallTornDown

LEMMA BeginInv ==
  ASSUME CallInv, ForkFails \/ Enter \/ Expire \/ Return
  PROVE  CallInv'
<1>1. CASE ForkFails
  BY <1>1 DEF CallInv, ForkFails, MaskAfterFailure, CallTypeOK, CallTornDown, Points, Gone, Ended
<1>2. CASE Enter
  <2>1. First \in Deferred  BY DEF First, Deferred
  <2>2. CallTypeOK'  BY <1>2, <2>1 DEF CallInv, Enter, CallTypeOK, Points
  <2> QED  BY <1>2, <2>2 DEF CallInv, Enter, CallTornDown
<1>3. CASE Expire  BY <1>3 DEF CallInv, Expire, CallTypeOK, CallTornDown, Points
<1>4. CASE Return
  BY <1>4 DEF CallInv, Return, CallTypeOK, CallTornDown, Points, Gone
<1> QED  BY <1>1, <1>2, <1>3, <1>4

LEMMA CollectInv ==
  ASSUME CallInv, Collect
  PROVE  CallInv'
<1>1. group' \in [Members -> MemberStates] /\ \A m \in Members : group'[m] = "absent"
  BY DEF CallInv, Collect, CallTypeOK, MemberStates, Members
<1>2. CallTypeOK'  BY <1>1 DEF CallInv, Collect, CallTypeOK, Points
<1> QED  BY <1>1, <1>2 DEF CallInv, Collect, CallTornDown, Gone

\* The request is heard: nobody is deaf, and whoever ran is leaving.
LEMMA AskToEndInv ==
  ASSUME CallInv, AskToEnd
  PROVE  CallInv'
<1>1. /\ group' \in [Members -> MemberStates]
      /\ \A m \in Members : group'[m] \notin {"running", "deaf"}
      /\ ~GroupAlive => \A m \in Members : group'[m] = "absent"
  BY DEF CallInv, AskToEnd, CallTypeOK, MemberStates, GroupAlive
<1>2. CallTypeOK'  BY <1>1 DEF CallInv, AskToEnd, CallTypeOK, Points
<1>3. at' \in {"grace", "reap"} /\ blocked' # {}  BY DEF AskToEnd, Deferred
<1>4. at' = "reap" => \A m \in Members : Ended(m)'  BY <1>1, <1>3 DEF AskToEnd, Ended
<1> QED  BY <1>1, <1>2, <1>3, <1>4 DEF CallInv, CallTornDown

LEMMA RaiseAgainInv ==
  ASSUME CallInv, RaiseAgain
  PROVE  CallInv'
  BY DEF CallInv, RaiseAgain, CallTypeOK, CallTornDown, Points

LEMMA PollInv ==
  ASSUME CallInv, Poll
  PROVE  CallInv'
<1>1. CASE /\ ~GroupAlive /\ at' = "reap" /\ elapsed' = 0 /\ UNCHANGED group
  BY <1>1 DEF CallInv, Poll, CallTypeOK, CallTornDown, Points, GroupAlive, Ended
<1>2. CASE /\ group' = [group EXCEPT !["leader"] = "absent"]
           /\ UNCHANGED <<at, elapsed>>
  <2>1. /\ group' \in [Members -> MemberStates]
        /\ \A m \in Members : group'[m] \in {"absent", group[m]}
    BY <1>2 DEF CallInv, CallTypeOK, MemberStates
  <2>2. CallTypeOK'  BY <1>2, <2>1 DEF CallInv, Poll, CallTypeOK
  <2> QED  BY <1>2, <2>1, <2>2 DEF CallInv, Poll, CallTornDown
<1> QED  BY <1>1, <1>2 DEF Poll

\* After the kill only who is stuck in the kernel is left.
LEMMA KillInv ==
  ASSUME CallInv, Kill
  PROVE  CallInv'
<1>1. PICK stuck \in SUBSET Members :
        group' = [m \in Members |->
                   CASE group[m] \in {"absent", "zombie"} -> group[m]
                     [] group[m] \notin {"absent", "zombie"} /\ m \in stuck -> "wedged"
                     [] OTHER -> Exited(m)]
  BY DEF Kill
<1>2. \A m \in Members : Exited(m) \in {"absent", "zombie"}  BY DEF Exited
<1>3. \A m \in Members : group'[m] \in {"absent", "zombie", "wedged"}
  <2> SUFFICES ASSUME NEW m \in Members PROVE group'[m] \in {"absent", "zombie", "wedged"}
    OBVIOUS
  <2>1. CASE group[m] \in {"absent", "zombie"}
    <3>1. group'[m] = group[m]  BY <1>1, <2>1
    <3> QED  BY <2>1, <3>1
  <2>2. CASE group[m] \notin {"absent", "zombie"} /\ m \in stuck
    <3>1. group'[m] = "wedged"  BY <1>1, <2>2
    <3> QED  BY <3>1
  <2>3. CASE group[m] \notin {"absent", "zombie"} /\ m \notin stuck
    <3>1. group'[m] = Exited(m)  BY <1>1, <2>3
    <3> QED  BY <1>2, <3>1
  <2> QED  BY <2>1, <2>2, <2>3
<1>4. group' \in [Members -> MemberStates]
  <2>1. \A m \in Members : group'[m] \in MemberStates  BY <1>3 DEF MemberStates
  <2> QED  BY <1>1, <2>1
<1>5. CallTypeOK'  BY <1>4 DEF CallInv, Kill, CallTypeOK, Points
<1>6. at' = "reap" /\ blocked' = blocked /\ blocked # {}  BY DEF CallInv, Kill
<1>7. \A m \in Members : group'[m] # "deaf"  BY <1>3
<1> QED  BY <1>3, <1>5, <1>6, <1>7 DEF CallInv, CallTornDown, Ended

LEMMA ReapInv ==
  ASSUME CallInv, Reap
  PROVE  CallInv'
<1>1. /\ group' \in [Members -> MemberStates]
      /\ \A m \in Members : group'[m] \in {"absent", group[m]}
  BY DEF CallInv, Reap, CallTypeOK, MemberStates
<1>2. at' \in {"reap", "lifting"} /\ at = "reap"  BY DEF Reap
<1>3. CallTypeOK'  BY <1>1, <1>2 DEF CallInv, Reap, CallTypeOK, Points
<1> QED  BY <1>1, <1>2, <1>3 DEF CallInv, Reap, CallTornDown, Ended

LEMMA LiftInv ==
  ASSUME CallInv, Lift
  PROVE  CallInv'
<1>1. at' \in {"up", "down"} /\ at = "lifting" /\ blocked' = {} /\ group' = group
  BY DEF Lift
<1>2. CallTypeOK'  BY <1>1 DEF CallInv, Lift, CallTypeOK, Points, Deferred
<1> QED  BY <1>1, <1>2 DEF CallInv, CallTornDown, Ended

\* A signal that is raised in a call is raised inside the try, or while the
\* cleanup begins, and that is the exception.
LEMMA SignalInv ==
  ASSUME CallInv, NEW s \in Deferred, Signal(s)
  PROVE  CallInv'
<1>1. CASE s \in blocked
  BY <1>1 DEF CallInv, Signal, CallTypeOK, CallTornDown, Ended, Gone
<1>2. CASE s \notin blocked
  <2>1. blocked = {}  BY <1>2 DEF CallInv, CallTypeOK
  <2>2. at \in {"up", "waiting", "returning", "raised"}
    BY <2>1 DEF CallInv, CallTypeOK, Points, Signal
  <2>3. /\ at' = IF at \in {"waiting", "returning"} THEN "raised" ELSE "down"
        /\ cause' = s /\ cut' = (cut \/ at = "raised")
        /\ UNCHANGED <<group, blocked, elapsed, pending>> /\ signals' \in 0 .. MaxSignals
    BY <1>2 DEF Signal, CallInv, CallTypeOK
  <2>4. CallTypeOK'
    <3>1. cut' \in BOOLEAN  BY <2>3 DEF CallInv, CallTypeOK
    <3>2. at' \in {"raised", "down"}  BY <2>3
    <3> QED  BY <2>1, <2>3, <3>1, <3>2 DEF CallInv, CallTypeOK, Points
  <2>5. CallTornDown'
    <3>1. CASE at = "up"  BY <2>3, <3>1 DEF CallInv, CallTornDown
    <3>2. CASE at # "up"  BY <2>2, <2>3, <3>2 DEF CallTornDown
    <3> QED  BY <3>1, <3>2
  <2> QED  BY <2>1, <2>2, <2>3, <2>4, <2>5 DEF CallInv
<1> QED  BY <1>1, <1>2

\* Members start others only while they run, and end at any time.
LEMMA GroupInv ==
  ASSUME CallInv, Spawn \/ \E m \in Members : Leave(m)
  PROVE  CallInv'
<1>1. /\ group' \in [Members -> MemberStates]
      /\ \A m \in Members : group'[m] \in {"absent", "zombie", group[m], group["leader"]}
      /\ (\E m \in Members : group'[m] \notin {"absent", "zombie", group[m]}) =>
           group["leader"] = "running"
  <2>1. CASE Spawn
    BY <2>1 DEF CallInv, Spawn, CallTypeOK, MemberStates, Members
  <2>2. ASSUME NEW m \in Members, Leave(m)
        PROVE  /\ group' \in [Members -> MemberStates]
               /\ \A n \in Members : group'[n] \in {"absent", "zombie", group[n]}
    <3>1. Exited(m) \in {"absent", "zombie"}  BY DEF Exited
    <3> QED  BY <2>2, <3>1 DEF CallInv, Leave, CallTypeOK, MemberStates
  <2> QED  BY <2>1, <2>2
<1>2. UNCHANGED <<at, blocked, pending, cause, elapsed, cut, signals>>  BY DEF Spawn, Leave
<1>3. CallTypeOK'  BY <1>1, <1>2 DEF CallInv, CallTypeOK
<1>4. \A m \in Members : group'[m] # "deaf"  BY <1>1 DEF CallInv, Members
<1>5. at \in {"forking", "returning"} => \A m \in Members : Gone(m)'
  BY <1>1 DEF CallInv, Gone, Members
<1>6. at \in {"reap", "lifting"} => \A m \in Members : Ended(m)'
  BY <1>1 DEF CallInv, Ended, Members
<1>7. CallTornDown'  BY <1>1, <1>2 DEF CallInv, CallTornDown, Members
<1> QED  BY <1>2, <1>3, <1>4, <1>5, <1>6, <1>7 DEF CallInv, Gone, Ended

LEMMA CallTickInv ==
  ASSUME CallInv, CallTick
  PROVE  CallInv'
<1>1. CallTypeOK'  BY DEF CallInv, CallTick, CallTypeOK
<1> QED  BY <1>1 DEF CallInv, CallTick, CallTornDown, Gone, Ended

LEMMA CallStep ==
  ASSUME CallInv, [CallNext]_callVars
  PROVE  CallInv'
<1>1. CASE UNCHANGED callVars
  BY <1>1 DEF callVars, CallInv, CallTypeOK, CallTornDown, Gone, Ended
<1>2. CASE Work
  BY <1>2, ForkInv, BeginInv, CollectInv, AskToEndInv, RaiseAgainInv, PollInv, KillInv, ReapInv,
     LiftInv DEF Work
<1>3. CASE CallNext  BY <1>2, <1>3, CallCallInv, CallTickInv, GroupInv, SignalInv DEF CallNext
<1> QED  BY <1>1, <1>3

\* The inductive invariant of a call.
THEOREM CallInvariance == CallSpec => []CallInv
  BY CallStart, CallStep, PTL DEF CallSpec

\* Outside a call no signal is deferred, and the points of the call are those of
\* the code (_run_contained).
THEOREM CallTypeCorrect == CallSpec => []CallTypeOK
<1>1. CallInv => CallTypeOK  BY DEF CallInv
<1> QED  BY <1>1, CallInvariance, PTL

\* When the worker goes on or stops nothing of a group runs but what cannot be
\* killed, for every timeout, grace period and number of signals, unless a signal
\* came while the cleanup began (_terminate_process_group).
THEOREM CallAlwaysTornDown == CallSpec => []CallTornDown
<1>1. CallInv => CallTornDown  BY DEF CallInv
<1> QED  BY <1>1, CallInvariance, PTL

-----------------------------------------------------------------------------
(* Console use: the actions.                                               *)

LEMMA UseStart == UseInit => UseInv
<1> SUFFICES ASSUME UseInit PROVE UseInv  OBVIOUS
<1>1. UseTypes
  <2>1. attempted \in [WebProcesses -> Never .. now]  BY DEF UseInit, Never
  <2>2. reaped \in BOOLEAN  BY DEF UseInit
  <2>3. /\ now = 0 /\ issued = {} /\ lastSeen = Never /\ deployed = 0 /\ used = Never
        /\ failures = 0
    BY DEF UseInit
  <2> QED  BY <2>1, <2>2, <2>3 DEF UseTypes, Never
<1> QED  BY <1>1 DEF UseInit, UseInv, InTick, Recorded, ReapedWasIdle

\* After a write the record is of this interval.
LEMMA RewrittenFresh ==
  ASSUME UseTypes,
         used' = now,
         lastSeen' = IF Rewritten(now) THEN now ELSE lastSeen
  PROVE  /\ lastSeen' \in Never .. now /\ lastSeen' # Never /\ lastSeen' >= now - Interval
         /\ lastSeen' >= lastSeen
  BY DEF UseTypes, Rewritten, Never

LEMMA KeystrokeInv ==
  ASSUME UseInv, NEW p \in WebProcesses, Keystroke(p)
  PROVE  UseInv'
<1> USE DEF UseInv
<1>1. /\ used' = now /\ now \in Nat /\ lastSeen \in Never .. now
      /\ UNCHANGED <<now, lastSeen, deployed, reaped, failures>> /\ ~reaped
  BY DEF Keystroke, UseTypes, Never
<1>2. CASE SlotDue(p)
  <2>1. /\ attempted' \in [WebProcesses -> Never .. now] /\ attempted'[p] = now
        /\ \A o \in WebProcesses \ {p} : attempted'[o] = attempted[o]
        /\ issued' = issued \cup {p}
    BY <1>2 DEF Keystroke, UseTypes, Never
  <2>2. UseTypes'  BY <1>1, <2>1 DEF UseTypes
  <2>3. InTick'  BY <1>1, <2>1, <2>2 DEF InTick, UseTypes
  <2>4. Recorded'  BY <1>1, <2>1 DEF Recorded
  <2> QED  BY <1>1, <2>2, <2>3, <2>4 DEF ReapedWasIdle
<1>3. CASE ~SlotDue(p)
  <2>1. UNCHANGED <<attempted, issued>>  BY <1>3 DEF Keystroke
  <2>2. /\ attempted[p] \in 0 .. now /\ attempted[p] # Never /\ now - attempted[p] < Interval
    BY <1>3 DEF SlotDue, UseTypes, Never
  <2>3. UseTypes'  BY <1>1, <2>1 DEF UseTypes, Never
  <2>4. InTick'  BY <1>1, <2>1 DEF InTick
  <2>5. Recorded'
    <3>1. CASE p \in issued  BY <1>1, <2>1, <3>1 DEF Recorded
    <3>2. CASE p \notin issued /\ failures = 0
      <4>1. lastSeen # Never /\ lastSeen >= attempted[p] - Interval
        BY <2>2, <3>2 DEF Recorded
      <4>2. lastSeen >= now - 2 * Interval  BY <1>1, <2>2, <4>1 DEF Never
      <4> QED  BY <1>1, <2>1, <3>2, <4>1, <4>2 DEF Recorded
    <3> QED  BY <1>1, <3>1, <3>2 DEF Recorded
  <2> QED  BY <1>1, <2>3, <2>4, <2>5 DEF ReapedWasIdle
<1> QED  BY <1>2, <1>3

LEMMA OpenPageInv ==
  ASSUME UseInv, NEW p \in WebProcesses, OpenPage(p)
  PROVE  UseInv'
<1> USE DEF UseInv
<1>1. /\ used' = now /\ now \in Nat /\ lastSeen \in Never .. now
      /\ UNCHANGED <<now, issued, deployed, reaped, failures>> /\ ~reaped
  BY DEF OpenPage, UseTypes, Never
<1>2. CASE SlotDue(p)
  <2>1. /\ attempted' \in [WebProcesses -> Never .. now] /\ attempted'[p] = now
        /\ \A o \in WebProcesses \ {p} : attempted'[o] = attempted[o]
    BY <1>2 DEF OpenPage, UseTypes, Never
  <2>2. /\ lastSeen' \in Never .. now /\ lastSeen' # Never /\ lastSeen' >= now - Interval
        /\ lastSeen' >= lastSeen
    BY <1>1, <1>2, RewrittenFresh DEF OpenPage
  <2>3. UseTypes'  BY <1>1, <2>1, <2>2 DEF UseTypes, Never
  <2>4. InTick'  BY <1>1, <2>1 DEF InTick, UseTypes
  <2>5. Recorded'
    <3> SUFFICES ASSUME failures = 0 PROVE Recorded'  BY <1>1 DEF Recorded
    <3>1. ASSUME NEW o \in WebProcesses \ issued, attempted'[o] # Never
          PROVE  lastSeen' >= attempted'[o] - Interval
      <4>1. CASE o = p  BY <1>1, <2>1, <2>2, <4>1
      <4>2. CASE o # p
        <5>1. attempted'[o] = attempted[o] /\ attempted[o] \in Never .. now
          BY <2>1, <4>2 DEF UseTypes
        <5>2. lastSeen >= attempted[o] - Interval  BY <3>1, <5>1 DEF Recorded
        <5> QED  BY <1>1, <2>2, <5>1, <5>2 DEF Never
      <4> QED  BY <4>1, <4>2
    <3>2. lastSeen' >= now - 2 * Interval  BY <1>1, <2>2 DEF Never
    <3> QED  BY <1>1, <2>2, <3>1, <3>2 DEF Recorded
  <2> QED  BY <1>1, <2>3, <2>4, <2>5 DEF ReapedWasIdle
<1>3. CASE ~SlotDue(p)
  <2>1. UNCHANGED <<attempted, issued, lastSeen>>  BY <1>1, <1>3 DEF OpenPage
  <2>2. /\ attempted[p] \in 0 .. now /\ attempted[p] # Never /\ now - attempted[p] < Interval
    BY <1>3 DEF SlotDue, UseTypes, Never
  <2>3. UseTypes'  BY <1>1, <2>1 DEF UseTypes, Never
  <2>4. InTick'  BY <1>1, <2>1 DEF InTick
  <2>5. Recorded'
    <3>1. CASE p \in issued  BY <1>1, <2>1, <3>1 DEF Recorded
    <3>2. CASE p \notin issued /\ failures = 0
      <4>1. lastSeen # Never /\ lastSeen >= attempted[p] - Interval
        BY <2>2, <3>2 DEF Recorded
      <4>2. lastSeen >= now - 2 * Interval  BY <1>1, <2>2, <4>1 DEF Never
      <4> QED  BY <1>1, <2>1, <3>2, <4>1, <4>2 DEF Recorded
    <3> QED  BY <1>1, <3>1, <3>2 DEF Recorded
  <2> QED  BY <1>1, <2>3, <2>4, <2>5 DEF ReapedWasIdle
<1> QED  BY <1>2, <1>3

LEMMA WriteBeatInv ==
  ASSUME UseInv, NEW p \in WebProcesses, WriteBeat(p)
  PROVE  UseInv'
<1> USE DEF UseInv
<1>1. /\ used = now /\ attempted[p] = now /\ now \in Nat /\ lastSeen \in Never .. now
      /\ issued' = issued \ {p}
      /\ UNCHANGED <<now, attempted, deployed, used, reaped, failures>>
  BY DEF WriteBeat, InTick, UseTypes
<1>2. /\ lastSeen' \in Never .. now /\ lastSeen' # Never /\ lastSeen' >= now - Interval
      /\ lastSeen' >= lastSeen
  BY <1>1, RewrittenFresh DEF WriteBeat
<1>3. UseTypes'  BY <1>1, <1>2 DEF UseTypes
<1>4. InTick'  BY <1>1 DEF InTick
<1>5. Recorded'
  <2>1. ASSUME NEW o \in WebProcesses PROVE lastSeen' >= attempted[o] - Interval
    <3>1. attempted[o] \in Never .. now  BY DEF UseTypes
    <3> QED  BY <1>1, <1>2, <3>1 DEF Never
  <2>2. lastSeen' >= used - 2 * Interval  BY <1>1, <1>2 DEF Never
  <2> QED  BY <1>1, <1>2, <2>1, <2>2 DEF Recorded
<1>6. ReapedWasIdle'  BY <1>1 DEF ReapedWasIdle
<1> QED  BY <1>3, <1>4, <1>5, <1>6

LEMMA LoseBeatInv ==
  ASSUME UseInv, NEW p \in WebProcesses, LoseBeat(p)
  PROVE  UseInv'
<1> USE DEF UseInv
<1>1. UseTypes'  BY DEF LoseBeat, UseTypes
<1>2. failures' # 0  BY DEF LoseBeat, UseTypes
<1> QED  BY <1>1, <1>2 DEF LoseBeat, InTick, Recorded, ReapedWasIdle

LEMMA ForgetSlotInv ==
  ASSUME UseInv, NEW p \in WebProcesses, ForgetSlot(p)
  PROVE  UseInv'
<1> USE DEF UseInv
<1>1. /\ attempted' \in [WebProcesses -> Never .. now] /\ attempted'[p] = Never
      /\ \A o \in WebProcesses \ {p} : attempted'[o] = attempted[o]
  BY DEF ForgetSlot, UseTypes, Never
<1>2. UseTypes'  BY <1>1 DEF ForgetSlot, UseTypes
<1> QED  BY <1>1, <1>2 DEF ForgetSlot, InTick, Recorded, ReapedWasIdle

\* The reaper finds the record old, which lags behind the use by two intervals;
\* of this tick it may know nothing.
LEMMA RequestIdleReapInv ==
  ASSUME UseInv, RequestIdleReap
  PROVE  UseInv'
<1> USE DEF UseInv
<1>1. UseTypes' /\ InTick' /\ Recorded'
  BY DEF RequestIdleReap, UseTypes, InTick, Recorded
<1>2. /\ lastSeen < now - IdleLimit /\ deployed < now - IdleLimit
      /\ lastSeen \in Int /\ deployed \in Int /\ now \in Nat /\ used \in Int
  BY DEF RequestIdleReap, LastActive, UseTypes, Never
<1>3. ASSUME failures = 0, used \notin {Never, now}
      PROVE  now - used > IdleLimit - 2 * Interval
  <2>1. issued = {}  BY <1>3 DEF InTick
  <2>2. lastSeen >= used - 2 * Interval  BY <1>3, <2>1 DEF Recorded
  <2> QED  BY <1>2, <2>2
<1>4. ReapedWasIdle'  BY <1>2, <1>3 DEF RequestIdleReap, ReapedWasIdle
<1> QED  BY <1>1, <1>4

LEMMA UseStep ==
  ASSUME UseInv, [UseNext]_useVars
  PROVE  UseInv'
<1>1. CASE UNCHANGED useVars
  BY <1>1 DEF useVars, UseInv, UseTypes, InTick, Recorded, ReapedWasIdle
<1>2. ASSUME NEW p \in WebProcesses,
             Keystroke(p) \/ OpenPage(p) \/ WriteBeat(p) \/ LoseBeat(p) \/ ForgetSlot(p)
      PROVE  UseInv'
  BY <1>2, KeystrokeInv, OpenPageInv, WriteBeatInv, LoseBeatInv, ForgetSlotInv
<1>3. CASE StampDeploy
  BY <1>3 DEF StampDeploy, UseInv, UseTypes, InTick, Recorded, ReapedWasIdle
<1>4. CASE UseTick
  <2>1. UseTypes'
    <3>1. now' \in 0 .. MaxTime /\ now' = now + 1 /\ now \in Nat
      BY <1>4 DEF UseTick, UseInv, UseTypes
    <3>2. attempted' \in [WebProcesses -> Never .. now']
      BY <1>4, <3>1 DEF UseTick, UseInv, UseTypes, Never
    <3> QED  BY <1>4, <3>1, <3>2 DEF UseTick, UseInv, UseTypes, Never
  <2> QED  BY <1>4, <2>1 DEF UseTick, UseInv, InTick, Recorded, ReapedWasIdle
<1> QED  BY <1>1, <1>2, <1>3, <1>4, RequestIdleReapInv DEF UseNext

\* The inductive invariant of the record of use.
THEOREM UseInvariance == UseSpec => []UseInv
  BY UseStart, UseStep, PTL DEF UseSpec

\* Nothing is recorded that was not used (ConsoleActivity).
THEOREM UseTypeCorrect == UseSpec => []UseTypeOK
<1>1. UseInv => UseTypeOK  BY DEF UseInv, UseTypes, UseTypeOK
<1> QED  BY <1>1, UseInvariance, PTL

\* A lab is reaped only when its console was idle, for any number of processes
\* and any interval and idle limit (record_console_activity, the idle reaper).
THEOREM ReapedAlwaysIdle == UseSpec => []ReapedWasIdle
<1>1. UseInv => ReapedWasIdle  BY DEF UseInv
<1> QED  BY <1>1, UseInvariance, PTL

-----------------------------------------------------------------------------
(* Consoles: lemmas.                                                       *)

Roaming == {"loop", "listed", "recover", "drain", "down"}

LEMMA PollingTyped ==
  /\ NoPorts \in [Labs -> SUBSET Ports] /\ Polling \in WorkerStates
  /\ Polling.at = "loop" /\ Polling.todo = {} /\ Polling.on = {} /\ Polling.ok = TRUE
  BY DEF NoPorts, Polling, WorkerStates

LEMMA SweeplessTyped ==
  Sweepless \in SweeperStates /\ Sweepless.at = "rest" /\ Sweepless.calm = {}
  BY PollingTyped DEF Sweepless, SweeperStates

\* The worker back in its loop, on a new errand.
LEMMA Sent ==
  ASSUME NEW here \in {"loop", "drain", "down"}
  PROVE  /\ [Polling EXCEPT !.at = here] \in WorkerStates
         /\ [Polling EXCEPT !.at = here].at = here
  BY PollingTyped DEF Polling, WorkerStates

LEMMA LeftTyped ==
  ASSUME ConsoleTypes, NEW fault \in ConsoleFaults, LoseOne(fault)
  PROVE  left' \in [ConsoleFaults -> Nat]
  BY DEF ConsoleTypes, LoseOne

\* A step of the worker outside an operation, which may tell consoles to end and
\* write ports to rows.
LEMMA Roamed ==
  ASSUME ConsolesInv, worker' \in WorkerStates, worker'.at \in Roaming, SeenInTime',
         lab' \in [Labs -> LabRows], \A l \in Labs : lab'[l].presence = lab[l].presence,
         dying' \subseteq Ports, \A l \in Labs : Alive(l)' \subseteq Alive(l),
         UNCHANGED <<intent, running, ttys, sweeper, missed>>,
         left' \in [ConsoleFaults -> Nat]
  PROVE  ConsolesInv'
<1> USE DEF ConsolesInv
<1>1. ConsoleTypes' /\ PortsApart'  BY DEF ConsoleTypes, PortsApart
<1>2. OneAlive'  BY DEF OneAlive
<1>3. Emptied' /\ InHand' /\ Removed'  BY DEF Emptied, InHand, Removed, Roaming
<1>4. RunningKept'
  <2>1. running \subseteq Labs  BY DEF ConsoleTypes
  <2> QED  BY <2>1 DEF RunningKept, Kept
<1>5. CalmSpared'  BY DEF CalmSpared
<1> QED  BY <1>1, <1>2, <1>3, <1>4, <1>5

\* A step of an operation on one lab, whose row says that it is uncertain: what
\* it does to the other labs' rows and to the sweep is nothing.
LEMMA Handled ==
  ASSUME ConsolesInv, NEW l \in Labs, worker.on = {l},
         worker.at \in {"engine", "stop", "start"},
         worker' \in WorkerStates, worker'.on = {l}, worker'.at \in {"stop", "start", "settle"},
         UNCHANGED <<lab, intent, sweeper>>, running' \subseteq running \cup {l},
         ttys' \in [Labs -> SUBSET Ports], dying' \subseteq Ports, missed' \subseteq Labs,
         left' \in [ConsoleFaults -> Nat],
         PortsApart', OneAlive', Emptied', Removed'
  PROVE  ConsolesInv'
<1> USE DEF ConsolesInv
<1>1. intent[l] # "none" /\ lab[l].presence = "unknown"  BY DEF InHand
<1>2. ConsoleTypes'  BY DEF ConsoleTypes
<1>3. SeenInTime'  BY DEF SeenInTime
<1>4. InHand'  BY <1>1 DEF InHand
<1>5. RunningKept'  BY <1>1 DEF RunningKept, Kept
<1>6. CalmSpared'  BY <1>1 DEF CalmSpared
<1> QED  BY <1>2, <1>3, <1>4, <1>5, <1>6

\* A step of the host, of the sweep or of those who ask: consoles and labs end,
\* and an open operation stays what it is.
LEMMA Elsewhere ==
  ASSUME ConsolesInv, UNCHANGED <<lab, worker, missed>>,
         intent' \in [Labs -> IntentKinds],
         \A l \in Labs : intent[l] # "none" => intent'[l] = intent[l],
         running' \subseteq running, ttys' \in [Labs -> SUBSET Ports], dying' \subseteq Ports,
         \A l \in Labs : ttys'[l] \subseteq ttys[l] /\ Alive(l)' \subseteq Alive(l),
         sweeper' \in SweeperStates, CalmSpared', left' \in [ConsoleFaults -> Nat]
  PROVE  ConsolesInv'
<1> USE DEF ConsolesInv
<1>1. ConsoleTypes'  BY DEF ConsoleTypes
<1>2. PortsApart'
  <2> SUFFICES ASSUME NEW l \in Labs, NEW m \in Labs, l # m
               PROVE  ttys'[l] \cap ttys'[m] = {}
    BY DEF PortsApart
  <2>1. ttys[l] \cap ttys[m] = {}  BY DEF PortsApart
  <2> QED  BY <2>1
<1>3. OneAlive'  BY DEF OneAlive
<1>4. worker.todo \subseteq Labs /\ worker.on \subseteq Labs  BY DEF ConsoleTypes, WorkerStates
<1>5. SeenInTime'  BY <1>4 DEF SeenInTime
<1>6. Emptied'  BY <1>4 DEF Emptied
<1>7. InHand'  BY DEF InHand
<1>8. Removed'
  <2>1. ASSUME worker.at \in {"stop", "start", "settle"}, NEW l \in worker.on
        PROVE  intent'[l] = intent[l]
    <3>1. PICK m \in Labs : worker.on = {m} /\ intent[m] # "none"  BY <2>1 DEF InHand
    <3> QED  BY <2>1, <3>1
  <2> QED  BY <2>1 DEF Removed
<1>9. RunningKept'  BY DEF RunningKept, Kept
<1> QED  BY <1>1, <1>2, <1>3, <1>5, <1>6, <1>7, <1>8, <1>9

\* A new console gets a port that nobody has.
LEMMA Placed ==
  ASSUME ConsolesInv, NEW l \in Labs, FreePorts # {},
         l \in missed \/ Alive(l) = {},
         ttys' = [ttys EXCEPT ![l] = @ \cup {FreePort}], UNCHANGED <<dying, missed>>
  PROVE  /\ FreePort \in Ports
         /\ ttys' \in [Labs -> SUBSET Ports] /\ ttys'[l] = ttys[l] \cup {FreePort}
         /\ \A m \in Labs \ {l} : ttys'[m] = ttys[m]
         /\ PortsApart' /\ OneAlive'
<1> USE DEF ConsolesInv
<1>1. FreePort \in FreePorts  BY DEF FreePort
<1>2. FreePort \in Ports /\ \A m \in Labs : FreePort \notin ttys[m]  BY <1>1 DEF FreePorts
<1> HIDE DEF FreePort
<1>3. /\ ttys' \in [Labs -> SUBSET Ports] /\ ttys'[l] = ttys[l] \cup {FreePort}
      /\ \A m \in Labs \ {l} : ttys'[m] = ttys[m]
  BY <1>2 DEF ConsoleTypes
<1>4. PortsApart'
  <2> SUFFICES ASSUME NEW m \in Labs, NEW n \in Labs, m # n
               PROVE  ttys'[m] \cap ttys'[n] = {}
    BY DEF PortsApart
  <2>1. ttys[m] \cap ttys[n] = {}  BY DEF PortsApart
  <2> QED  BY <1>2, <1>3, <2>1
<1>5. OneAlive'
  <2> SUFFICES ASSUME NEW m \in Labs \ missed, NEW p \in Alive(m)', NEW q \in Alive(m)'
               PROVE  p = q
    BY DEF OneAlive
  <2>1. CASE m = l  BY <1>3, <2>1 DEF Alive
  <2>2. CASE m # l  BY <1>3, <2>2 DEF OneAlive, Alive
  <2> QED  BY <2>1, <2>2
<1> QED  BY <1>2, <1>3, <1>4, <1>5

LEMMA ConsolesStart == ConsolesInit => ConsolesInv
<1> SUFFICES ASSUME ConsolesInit PROVE ConsolesInv  OBVIOUS
<1> DEFINE f == CHOOSE f \in [Labs -> Ports] : \A l, m \in Labs : f[l] = f[m] => l = m
<1>1. f \in [Labs -> Ports] /\ \A l, m \in Labs : f[l] = f[m] => l = m  BY PortsAssumption
<1>2. PICK up \in SUBSET Labs :
        /\ lab = [l \in Labs |->
             IF l \in up THEN [status |-> "active", presence |-> "present", port |-> f[l]]
                         ELSE [status |-> "queued", presence |-> "absent", port |-> NoPort]]
        /\ intent = [l \in Labs |-> IF l \in up THEN "none" ELSE "deploy"]
        /\ running = up /\ ttys = [l \in Labs |-> IF l \in up THEN {f[l]} ELSE {}]
  BY DEF ConsolesInit
<1> HIDE DEF f
<1>3. /\ dying = {} /\ missed = {} /\ worker = Polling /\ sweeper = Sweepless
      /\ left \in [ConsoleFaults -> Nat]
  BY DEF ConsolesInit
<1>4. ConsoleTypes
  <2>1. lab \in [Labs -> LabRows]  BY <1>1, <1>2 DEF LabRows
  <2>2. intent \in [Labs -> IntentKinds]  BY <1>2 DEF IntentKinds
  <2>3. ttys \in [Labs -> SUBSET Ports]  BY <1>1, <1>2
  <2> QED  BY <1>2, <1>3, <2>1, <2>2, <2>3, PollingTyped, SweeplessTyped DEF ConsoleTypes
<1>5. PortsApart /\ OneAlive  BY <1>1, <1>2, <1>3 DEF PortsApart, OneAlive, Alive
<1>6. SeenInTime /\ Emptied /\ InHand /\ Removed
  BY <1>3, PollingTyped DEF SeenInTime, Emptied, InHand, Removed
<1>7. RunningKept  BY <1>2 DEF RunningKept, Kept
<1>8. CalmSpared  BY <1>3, SweeplessTyped DEF CalmSpared
<1> QED  BY <1>4, <1>5, <1>6, <1>7, <1>8 DEF ConsolesInv

-----------------------------------------------------------------------------
(* Consoles: the actions.                                                  *)

LEMMA LoopInv ==
  ASSUME ConsolesInv, ListLabs \/ DrainEmpty \/ StopWorker \/ StartWorker
  PROVE  ConsolesInv'
<1> USE DEF ConsolesInv
<1>1. CASE ListLabs
  <2> DEFINE those == {l \in Labs : lab[l].status = "active" /\ lab[l].presence = "present"
                                    /\ intent[l] = "none"}
  <2>1. worker' = [Polling EXCEPT !.at = "listed", !.todo = those]  BY <1>1 DEF ListLabs
  <2>2. those \subseteq Labs  OBVIOUS
  <2> HIDE DEF those
  <2>3. worker' \in WorkerStates /\ worker'.at = "listed"
    BY <2>1, <2>2, PollingTyped DEF Polling, WorkerStates
  <2> QED  BY <1>1, <2>3, Roamed DEF ListLabs, ConsoleTypes, Alive, SeenInTime, Roaming
<1>2. CASE DrainEmpty \/ StartWorker
  <2>1. worker' \in WorkerStates /\ worker'.at = "loop"
    BY <1>2, PollingTyped DEF DrainEmpty, StartWorker
  <2> QED  BY <1>2, <2>1, Roamed
           DEF DrainEmpty, StartWorker, ConsoleTypes, Alive, SeenInTime, Roaming
<1>3. CASE StopWorker
  <2>1. worker' \in WorkerStates /\ worker'.at = "down"  BY <1>3, Sent DEF StopWorker
  <2>2. left' \in [ConsoleFaults -> Nat]  BY <1>3, LeftTyped DEF StopWorker, ConsoleFaults
  <2>3. dying' \subseteq Ports /\ \A l \in Labs : Alive(l)' \subseteq Alive(l)
    <3>1. UNCHANGED ttys /\ \A l \in Labs : ttys[l] \subseteq Ports
      BY <1>3 DEF StopWorker, ConsoleTypes
    <3>2. CASE dying' = dying  BY <3>1, <3>2 DEF Alive, ConsoleTypes
    <3>3. CASE dying' = UNION {ttys[l] : l \in Labs}
      <4>1. \A l \in Labs : ttys[l] \subseteq dying'  BY <3>3
      <4> QED  BY <3>1, <3>3, <4>1 DEF Alive
    <3> QED  BY <1>3, <3>2, <3>3 DEF StopWorker
  <2> QED  BY <1>3, <2>1, <2>2, <2>3, Roamed DEF StopWorker, ConsoleTypes, SeenInTime, Roaming
<1> QED  BY <1>1, <1>2, <1>3

\* What a scan shows is what there is, and then only less.
LEMMA ScanConsolesInv ==
  ASSUME ConsolesInv, ScanConsoles
  PROVE  ConsolesInv'
<1> USE DEF ConsolesInv
<1>1. left' \in [ConsoleFaults -> Nat]
  BY LeftTyped DEF ScanConsoles, ConsoleFaults, ConsoleTypes
<1>2. CASE worker' = [worker EXCEPT !.at = "recover", !.seen = ttys]
  <2>1. /\ worker' \in WorkerStates /\ worker'.at = "recover" /\ worker'.seen = ttys
        /\ worker'.todo \subseteq Labs
    BY <1>2 DEF ConsoleTypes, WorkerStates
  <2>2. SeenInTime'  BY <2>1 DEF ScanConsoles, SeenInTime
  <2> QED  BY <1>1, <2>1, <2>2, Roamed DEF ScanConsoles, ConsoleTypes, Alive, Roaming
<1>3. CASE worker' = AfterBlindScan
  <2>1. worker' \in WorkerStates /\ worker'.at = "drain"  BY <1>3, Sent DEF AfterBlindScan
  <2> QED  BY <1>1, <2>1, Roamed DEF ScanConsoles, ConsoleTypes, Alive, SeenInTime, Roaming
<1> QED  BY <1>2, <1>3 DEF ScanConsoles

LEMMA PassOverInv ==
  ASSUME ConsolesInv, NEW l \in Labs, PassOver(l)
  PROVE  ConsolesInv'
<1> USE DEF ConsolesInv
<1>1. left' \in [ConsoleFaults -> Nat]
  BY LeftTyped DEF PassOver, ConsoleFaults, ConsoleTypes
<1>2. /\ worker' \in WorkerStates /\ worker'.at = "recover" /\ worker'.seen = worker.seen
      /\ worker'.todo \subseteq worker.todo
  BY DEF PassOver, Looked, ConsoleTypes, WorkerStates
<1>3. SeenInTime'  BY <1>2 DEF PassOver, SeenInTime
<1> QED  BY <1>1, <1>2, <1>3, Roamed DEF PassOver, ConsoleTypes, Alive, Roaming

\* A console is started only for a lab that had none when it was looked at.
LEMMA RecoverInv ==
  ASSUME ConsolesInv, NEW l \in Labs, Recover(l)
  PROVE  ConsolesInv'
<1> USE DEF ConsolesInv
<1>1. left' \in [ConsoleFaults -> Nat]
  BY LeftTyped DEF Recover, ConsoleFaults, ConsoleTypes
<1>2. ASSUME NEW port \in Ports \cup {NoPort}, worker' = Recovered(l, port)
      PROVE  /\ worker' \in WorkerStates /\ worker'.at = "recover"
             /\ worker'.seen = worker.seen /\ worker'.todo = worker.todo \ {l}
  BY <1>2 DEF Recover, Recovered, Looked, ConsoleTypes, WorkerStates
<1>3. CASE UNCHANGED ttys /\ \E port \in Ports \cup {NoPort} : worker' = Recovered(l, port)
  <2>1. /\ worker' \in WorkerStates /\ worker'.at = "recover"
        /\ worker'.seen = worker.seen /\ worker'.todo = worker.todo \ {l}
    BY <1>2, <1>3
  <2>2. SeenInTime'  BY <1>3, <2>1 DEF Recover, SeenInTime
  <2> QED  BY <1>1, <1>3, <2>1, <2>2, Roamed DEF Recover, ConsoleTypes, Alive, Roaming
<1>4. CASE /\ worker.seen[l] = {} /\ FreePorts # {}
           /\ ttys' = [ttys EXCEPT ![l] = @ \cup {FreePort}]
           /\ worker' = Recovered(l, FreePort)
  <2>1. ttys[l] = {} /\ Alive(l) = {}  BY <1>4 DEF Recover, SeenInTime, Alive
  <2>2. /\ FreePort \in Ports
        /\ ttys' \in [Labs -> SUBSET Ports]
        /\ \A m \in Labs \ {l} : ttys'[m] = ttys[m]
        /\ PortsApart' /\ OneAlive'
    BY <1>4, <2>1, Placed DEF Recover
  <2>3. /\ worker' \in WorkerStates /\ worker'.at = "recover"
        /\ worker'.seen = worker.seen /\ worker'.todo = worker.todo \ {l}
    BY <1>2, <1>4, <2>2
  <2>4. ConsoleTypes'  BY <1>1, <2>2, <2>3 DEF Recover, ConsoleTypes
  <2>5. SeenInTime'
    <3>1. worker.todo \subseteq Labs  BY DEF ConsoleTypes, WorkerStates
    <3> QED  BY <2>2, <2>3, <3>1 DEF Recover, SeenInTime
  <2>6. Emptied' /\ InHand' /\ Removed'  BY <2>3 DEF Emptied, InHand, Removed
  <2>7. RunningKept' /\ CalmSpared'  BY DEF Recover, RunningKept, Kept, CalmSpared
  <2> QED  BY <2>2, <2>4, <2>5, <2>6, <2>7
<1>5. worker.seen[l] \subseteq Ports  BY DEF ConsoleTypes, WorkerStates
<1> QED  BY <1>3, <1>4, <1>5 DEF Recover

LEMMA CommitRecoveryInv ==
  ASSUME ConsolesInv, CommitRecovery
  PROVE  ConsolesInv'
<1> USE DEF ConsolesInv
<1>1. worker' \in WorkerStates /\ worker'.at = "drain"  BY Sent DEF CommitRecovery
<1>2. /\ lab' \in [Labs -> LabRows]
      /\ \A l \in Labs : lab'[l].presence = lab[l].presence
  <2>1. \A l \in Labs : worker.plan[l] \in Ports \cup {NoPort}  BY DEF ConsoleTypes, WorkerStates
  <2> QED  BY <2>1 DEF CommitRecovery, ConsoleTypes, LabRows
<1> QED  BY <1>1, <1>2, Roamed DEF CommitRecovery, ConsoleTypes, Alive, SeenInTime, Roaming

LEMMA TakeUpInv ==
  ASSUME ConsolesInv, NEW l \in Labs, TakeUp(l)
  PROVE  ConsolesInv'
<1> USE DEF ConsolesInv
<1>1. worker' \in WorkerStates /\ worker'.at = "engine" /\ worker'.on = {l}
  BY PollingTyped DEF TakeUp, Polling, WorkerStates
<1>2. /\ lab' \in [Labs -> LabRows] /\ lab'[l].presence = "unknown"
      /\ \A m \in Labs \ {l} : lab'[m] = lab[m]
  <2> DEFINE port == IF intent[l] = "destroy" THEN NoPort ELSE lab[l].port
             row == [lab[l] EXCEPT !.presence = "unknown", !.port = port]
  <2>1. lab[l] \in LabRows  BY DEF ConsoleTypes
  <2>2. port \in Ports \cup {NoPort}  BY <2>1 DEF LabRows
  <2>3. row \in LabRows /\ row.presence = "unknown"
    <3> HIDE DEF port
    <3> QED  BY <2>1, <2>2 DEF LabRows
  <2>4. lab \in [Labs -> LabRows] /\ lab' = [lab EXCEPT ![l] = row]
    BY <2>1 DEF TakeUp, ConsoleTypes, LabRows
  <2> HIDE DEF row
  <2> QED  BY <2>3, <2>4
<1>3. ConsoleTypes'  BY <1>1, <1>2 DEF TakeUp, ConsoleTypes
<1>4. PortsApart' /\ OneAlive'  BY DEF TakeUp, PortsApart, OneAlive, Alive
<1>5. SeenInTime' /\ Emptied' /\ Removed'  BY <1>1 DEF SeenInTime, Emptied, Removed
<1>6. InHand'  BY <1>1, <1>2 DEF TakeUp, InHand
<1>7. RunningKept'  BY <1>2 DEF TakeUp, RunningKept, Kept, ConsoleTypes
<1>8. CalmSpared'  BY DEF TakeUp, CalmSpared
<1> QED  BY <1>3, <1>4, <1>5, <1>6, <1>7, <1>8

\* A destroy goes on only when the lab is gone.
LEMMA CallEngineInv ==
  ASSUME ConsolesInv, NEW l \in Labs, CallEngine(l)
  PROVE  ConsolesInv'
<1> USE DEF ConsolesInv
<1> DEFINE done == IF intent[l] = "repair" THEN running \cup {l} ELSE running \ {l}
<1>1. /\ worker.at = "engine" /\ worker.on = {l}
      /\ UNCHANGED <<lab, intent, ttys, dying, sweeper, missed>>
  BY DEF CallEngine
<1>2. left' \in [ConsoleFaults -> Nat]
  BY LeftTyped DEF CallEngine, ConsoleFaults, ConsoleTypes
<1>3. PortsApart' /\ OneAlive'  BY <1>1 DEF PortsApart, OneAlive, Alive
<1>4. CASE running' = done /\ worker' = [worker EXCEPT !.at = "stop"]
  <2>1. worker' \in WorkerStates /\ worker'.at = "stop" /\ worker'.on = {l}
    BY <1>1, <1>4 DEF ConsoleTypes, WorkerStates
  <2>2. running' \subseteq running \cup {l} /\ (intent[l] = "destroy" => l \notin running')
    BY <1>4
  <2>3. Emptied' /\ Removed'  BY <1>1, <2>1, <2>2 DEF Emptied, Removed
  <2> QED  BY <1>1, <1>2, <1>3, <2>1, <2>2, <2>3, Handled DEF ConsoleTypes
<1>5. CASE /\ running' \in {running, done}
           /\ worker' = [worker EXCEPT !.at = "settle", !.ok = FALSE]
  <2>1. worker' \in WorkerStates /\ worker'.at = "settle" /\ worker'.on = {l} /\ ~worker'.ok
    BY <1>1, <1>5 DEF ConsoleTypes, WorkerStates
  <2>2. running' \subseteq running \cup {l}  BY <1>5
  <2>3. Emptied' /\ Removed'  BY <2>1 DEF Emptied, Removed
  <2> QED  BY <1>1, <1>2, <1>3, <2>1, <2>2, <2>3, Handled DEF ConsoleTypes
<1> QED  BY <1>4, <1>5 DEF CallEngine

\* Every console the scan shows is told to end; if it fails that is on record.
LEMMA StopConsolesInv ==
  ASSUME ConsolesInv, NEW l \in Labs, StopConsoles(l)
  PROVE  ConsolesInv'
<1> USE DEF ConsolesInv
<1>1. worker.at = "stop" /\ worker.on = {l} /\ UNCHANGED <<lab, intent, running, ttys, sweeper>>
  BY DEF StopConsoles
<1>2. left' \in [ConsoleFaults -> Nat]
  BY LeftTyped DEF StopConsoles, ConsoleFaults, ConsoleTypes
<1>3. /\ worker' \in WorkerStates /\ worker'.on = {l} /\ worker'.ok = worker.ok
      /\ worker'.at = IF intent[l] = "destroy" THEN "settle" ELSE "start"
  BY <1>1 DEF StopConsoles, ConsoleTypes, WorkerStates
<1>4. /\ dying \subseteq dying' /\ dying' \subseteq Ports
      /\ missed \subseteq missed' /\ missed' \subseteq Labs
      /\ l \in missed' \/ ttys[l] \subseteq dying'
  <2>1. ttys[l] \subseteq Ports /\ dying \subseteq Ports /\ missed \subseteq Labs
    BY DEF ConsoleTypes
  <2> QED  BY <2>1 DEF StopConsoles, Stopped
<1>5. PortsApart' /\ OneAlive'  BY <1>1, <1>4 DEF PortsApart, OneAlive, Alive
<1>6. Emptied'  BY <1>1, <1>3, <1>4 DEF Emptied, Alive
<1>7. Removed'  BY <1>1, <1>3 DEF Removed
<1>8. ttys' \in [Labs -> SUBSET Ports] /\ running' \subseteq running \cup {l}
  BY <1>1 DEF ConsoleTypes
<1>9. worker'.at \in {"stop", "start", "settle"}  BY <1>3
<1> QED  BY <1>1, <1>2, <1>3, <1>4, <1>5, <1>6, <1>7, <1>8, <1>9, Handled

LEMMA StartConsoleInv ==
  ASSUME ConsolesInv, NEW l \in Labs, StartConsole(l)
  PROVE  ConsolesInv'
<1> USE DEF ConsolesInv
<1>1. /\ worker.at = "start" /\ worker.on = {l} /\ intent[l] # "destroy"
      /\ UNCHANGED <<lab, intent, dying, sweeper, missed>>
      /\ l \in missed \/ Alive(l) = {}
  BY DEF StartConsole, Removed, Emptied
<1>2. left' \in [ConsoleFaults -> Nat]
  BY LeftTyped DEF StartConsole, ConsoleFaults, ConsoleTypes
<1>3. running' \subseteq running \cup {l}  BY DEF StartConsole
<1>4. CASE /\ FreePorts # {}
           /\ ttys' = [ttys EXCEPT ![l] = @ \cup {FreePort}]
           /\ worker' = [worker EXCEPT !.at = "settle", !.plan[l] = FreePort]
  <2>1. /\ FreePort \in Ports /\ ttys' \in [Labs -> SUBSET Ports] /\ PortsApart' /\ OneAlive'
    BY <1>1, <1>4, Placed
  <2>2. worker' \in WorkerStates /\ worker'.at = "settle" /\ worker'.on = {l}
    BY <1>1, <1>4, <2>1 DEF ConsoleTypes, WorkerStates
  <2>3. Emptied' /\ Removed'  BY <1>1, <2>2 DEF Emptied, Removed
  <2> QED  BY <1>1, <1>2, <1>3, <2>1, <2>2, <2>3, Handled DEF ConsoleTypes
<1>5. CASE /\ UNCHANGED ttys
           /\ \E ok \in {worker.ok, FALSE} :
                worker' = [worker EXCEPT !.at = "settle", !.ok = ok]
  <2>1. worker' \in WorkerStates /\ worker'.at = "settle" /\ worker'.on = {l}
    BY <1>1, <1>5 DEF ConsoleTypes, WorkerStates
  <2>2. PortsApart' /\ OneAlive'  BY <1>1, <1>5 DEF PortsApart, OneAlive, Alive
  <2>3. Emptied' /\ Removed'  BY <1>1, <2>1 DEF Emptied, Removed
  <2> QED  BY <1>1, <1>2, <1>3, <1>5, <2>1, <2>2, <2>3, Handled DEF ConsoleTypes
<1>6. worker' = [worker EXCEPT !.at = "settle"] =>
        worker' = [worker EXCEPT !.at = "settle", !.ok = worker.ok]
  BY DEF ConsoleTypes, WorkerStates
<1> QED  BY <1>4, <1>5, <1>6 DEF StartConsole

\* Only a destroy that removed the lab says that it is absent.
LEMMA SettleInv ==
  ASSUME ConsolesInv, NEW l \in Labs, Settle(l)
  PROVE  ConsolesInv'
<1> USE DEF ConsolesInv
<1>1. worker' \in WorkerStates /\ worker'.at = "drain"  BY Sent DEF Settle
<1>2. PICK end \in {"active", "error"} :
        lab' = [lab EXCEPT ![l] =
          IF ~worker.ok THEN [@ EXCEPT !.status = end]
          ELSE IF intent[l] = "destroy" THEN [status |-> "reaped", presence |-> "absent", port |-> NoPort]
          ELSE [status |-> "active", presence |-> "present", port |-> worker.plan[l]]]
  BY DEF Settle
<1>3. /\ worker.plan[l] \in Ports \cup {NoPort} /\ lab[l] \in LabRows
      /\ lab[l].presence = "unknown"
  BY DEF Settle, ConsoleTypes, WorkerStates, InHand
<1>4. /\ lab' \in [Labs -> LabRows] /\ \A m \in Labs \ {l} : lab'[m] = lab[m]
  BY <1>2, <1>3 DEF ConsoleTypes, LabRows
<1>5. l \in running => lab'[l].presence \in {"present", "unknown"}
  <2>1. CASE ~worker.ok  BY <1>2, <1>3, <2>1 DEF ConsoleTypes, LabRows
  <2>2. CASE worker.ok /\ intent[l] = "destroy"  BY <2>2 DEF Settle, Removed
  <2>3. CASE worker.ok /\ intent[l] # "destroy"  BY <1>2, <2>3 DEF ConsoleTypes
  <2> QED  BY <2>1, <2>2, <2>3
<1>6. /\ intent' \in [Labs -> IntentKinds] /\ intent'[l] = "none"
      /\ \A m \in Labs \ {l} : intent'[m] = intent[m]
  BY DEF Settle, ConsoleTypes, IntentKinds
<1>7. ConsoleTypes'  BY <1>1, <1>4, <1>6 DEF Settle, ConsoleTypes
<1>8. PortsApart' /\ OneAlive'  BY DEF Settle, PortsApart, OneAlive, Alive
<1>9. SeenInTime' /\ Emptied' /\ InHand' /\ Removed'
  BY <1>1 DEF SeenInTime, Emptied, InHand, Removed
<1>10. RunningKept'  BY <1>4, <1>5 DEF Settle, RunningKept, Kept, ConsoleTypes
<1>11. CalmSpared'  BY <1>6 DEF Settle, CalmSpared, ConsoleTypes, SweeperStates
<1> QED  BY <1>7, <1>8, <1>9, <1>10, <1>11

\* The sweep is to kill only what belongs to no lab that may run.
LEMMA SweeperInv ==
  ASSUME ConsolesInv, SweepStep
  PROVE  ConsolesInv'
<1> USE DEF ConsolesInv
<1>1. /\ UNCHANGED <<lab, intent, running, ttys, worker, missed, left>>
      /\ dying \subseteq dying' /\ dying' \subseteq Ports
  <2>1. \A l \in Labs : ttys[l] \subseteq Ports  BY DEF ConsoleTypes
  <2>2. CASE SweepScan \/ SweepRead  BY <2>2 DEF SweepScan, SweepRead, ConsoleTypes
  <2>3. CASE SweepKill  BY <2>1, <2>3 DEF SweepKill, ConsoleTypes
  <2> QED  BY <2>2, <2>3 DEF SweepStep
<1>2. \A l \in Labs : ttys'[l] \subseteq ttys[l] /\ Alive(l)' \subseteq Alive(l)
  BY <1>1 DEF Alive
<1>3. sweeper' \in SweeperStates /\ CalmSpared'
  <2>1. CASE SweepScan
    <3>1. /\ sweeper' \in SweeperStates /\ sweeper'.at = "scanned"
          /\ sweeper'.calm = Quiet
      BY <2>1 DEF SweepScan, Quiet, ConsoleTypes, SweeperStates
    <3> QED  BY <1>1, <3>1 DEF CalmSpared, Quiet
  <2>2. CASE SweepRead
    <3>1. /\ sweeper' \in SweeperStates /\ sweeper'.calm = sweeper.calm
          /\ \A l \in Labs : Kept(l) => sweeper'.seen[l] = {}
      BY <2>2 DEF SweepRead, ConsoleTypes, SweeperStates
    <3>2. \A l \in running : l \in Labs /\ Kept(l)  BY DEF RunningKept, ConsoleTypes
    <3> QED  BY <1>1, <3>1, <3>2 DEF CalmSpared
  <2>3. CASE SweepKill
    BY <2>3, SweeplessTyped DEF SweepKill, CalmSpared
  <2> QED  BY <2>1, <2>2, <2>3 DEF SweepStep
<1> QED  BY <1>1, <1>2, <1>3, Elsewhere DEF ConsoleTypes

LEMMA HostInv ==
  ASSUME ConsolesInv,
         (\E p \in Ports : ExitConsole(p)) \/ \E l \in Labs : LoseConsole(l) \/ LoseLab(l)
  PROVE  ConsolesInv'
<1> USE DEF ConsolesInv
<1>1. ASSUME NEW p \in Ports, ExitConsole(p) PROVE ConsolesInv'
  <2>1. ttys' \in [Labs -> SUBSET Ports] /\ \A l \in Labs : ttys'[l] = ttys[l] \ {p}
    BY <1>1 DEF ExitConsole, ConsoleTypes
  <2>2. dying' = dying \ {p}  BY <1>1 DEF ExitConsole
  <2>3. \A l \in Labs : ttys'[l] \subseteq ttys[l] /\ Alive(l)' \subseteq Alive(l)
    BY <2>1, <2>2 DEF Alive
  <2>4. CalmSpared'  BY <1>1 DEF ExitConsole, CalmSpared
  <2> QED  BY <1>1, <2>1, <2>2, <2>3, <2>4, Elsewhere DEF ExitConsole, ConsoleTypes
<1>2. ASSUME NEW l \in Labs, LoseConsole(l) PROVE ConsolesInv'
  <2>1. dying \subseteq dying' /\ dying' \subseteq Ports
    BY <1>2 DEF LoseConsole, Alive, ConsoleTypes
  <2>2. left' \in [ConsoleFaults -> Nat]  BY <1>2, LeftTyped DEF LoseConsole, ConsoleFaults
  <2>3. \A m \in Labs : ttys'[m] \subseteq ttys[m] /\ Alive(m)' \subseteq Alive(m)
    BY <1>2, <2>1 DEF LoseConsole, Alive
  <2>4. CalmSpared'  BY <1>2 DEF LoseConsole, CalmSpared
  <2> QED  BY <1>2, <2>1, <2>2, <2>3, <2>4, Elsewhere DEF LoseConsole, ConsoleTypes
<1>3. ASSUME NEW l \in Labs, LoseLab(l) PROVE ConsolesInv'
  <2>1. left' \in [ConsoleFaults -> Nat]  BY <1>3, LeftTyped DEF LoseLab, ConsoleFaults
  <2>2. running' \subseteq running  BY <1>3 DEF LoseLab
  <2>3. \A m \in Labs : ttys'[m] \subseteq ttys[m] /\ Alive(m)' \subseteq Alive(m)
    BY <1>3 DEF LoseLab, Alive
  <2>4. CalmSpared'  BY <1>3, <2>2 DEF LoseLab, CalmSpared
  <2> QED  BY <1>3, <2>1, <2>2, <2>3, <2>4, Elsewhere DEF LoseLab, ConsoleTypes
<1> QED  BY <1>1, <1>2, <1>3

\* A lab that gets an operation is calm no longer.
LEMMA RequestInv ==
  ASSUME ConsolesInv, NEW l \in Labs, RequestWork(l) \/ RequestRepair(l)
  PROVE  ConsolesInv'
<1> USE DEF ConsolesInv
<1>1. PICK kind \in {"deploy", "destroy", "repair"} : Enqueued(l, kind)
  BY DEF RequestWork, RequestRepair
<1>2. left' \in [ConsoleFaults -> Nat]
  BY LeftTyped DEF RequestWork, RequestRepair, ConsoleFaults, ConsoleTypes
<1>3. /\ intent' \in [Labs -> IntentKinds] /\ intent[l] = "none"
      /\ \A m \in Labs \ {l} : intent'[m] = intent[m]
  BY <1>1 DEF Enqueued, ConsoleTypes, IntentKinds
<1>4. /\ sweeper' \in SweeperStates /\ sweeper'.at = sweeper.at
      /\ sweeper'.seen = sweeper.seen /\ sweeper'.calm = sweeper.calm \ {l}
      /\ sweeper.calm \subseteq Labs
  BY <1>1 DEF Enqueued, ConsoleTypes, SweeperStates
<1>5. UNCHANGED <<lab, running, ttys, dying, worker, missed>>  BY <1>1 DEF Enqueued
<1>6. CalmSpared'  BY <1>3, <1>4, <1>5 DEF CalmSpared
<1>7. \A m \in Labs : ttys'[m] \subseteq ttys[m] /\ Alive(m)' \subseteq Alive(m)
  BY <1>5 DEF Alive
<1>8. /\ \A m \in Labs : intent[m] # "none" => intent'[m] = intent[m]
      /\ running' \subseteq running /\ ttys' \in [Labs -> SUBSET Ports] /\ dying' \subseteq Ports
  BY <1>3, <1>5 DEF ConsoleTypes
<1> QED  BY <1>2, <1>3, <1>4, <1>5, <1>6, <1>7, <1>8, Elsewhere

LEMMA ConsolesStep ==
  ASSUME ConsolesInv, [ConsolesNext]_consoleVars
  PROVE  ConsolesInv'
<1>1. CASE UNCHANGED consoleVars
  <2>1. UNCHANGED <<lab, intent, running, ttys, dying, worker, sweeper, missed, left>>
    BY <1>1 DEF consoleVars
  <2>2. ConsoleTypes' /\ PortsApart' /\ OneAlive' /\ SeenInTime' /\ Emptied'
    BY <2>1 DEF ConsolesInv, ConsoleTypes, PortsApart, OneAlive, SeenInTime, Emptied, Alive
  <2>3. InHand' /\ Removed' /\ RunningKept' /\ CalmSpared'
    BY <2>1 DEF ConsolesInv, InHand, Removed, RunningKept, Kept, CalmSpared
  <2> QED  BY <2>2, <2>3 DEF ConsolesInv
<1>2. CASE WorkerStep
  BY <1>2, LoopInv, ScanConsolesInv, PassOverInv, RecoverInv, CommitRecoveryInv, TakeUpInv,
     CallEngineInv, StopConsolesInv, StartConsoleInv, SettleInv DEF WorkerStep
<1>3. CASE ConsolesNext
  BY <1>2, <1>3, LoopInv, SweeperInv, HostInv, RequestInv DEF ConsolesNext
<1> QED  BY <1>1, <1>3

LEMMA ConsolesKeep ==
  ASSUME ConsolesInv
  PROVE  ConsolesTypeOK /\ ConsolesKept
<1>1. ConsolesTypeOK  BY DEF ConsolesInv, ConsoleTypes, PortsApart, ConsolesTypeOK
<1>2. ASSUME NEW l \in Labs \ missed PROVE Cardinality(Alive(l)) <= 1
  <2>1. \A p, q \in Alive(l) : p = q  BY DEF ConsolesInv, OneAlive
  <2>2. Alive(l) = {} \/ \E p \in Alive(l) : Alive(l) = {p}  BY <2>1
  <2>3. CASE Alive(l) = {}
    <3>1. Cardinality(Alive(l)) = 0  BY <2>3, FS_EmptySet
    <3> QED  BY <3>1
  <2>4. ASSUME NEW p \in Alive(l), Alive(l) = {p} PROVE Cardinality(Alive(l)) <= 1
    <3>1. Cardinality(Alive(l)) = 1  BY <2>4, FS_Singleton
    <3> QED  BY <3>1
  <2> QED  BY <2>2, <2>3, <2>4
<1> QED  BY <1>1, <1>2 DEF ConsolesInv, CalmSpared, ConsolesKept

\* The inductive invariant of the consoles.
THEOREM ConsolesInvariance == ConsolesSpec => []ConsolesInv
  BY ConsolesStart, ConsolesStep, PTL DEF ConsolesSpec

\* The consoles keep their types, and a port has one of them (start_console).
THEOREM ConsolesTypeCorrect == ConsolesSpec => []ConsolesTypeOK
  BY ConsolesInvariance, ConsolesKeep, PTL

\* Starting what is missing never doubles a console, and the sweep is never about
\* to kill one of a lab that runs, whatever faults the host has and however often
\* (recover_missing_consoles, sweep_orphan_consoles).
THEOREM ConsolesAlwaysKept == ConsolesSpec => []ConsolesKept
  BY ConsolesInvariance, ConsolesKeep, PTL

-----------------------------------------------------------------------------
(* The three components side by side, as the runs have them.               *)

AllInv == CallInv /\ ConsolesInv /\ UseInv

LEMMA AllStep ==
  ASSUME AllInv, [HostNext]_<<callVars, consoleVars, useVars, scene>>
  PROVE  AllInv'
<1>1. [CallNext]_callVars /\ [ConsolesNext]_consoleVars /\ [UseNext]_useVars  BY DEF HostNext
<1> QED  BY <1>1, CallStep, ConsolesStep, UseStep DEF AllInv

\* The three invariants together: a step of the composition is a step of each
\* component or leaves it alone.
THEOREM HostInvariance == HostSpec => []AllInv
<1>1. HostInit => AllInv  BY CallStart, ConsolesStart, UseStart DEF HostInit, AllInv
<1> QED  BY <1>1, AllStep, PTL DEF HostSpec

\* All three keep their types.
THEOREM HostTypeCorrect == HostSpec => []HostTypeOK
<1>1. AllInv => HostTypeOK
  BY ConsolesKeep DEF AllInv, CallInv, UseInv, UseTypes, UseTypeOK, HostTypeOK
<1> QED  BY <1>1, HostInvariance, PTL

\* And with them what the runs check of each: groups end, consoles are kept, only
\* idle labs are reaped.
THEOREM HostSafe == HostSpec => [](CallTornDown /\ ConsolesKept /\ ReapedWasIdle)
<1>1. AllInv => CallTornDown /\ ConsolesKept /\ ReapedWasIdle
  BY ConsolesKeep DEF AllInv, CallInv, UseInv
<1> QED  BY <1>1, HostInvariance, PTL
=============================================================================
