------------------------------- MODULE Learning -------------------------------
(***************************************************************************)
(* One learner on one course: attempts, scores, the completion record with *)
(* its certificate, and the hourly projection of progress to ERP.          *)
(*                                                                         *)
(* Several transactions write scores at once: the learner's submissions    *)
(* (serialised by a lock on the person row), a lab check settled by the    *)
(* worker, an instructor's override (neither takes that lock).  Each then  *)
(* recomputes the completion record under that record's row lock, reading  *)
(* what is committed by then and its own rows.                             *)
(*                                                                         *)
(* Simplified: a score is passing or not (the best of an activity's scores *)
(* is passing as soon as one is); questions and answers are left out;      *)
(* activities are only ever added to the course; an import that changes a  *)
(* pass threshold, which grades no score anew, is left out.                *)
(***************************************************************************)
EXTENDS Naturals, FiniteSets

CONSTANTS
  Activities,    \* activities the course may get
  AtStart,       \* those published at the start
  Pools,         \* auto-graded activities that draw a paper per attempt
  Manuals,       \* activities an instructor grades
  Labs,          \* labs, graded by the worker
  Writers,       \* transactions in flight at once
  MaxAttempts,   \* max_attempts of every activity
  MaxGrants,     \* bound: extra attempts granted, on one activity
  MaxChecks      \* bound: lab checks run

ASSUME ActivitiesAssumption ==
  /\ IsFiniteSet(Activities) /\ AtStart \subseteq Activities /\ AtStart # {}
  /\ Pools \cup Manuals \cup Labs \subseteq Activities
  /\ Manuals \cap (Pools \cup Labs) = {} /\ Pools \cap Labs = {}
ASSUME LimitsAssumption == MaxAttempts \in Nat /\ MaxGrants \in Nat /\ MaxChecks \in Nat

VARIABLES
  published,  \* activities of the course
  grants,     \* [Activities -> extra attempts granted]
  open,       \* pools with an open attempt
  subs,       \* [Activities -> submissions]
  passed,     \* activities with a passing score
  rec,        \* the completion record
  cert,       \* the certificate exists
  tx,         \* [Writers -> the open transaction]
  synced,     \* erp_synced_pct and the checkpoint's erp_synced_at
  push,       \* the sweep's request to ERP
  erp         \* the shares ERP has accepted

learner == <<published, grants, open, subs, passed, rec, cert, tx>>
projection == <<synced, push, erp>>
vars == <<learner, projection>>

\* Progress as counted by a recomputation: passed of total; 0 of 0 is none.
Progress == (0 .. Cardinality(Activities)) \X (0 .. Cardinality(Activities))
SameShare(p, q) == p[2] > 0 /\ q[2] > 0 /\ p[1] * q[2] = q[1] * p[2]
Nothing == <<0, 0>>
Complete(p) == p[2] > 0 /\ p[1] = p[2]

Record == [passed : SUBSET Activities, total : Nat, stamped : BOOLEAN]
Share(r) == <<Cardinality(r.passed), r.total>>
NoRecord == [passed |-> {}, total |-> 0, stamped |-> FALSE]

Kinds == {"submit", "check", "override"}
Idle == [at |-> "idle"]
Transaction == {Idle} \cup
  [at : {"scored", "counted"}, kind : Kinds, act : Activities, pass : BOOLEAN,
   rec : Record, cert : BOOLEAN]

Quiet == [at |-> "quiet"]
Push == {Quiet} \cup [at : {"reading", "answered"}, read : Progress, ok : BOOLEAN]

-----------------------------------------------------------------------------
(* Row locks, held to the end of the transaction.                          *)

\* Mutant: a submission does not lock the learner.
LearnerFree_NoLock == TRUE

\* The person row: taken by submissions and by the page that opens an attempt.
LearnerFree == \A w \in Writers : ~(tx[w] # Idle /\ tx[w].kind = "submit")

\* Mutant: the completion record is read without a lock.
RecordFree_NoLock == TRUE

\* The completion record: taken before scores are read.
RecordFree == \A w \in Writers : tx[w].at # "counted"

-----------------------------------------------------------------------------
(* Attempts.                                                               *)

\* Mutant: the last attempt does not exhaust.
Exhausted_OffByOne(a, used) == used > MaxAttempts + grants[a]

Exhausted(a, used) == used >= MaxAttempts + grants[a]

Paperless(a) == a \in Pools \ open

\* A paper is drawn and kept for the attempt.
Drawn(a) == open \cup {a}

\* The activity page fixes a paper, whatever attempts are left.
OpenAttempt(a) ==
  /\ Paperless(a) /\ a \in published /\ LearnerFree
  /\ open' = Drawn(a)
  /\ UNCHANGED <<published, grants, subs, passed, rec, cert, tx, projection>>

Granted(a) == [grants EXCEPT ![a] = @ + 1]

\* An instructor gives one learner more attempts.
Grant(a) ==
  /\ a \in published \ Labs /\ grants[a] < MaxGrants
  /\ \A b \in Activities \ {a} : grants[b] = 0
  /\ grants' = Granted(a)
  /\ UNCHANGED <<published, open, subs, passed, rec, cert, tx, projection>>

\* An import or the catalogue adds an activity; nothing is recomputed.
Publish(a) ==
  /\ a \notin published
  /\ published' = published \cup {a}
  /\ UNCHANGED <<grants, open, subs, passed, rec, cert, tx, projection>>

-----------------------------------------------------------------------------
(* Transactions that write a score.                                        *)

Begin(w, kind, a, pass) ==
  tx' = [tx EXCEPT ![w] = [at |-> "scored", kind |-> kind, act |-> a, pass |-> pass,
                           rec |-> NoRecord, cert |-> FALSE]]

\* A submission: without an open paper it grades no questions, and fails.
\* Manual work is queued without a score.
Submit(w, a, pass) ==
  /\ tx[w] = Idle /\ LearnerFree
  /\ a \in published \ Labs /\ ~Exhausted(a, subs[a])
  /\ Paperless(a) => ~pass
  /\ a \in Manuals => ~pass
  /\ Begin(w, "submit", a, pass)
  /\ UNCHANGED <<published, grants, open, subs, passed, rec, cert, projection>>

\* The worker settles a lab check; labs have no attempt limit here.
GradeLab(w, a, pass) ==
  /\ tx[w] = Idle /\ a \in Labs \cap published /\ subs[a] < MaxChecks
  /\ \A o \in Writers : ~(tx[o] # Idle /\ tx[o].kind = "check")
  /\ Begin(w, "check", a, pass)
  /\ UNCHANGED <<published, grants, open, subs, passed, rec, cert, projection>>

\* An instructor scores a submission anew.
Override(w, a, pass) ==
  /\ tx[w] = Idle /\ subs[a] > 0
  /\ Begin(w, "override", a, pass)
  /\ UNCHANGED <<published, grants, open, subs, passed, rec, cert, projection>>

Scored(w) == tx[w].kind = "override" \/ tx[w].act \notin Manuals

\* A submission closes the attempt it was made in.
Closed(w, a) == IF tx[w].kind = "submit" THEN open \ {a} ELSE open

Own(w) == IF tx[w].pass THEN {tx[w].act} ELSE {}

\* Mutant: the certificate is left to the completion email.
Issued_ByEmail(done, stamped) == cert

\* The first completion issues the certificate; so does a later one.
Issued(done, stamped) == cert \/ (done /\ ~stamped)

\* recompute_completion: under the record's lock, count what is committed.
Recompute(w) ==
  /\ tx[w].at = "scored" /\ Scored(w) /\ RecordFree
  /\ LET best == passed \cup Own(w)
         done == best = published
     IN tx' = [tx EXCEPT ![w].at = "counted",
                         ![w].rec = [passed |-> best, total |-> Cardinality(published),
                                     stamped |-> done],
                         ![w].cert = Issued(done, rec.stamped)]
  /\ UNCHANGED <<published, grants, open, subs, passed, rec, cert, projection>>

\* reveal_feedback as the submit handler calls it, with the submissions used
\* but without the grants.
Reveals(a, used, pass) == pass \/ used >= MaxAttempts

\* Commit.
Commit(w) ==
  /\ \/ tx[w].at = "counted"
     \/ tx[w].at = "scored" /\ ~Scored(w)
  /\ LET a == tx[w].act
         new == tx[w].kind # "override"
     IN /\ subs' = [subs EXCEPT ![a] = @ + IF new THEN 1 ELSE 0]
        /\ open' = Closed(w, a)
  /\ passed' = passed \cup Own(w)
  /\ IF tx[w].at = "counted" THEN rec' = tx[w].rec /\ cert' = tx[w].cert
                             ELSE UNCHANGED <<rec, cert>>
  /\ tx' = [tx EXCEPT ![w] = Idle]
  /\ UNCHANGED <<published, grants, projection>>

\* The process dies or the database refuses: nothing is kept.
Abort(w) ==
  /\ tx[w] # Idle
  /\ tx' = [tx EXCEPT ![w] = Idle]
  /\ UNCHANGED <<published, grants, open, subs, passed, rec, cert, projection>>

-----------------------------------------------------------------------------
(* The hourly projection to ERP.                                           *)

\* The checkpoint, which is locked, says that ERP has this completion.
Checkpointed == rec.stamped /\ synced.stamp

\* The sweep picks a record whose share differs from the marker.  A course ERP
\* has accepted as complete, complete again, only moves the marker.
PushRead ==
  /\ push = Quiet /\ rec # NoRecord /\ ~SameShare(Share(rec), synced.share)
  /\ push' = [at |-> IF Checkpointed THEN "answered" ELSE "reading",
              read |-> Share(rec), ok |-> TRUE]
  /\ UNCHANGED <<learner, synced, erp>>

\* Only an explicit acknowledgement counts as a delivery.
Outcome(taken, heard) == taken /\ heard

\* ERP takes the snapshot and says so, the answer is lost, or ERP takes nothing.
PushSend ==
  /\ push.at = "reading"
  /\ \E taken \in BOOLEAN, heard \in BOOLEAN :
       /\ erp' = IF taken THEN erp \cup {push.read} ELSE erp
       /\ push' = [push EXCEPT !.at = "answered", !.ok = Outcome(taken, heard)]
  /\ UNCHANGED <<learner, synced>>

\* Mutant: the marker takes the share of the record as it is now.
Marked_Reread == Share(rec)

\* The marker takes the share that was sent.
Marked == push.read

\* The sweep commits what ERP acknowledged.
PushCommit ==
  /\ push.at = "answered"
  /\ synced' = IF push.ok
               THEN [share |-> Marked, stamp |-> synced.stamp \/ Complete(push.read)]
               ELSE synced
  /\ push' = Quiet
  /\ UNCHANGED <<learner, erp>>

\* The sweep dies before its one commit.
PushCrash ==
  /\ push # Quiet
  /\ push' = Quiet
  /\ UNCHANGED <<learner, synced, erp>>

-----------------------------------------------------------------------------

Init ==
  /\ published = AtStart
  /\ grants = [a \in Activities |-> 0]
  /\ open = {} /\ passed = {}
  /\ subs = [a \in Activities |-> 0]
  /\ rec = NoRecord /\ cert = FALSE
  /\ tx = [w \in Writers |-> Idle]
  /\ synced = [share |-> Nothing, stamp |-> FALSE]
  /\ push = Quiet
  /\ erp = {}

Next ==
  \/ \E a \in Activities : OpenAttempt(a) \/ Grant(a) \/ Publish(a)
  \/ \E w \in Writers, a \in Activities, pass \in BOOLEAN :
       Submit(w, a, pass) \/ GradeLab(w, a, pass) \/ Override(w, a, pass)
  \/ \E w \in Writers : Recompute(w) \/ Commit(w) \/ Abort(w)
  \/ PushRead \/ PushSend \/ PushCommit \/ PushCrash

Spec == Init /\ [][Next]_vars

-----------------------------------------------------------------------------
(* Properties.                                                             *)

\* Every variable keeps its type; the person's and the record's row locks have
\* one holder each, whoever submits, checks or overrides.
TypeOK ==
  /\ published \subseteq Activities /\ passed \subseteq Activities
  /\ open \subseteq Pools
  /\ grants \in [Activities -> 0 .. MaxGrants]
  /\ \A a \in Activities : subs[a] \in 0 .. IF a \in Labs THEN MaxChecks
                                             ELSE MaxAttempts + MaxGrants
  /\ rec \in Record /\ cert \in BOOLEAN
  /\ tx \in [Writers -> Transaction]
  /\ synced \in [share : Progress, stamp : BOOLEAN]
  /\ push \in Push
  /\ erp \subseteq Progress
  /\ \A w, o \in Writers : tx[w].at = "counted" /\ tx[o].at = "counted" => w = o

\* A learner never has more attempts on an activity than its limit and the
\* grants allow, however many submissions arrive at once (submit_activity,
\* "enforced by this canonical writer").
AttemptsHeld == \A a \in Activities \ Labs : subs[a] <= MaxAttempts + grants[a]

\* The completion record counts every passing score that is committed: no
\* submission, check or override that recomputes at the same time is lost, and
\* a completed course has its certificate (recompute_completion).
CompletionExact ==
  /\ rec.passed = passed
  /\ rec.stamped <=> rec.total > 0 /\ Cardinality(rec.passed) = rec.total
  /\ rec.stamped => cert

\* What the marker and the checkpoint say ERP has, ERP has accepted, whatever
\* answers were lost and whatever the learner finished during the request
\* (push_completion: "an event ERP declined to record is not delivered").
ErpAccepted ==
  /\ synced.stamp => \E p \in erp : Complete(p)
  /\ synced.share # Nothing =>
       \/ synced.share \in erp
       \/ Complete(synced.share) /\ synced.stamp

\* Claimed by reveal_feedback, not kept by its caller: the answer key of a
\* failed activity is withheld while the learner has attempts left.
KeyWithheld ==
  [][\A w \in Writers :
       LET a == tx[w].act
       IN Commit(w) /\ tx[w].kind = "submit" /\ Scored(w) /\ ~tx[w].pass
            /\ Reveals(a, subs'[a], FALSE) => Exhausted(a, subs'[a])]_vars

=============================================================================
