------------------------------ MODULE EmailOutbox ------------------------------
(***************************************************************************)
(* The transactional email outbox: jobs that insert the intent to send a   *)
(* message into email_outbox, and workers that lock due rows, hand them to *)
(* SMTP and commit once for the whole batch.                               *)
(*                                                                         *)
(* The same message is asked for more than once: reports, digests and      *)
(* certificates run again, and the unique key makes all but one insert do  *)
(* nothing.  The timer's worker and one an operator starts run side by     *)
(* side.  What a worker did is in the database only after its commit; what *)
(* SMTP took is out at once.                                               *)
(*                                                                         *)
(* Simplified: a message is its idempotency key; the back-off time is a    *)
(* flag that time sets again; recipients, bodies and attachments are left  *)
(* out (an attachment that cannot be built counts as a refusal).           *)
(***************************************************************************)
EXTENDS Naturals, FiniteSets

CONSTANTS
  Messages,      \* idempotency keys
  Callers,       \* transactions that ask for messages
  Workers,       \* processes that may run email-outbox
  MaxAttempts,   \* SMTP attempts before a row is failed (8 in the source)
  MaxBatch,      \* rows one run delivers (100 in the source)
  Budget         \* [Acts -> how often each may happen]

Acts == {"crash", "unclear", "requeue", "rollback"}

ASSUME BudgetAssumption == Budget \in [Acts -> Nat]
ASSUME LimitsAssumption == MaxAttempts \in Nat \ {0} /\ MaxBatch \in Nat \ {0}

VARIABLES
  rows,      \* email_outbox as committed: [Messages -> row]
  caller,    \* [Callers -> what its open transaction inserted and reports]
  queued,    \* sum of the counts the committed callers reported as queued
  worker,    \* [Workers -> its open transaction]
  copies,    \* [Messages -> copies SMTP has accepted]
  budget     \* what is left of Budget

vars == <<rows, caller, queued, worker, copies, budget>>

-----------------------------------------------------------------------------
(* Rows.                                                                   *)

RowStatus == {"none", "pending", "sent", "failed"}
Row == [status : RowStatus, tries : 0 .. MaxAttempts, due : BOOLEAN]
NoRow == [status |-> "none", tries |-> 0, due |-> FALSE]
Fresh == [status |-> "pending", tries |-> 0, due |-> TRUE]

Spend(a) == budget[a] > 0 /\ budget' = [budget EXCEPT ![a] = @ - 1]

-----------------------------------------------------------------------------
(* enqueue_email in the caller's transaction.                              *)

NoAsk == [asked |-> FALSE, new |-> {}, count |-> 0]

\* Mutant: every call reports a queued message.
Created_Always(m) == TRUE

\* The insert returns a row only when it made one.
Created(m) == rows[m].status = "none"

\* The insert waits while another open transaction has inserted the key.
EnqueueEmail(c, m) ==
  /\ m \notin UNION {caller[d].new : d \in Callers}
  /\ ~caller[c].asked
  /\ caller' = [caller EXCEPT ![c] =
       [asked |-> TRUE,
        new |-> IF rows[m].status = "none" THEN {m} ELSE {},
        count |-> IF Created(m) THEN 1 ELSE 0]]
  /\ UNCHANGED <<rows, queued, worker, copies, budget>>

CommitCaller(c) ==
  /\ caller[c].asked
  /\ rows' = [m \in Messages |-> IF m \in caller[c].new THEN Fresh ELSE rows[m]]
  /\ queued' = queued + caller[c].count
  /\ caller' = [caller EXCEPT ![c] = NoAsk]
  /\ UNCHANGED <<worker, copies, budget>>

\* The surrounding transaction fails: its message was never asked for.
RollBackCaller(c) ==
  /\ caller[c].asked /\ Spend("rollback")
  /\ caller' = [caller EXCEPT ![c] = NoAsk]
  /\ UNCHANGED <<rows, queued, worker, copies>>

-----------------------------------------------------------------------------
(* deliver_pending and requeue_failed, in one transaction per run.         *)

\* A run holds locks on some rows and has written, but not committed, row.
Idle == [pc |-> "idle", at |-> {}, sends |-> 0, held |-> {},
         row |-> [m \in Messages |-> NoRow]]

View(w, m) == IF m \in worker[w].held THEN worker[w].row[m] ELSE rows[m]

\* Mutant: SELECT without FOR UPDATE SKIP LOCKED.
Free_Unlocked(w, m) == TRUE

Free(w, m) == \A v \in Workers \ {w} : m \notin worker[v].held

Claimable(w, m) == Free(w, m) /\ View(w, m).status = "pending" /\ View(w, m).due

\* The next due row that no other run has locked.
Claim(w) ==
  /\ worker[w].pc \in {"idle", "open"} /\ worker[w].sends < MaxBatch
  /\ \E m \in Messages :
       /\ Claimable(w, m)
       /\ worker' = [worker EXCEPT ![w].pc = "sending", ![w].at = {m},
                                   ![w].sends = @ + 1, ![w].held = @ \cup {m},
                                   ![w].row[m] = View(w, m)]
  /\ UNCHANGED <<rows, caller, queued, copies, budget>>

Settled(w, m, row) ==
  worker' = [worker EXCEPT ![w].pc = "open", ![w].at = {}, ![w].row[m] = row]

\* Mutant: the limit is compared one attempt late.
Refused_OffByOne(row) ==
  [row EXCEPT !.tries = @ + 1, !.due = FALSE,
              !.status = IF row.tries + 1 > MaxAttempts THEN "failed" ELSE "pending"]

\* Mutant: a refused attempt is not counted.
Refused_Uncounted(row) == [row EXCEPT !.due = FALSE]

\* A refusal counts; the last attempt fails the row, any other delays it.
Refused(row) ==
  [row EXCEPT !.tries = @ + 1, !.due = FALSE,
              !.status = IF row.tries + 1 >= MaxAttempts THEN "failed" ELSE "pending"]

SmtpAccepts(w) ==
  /\ worker[w].pc = "sending"
  /\ \E m \in worker[w].at :
       /\ copies' = [copies EXCEPT ![m] = @ + 1]
       /\ Settled(w, m, [worker[w].row[m] EXCEPT !.status = "sent", !.tries = @ + 1])
  /\ UNCHANGED <<rows, caller, queued, budget>>

\* SMTP is down or says no, or the attachment cannot be built.
SmtpRefuses(w) ==
  /\ worker[w].pc = "sending"
  /\ \E m \in worker[w].at : Settled(w, m, Refused(worker[w].row[m]))
  /\ UNCHANGED <<rows, caller, queued, copies, budget>>

\* SMTP takes the message and its reply is lost: the attempt counts as refused.
SmtpUnclear(w) ==
  /\ worker[w].pc = "sending" /\ Spend("unclear")
  /\ \E m \in worker[w].at :
       /\ copies' = [copies EXCEPT ![m] = @ + 1]
       /\ Settled(w, m, Refused(worker[w].row[m]))
  /\ UNCHANGED <<rows, caller, queued>>

\* The run ends when no row is due and free, or at the limit.
CommitRun(w) ==
  /\ worker[w].pc = "open"
  /\ worker[w].sends = MaxBatch \/ \A m \in Messages : ~Claimable(w, m)
  /\ rows' = [m \in Messages |-> View(w, m)]
  /\ worker' = [worker EXCEPT ![w] = Idle]
  /\ UNCHANGED <<caller, queued, copies, budget>>

\* The process dies: the database forgets the batch, SMTP does not.
CrashRun(w) ==
  /\ worker[w].pc # "idle" /\ Spend("crash")
  /\ worker' = [worker EXCEPT ![w] = Idle]
  /\ UNCHANGED <<rows, caller, queued, copies>>

Failed == {m \in Messages : rows[m].status = "failed"}

\* --requeue-failed: the run starts by taking every failed row back, after
\* waiting for the runs that hold one.
RequeueFailed(w) ==
  /\ worker[w].pc = "idle" /\ Failed # {}
  /\ \A m \in Failed : Free(w, m)
  /\ Spend("requeue")
  /\ worker' = [worker EXCEPT ![w].pc = "open", ![w].held = Failed,
                              ![w].row = [m \in Messages |-> IF m \in Failed THEN Fresh ELSE NoRow]]
  /\ UNCHANGED <<rows, caller, queued, copies>>

\* The back-off delay of a row passes.
BackoffEnds(m) ==
  /\ rows[m].status = "pending" /\ ~rows[m].due
  /\ \A w \in Workers : Free(w, m)
  /\ rows' = [rows EXCEPT ![m].due = TRUE]
  /\ UNCHANGED <<caller, queued, worker, copies, budget>>

-----------------------------------------------------------------------------
Init ==
  /\ rows = [m \in Messages |-> NoRow]
  /\ caller = [c \in Callers |-> NoAsk] /\ queued = 0
  /\ worker = [w \in Workers |-> Idle]
  /\ copies = [m \in Messages |-> 0]
  /\ budget = Budget

Run(w) == Claim(w) \/ SmtpAccepts(w) \/ SmtpRefuses(w) \/ CommitRun(w)

\* A job that asks for a message, and commits or gives up.
Job(c) == (\E m \in Messages : EnqueueEmail(c, m)) \/ CommitCaller(c) \/ RollBackCaller(c)

Next ==
  \/ \E w \in Workers : Run(w) \/ SmtpUnclear(w) \/ CrashRun(w) \/ RequeueFailed(w)
  \/ \E c \in Callers : Job(c)
  \/ \E m \in Messages : BackoffEnds(m)

\* The timer starts a worker every minute, a run goes on, and time passes.
Fairness ==
  /\ \A w \in Workers : WF_vars(Run(w))
  /\ \A m \in Messages : WF_vars(BackoffEnds(m))

Spec == Init /\ [][Next]_vars
FairSpec == Spec /\ Fairness

-----------------------------------------------------------------------------
(* Properties.                                                             *)

\* The counts that jobs report add up to the messages there are, however the
\* jobs repeat and race (enqueue_email's answer).
QueuedIsCounted == queued = Cardinality({m \in Messages : rows[m].status # "none"})

\* Every variable has its type; the jobs' counts add up; a row that may still
\* be tried is below the limit, and an idle run holds nothing (EmailOutbox).
TypeOK ==
  /\ rows \in [Messages -> Row]
  /\ caller \in [Callers -> [asked : BOOLEAN, new : SUBSET Messages, count : Nat]]
  /\ queued \in Nat
  /\ worker \in [Workers -> [pc : {"idle", "open", "sending"}, at : SUBSET Messages,
                              sends : 0 .. MaxBatch, held : SUBSET Messages,
                              row : [Messages -> Row]]]
  /\ copies \in [Messages -> Nat]
  /\ budget \in [Acts -> Nat]
  /\ QueuedIsCounted
  /\ \A m \in Messages : rows[m].status = "pending" => rows[m].tries < MaxAttempts
  /\ \A w \in Workers : worker[w].pc = "idle" => worker[w].held = {}

\* The outbox keeps the contract of MailContract: nothing settles unsent, and
\* a second copy needs a worker crash or a lost reply (deliver_pending).
Mailbox == INSTANCE MailContract WITH
  intent <- [m \in Messages |-> rows[m].status],
  faults <- (Budget["crash"] - budget["crash"]) + (Budget["unclear"] - budget["unclear"])

ImplementsMailbox == Mailbox!Spec

\* A message once asked for is sent or given up: a batch another run holds, a
\* crash or a refusal only delays it (deliver_pending with its timer).
MailSettles ==
  \A m \in Messages : rows[m].status = "pending" ~> rows[m].status \in {"sent", "failed"}
=============================================================================
