# Dotmac Academy: TLA+ specifications and proofs

Dotmac Academy is a multi-tenant learning platform (FastAPI, PostgreSQL, a lab
host running containerlab). The difficult part of the program is not its pages
but the work that several processes do on the same rows: a lab worker, a
reconciler on a timer and web requests share lab instances; applicants,
administrators and an ERP share applications; submissions, lab checks, sweeps and
sign-ins meet on scores, reminders and credentials. This directory models those parts
in TLA+, checks small instances with TLC and proves the invariants of all parts with TLAPS
for every value of the constants.

Run everything inside this directory: `tlc -workers 2 -config <run>.cfg <module>`
and `tlapm <module>Proofs.tla`.

## 1. Inventory

| Component | State | Operations | What is hard |
|---|---|---|---|
| Lab operation queue and worker (`services/lab_operations.py`, `cli.py lab-worker`) | `lab_operations` rows: state, kind, origin, claim, attempts, retry time | enqueue, claim, heartbeat, admit, execute, settle, expire, reclaim, escalate | several commits per operation; the worker may die or stall between any two; its claim may be taken back |
| Lab lifecycle and engine (`lab_lifecycle.py`, `labengine/`) | `lab_instances` rows: status, error, presence, consoles; containers on the host | provision, destroy, and both made conditional on what really runs | an engine call can fail after it changed the host |
| Reconciler and reaper (`lab_jobs.py`, timers) | one pass: an inventory and the plan made from it | recover claims, destroy orphans, enqueue repairs; ask to reap idle labs | the inventory is older than the rows it is compared with |
| Host locks (`host_lock.py`) | two `flock` files | worker singleton; one engine call at a time | overlap of an old and a new worker; contention |
| Lab pages (`web/labs.py`) | none | launch, reset, check | guards are read without a lock before the enqueue |
| Admissions and onboarding (`admissions.py`, `entrance_exam.py`, `onboarding.py`, `web/apply.py`, `web/onboarding.py`) | applicant row, onboarding tasks, person, enrolment | submit, sit, policy, review, invite, reset, confirm, enrol | row locks taken late or not at all; portal requests race with administrators |
| ERP assessment results (`erp_assessment_sync.py`, `erp_applicant_assessments.py`) | result version, sync stamp | register, push, recompute | a push answers for a version that has been replaced |
| Email outbox (`email_outbox.py`, `email.py`) | outbox rows: status, attempts, due time | enqueue once, claim, deliver, back off, requeue | SMTP and the database do not commit together; a run commits once for all its mails |
| Reminders (`reminders.py`, `web/reminders_admin.py`) | ledger rows per occurrence, preferences | detect, record, mail or hold, flush as a digest, resend | sweeps overlap; what a sweep read is old when it writes |
| Attempts, completion, certificates, ERP progress (`attempts.py`, `attempt_policy.py`, `assessment.py`, `completion.py`, `certificates.py`, `erp_sync.py`) | submissions, scores, completion record, certificate, sync marker | open, submit, check, override, grant, recompute, push | concurrent writers of scores on one record; an ERP answer that is lost |
| Accounts (`web_auth.py`, `lifecycle.py`, `account_invitations.py`) | credential with failure counter, sessions, single-use tokens | sign in, change, reset, invite, activate, suspend | requests in flight while the password or the invitation they rely on is replaced |
| Facilitators (`facilitator_nominations.py`, `facilitator_access.py`, migration 0064) | nominations with required courses | nominate, complete, activate, revoke, sweep | a nomination and a completion that commit without seeing each other |
| Success queue (`success_queue.py`) | entries of a learner | sweep: open, refresh, resolve; staff: acknowledge, resolve | staff and two sweeps decide from what they read before |
| Roster and tracks (`roster.py`, `account_invitations.py`, `tracks.py`, `web/instructor.py`) | enrolments with role, state and track; tracks, their courses, offerings | enrol in bulk, invite, change state, assign, curate | two requests write one row from what each read; offerings must follow every track |
| Entitlement, catalogue and authoring (`entitlements.py`, `catalog.py`, `content_import.py`, `authoring.py`, `learner_dashboard.py`, `web/learn.py`) | courses, chapters, prerequisites, reads, subtopics | import, write, delete; gate, list, resume | the same rows are judged by the routes, the cards and the home page, each with its own query; track order and prerequisites lock together |
| Scheduling and notices (`scheduling.py`, `agenda.py`, `todo.py`, `announcements.py`, `notifications.py`, `audience.py`) | sessions, delivery modes, announcements, notifications | schedule, cancel, announce, mark, list | four listings of one timetable |
| Lab consoles (`labengine/containerlab.py`, `lab_operations.py`, `lab_jobs.py`, `lab_console_activity.py`) | ttyd processes and ports, `lab_console_activity` rows | start, stop, recover, sweep; record use | the process table, the rows and the operations change under one another; the worker that runs a command may be told to stop |
| Everything else (reports, search, settings, roles, assets) | rows written by one actor at a time | create, read, update | little that a test does not reach |

Interactions: web requests and the reaper only *enqueue* lab operations; the
worker is the only process that executes them and the only one, besides the
reconciler's orphan sweep, that calls the container engine; the reconciler
enqueues conditional operations and records what it observed. The components
share the two lab tables and the host. An engine call holds the host lock for
its whole duration, database writes are committed separately.

What makes each part correct:

* queue: one open operation per instance, one holder per claim, a ceiling on
  attempts, no settlement from a holder that lost its claim, every operation ends;
* instance rows: no transient status without an operation behind it, consoles
  only for a lab that runs, `absent` only when proven, reaped means gone;
* capacity: never more labs than the cap;
* reconciler: destroys nothing that has a row, notices what is missing;
* sittings: answers belong to the sitting they are stored for, a result is final
  until a reset, the live link and the outcome reach the candidate;
* enrolment: never with an open step, never undone, never overtaken;
* result push: a version names one result, and every result arrives;
* email: nothing settles unsent, a second copy is paid for by a fault, every row ends;
* reminders: the ledger says what was mailed, what is held back is mailed, and a silent
  learner is not nudged without end;
* learning: no more attempts than allowed, every committed pass counted, and the
  marker says only what the ERP accepted;
* accounts: the lock-out is not outrun, a password change retires what was opened and
  issued under the old password, an invited person can activate;
* facilitators: teaching access is earned, and what is earned is given;
* success queue: one open entry at most, and entries come and go with their reason;
* roster: an instructor stays one, and a track's courses are offered;
* curriculum: what the cards and the home page promise, the routes open, and track order
  and prerequisites never lock a course that could be finished;
* timetable: what can be joined, is due or was announced stands on every page it belongs on;
* commands and consoles: no process outlives its call, a lab that is up has one
  console, at the port of its row, and a lab in use is not reaped.

`PROJECT.json` lists every component with its status, and every hazard at its line.

## 2. Plan

1. `LabOperations`: queue, worker, reconciler, web requests and engine in one
   module, because every hazard is between them. `LeaseQueue`: what a lease
   queue promises, implemented by it. (done)
2. `LabOperationsProofs`: type correctness, attempt ceiling, one holder, fenced
   settlement, truthful rows, only orphans destroyed, and the refinement of
   `LeaseQueue`. (done)
3. `Admissions`: applicant, sitting, onboarding tasks, enrolment; `ErpResults`:
   the ERP's registrations, the push and the re-banding on the same row. (done)
   `AdmissionsProofs`, about both: types and every safety property. (done)
4. `EmailOutbox`, implementing `MailContract`; `Reminders`, which fills it. (done)
5. `Learning`, `Accounts`, `Facilitators`, `SuccessQueue`. (done)
6. `Roster`, `Curriculum`, `Classroom`: the learner's week. `ContainedCall`, `Consoles`,
   `ConsoleUse`: what keeps a learner connected to a lab. (done)
7. Proofs for 4 to 6: `EmailOutboxProofs` with the refinement of `MailContract`,
   `RemindersProofs`, `LearningProofs`, `AccountsProofs`, `UpkeepProofs`, `ClassroomProofs`. (done)
8. `CapacityHeld` where it holds: one incarnation of the worker, no resets. (done)
9. Next: what a stall leaves of the truth of lab rows.

## 3. The lab modules

### `LabOperations`

A step is one database transaction or one engine call, so every point where a
process can be overtaken or killed is a state.

| Variable | Code |
|---|---|
| `row[i]` | the `lab_instances` row: `status`, whether `error` is set, `runtime_presence`, whether `consoles` is filled. `none`: not launched yet; `deleted`: gone with its tenant |
| `op[i]` | the newest `lab_operations` row of the instance. Older rows matter only through the failure window, kept in `fails[i]`. Identities are recycled out of three: only equality with what a worker remembers matters |
| `runtime[i]` | whether the lab really runs on the host |
| `wk[w]` | one incarnation of the worker process: program counter in `run_claimed`, what it remembers of its operation, the row it saw on entry (`was`), its uncommitted view (`mem`), and how the work ended |
| `rec` | a pass of `lab-reconcile` |
| `intents` | requests that read their guard and have not enqueued yet |
| `budget` | faults the environment may still inject |

Actions by part:

* worker process: `StartWorker` (singleton lock, `reclaim_previous_epoch`),
  `PollStuck` (`reconcile_stuck`), `Claim`, `EndDrain`, `CrashWorker` (at every
  step), `Stale` (a heartbeat that finds the claim gone);
* execution: `BeginWork`, `Reserve`, `DeferForCapacity`, `ConfirmReservation`,
  `KillOld`, `AfterDestroy`, `Provision`, `ProvisionIfAbsent`, `Confirm`,
  `Resync`, `DestroyLab`, `DestroyIfPresent`, `RunChecks`, `LockBusy`: the engine
  calls end well, fail with their effect, or fail without it;
* settlement: `SettleOk`, `SettleFailed`, `SettleDeferred`;
* reconciler: `RecStuck`, `RecInventory`, `RecPlan`, `RecDestroyOrphan`,
  `RecQueue`, `RecStall`, `RecAbandon`;
* requests: `Launch` (one step: it holds an advisory lock on the learner's
  stream), `ReadRequest` and `EnqueueRequest` for reset, check and reap;
* environment: `LoseRuntime`, `EraseRow`, `RetryDelayOver`.

A settlement writes only the attributes that differ from what the session
loaded (`Written`), as SQLAlchemy does; this is what makes a stale reservation
harmless in some interleavings and visible in others.

Abstracted: topology text, ports, error wording, submissions and scores written
by a check, clock values. A lease is not a number: it lapses when its holder is
dead, or when the environment spends a `stall`.

### `LeaseQueue`

The abstract queue: `Submit`, `Take`, `Return`, `Finish`, `Withdraw` on one slot
per item, with `Exclusive` (a holder holds one job). `ImplementsLeaseQueue` maps
the operation row onto the slot.

### `MCLabOperations`

Constants for TLC: one or two instances, one or two worker incarnations, fault
budgets, attempt ceilings of 2.

## 4. Runs of the lab modules

| Run | Instance | Shows |
|---|---|---|
| `lab_faults` | 1 lab, 2 worker incarnations, one each of: lost runtime, contention, erased tenant, learner request | `TypeOK`, `RowTruthful` (that is `LabReallyUp`, `NoStrandedRow`, `ReapedIsGone`, `AbsentIsProven`), `OnlyOrphansDestroyed`, `ImplementsLeaseQueue` |
| `lab_live` | 1 lab, 2 incarnations, one stall (of a live claim, or of a pass) and either a lost runtime or a learner request, one attempt at destroys and checks, fairness | `ClaimsSound` (that is `OneHolder`, `AttemptsBounded`), `FencedSettlement`, `LabSettles` (that is `IntentsEnd`, `PhantomEnds`, `TransientEnds`: operations, phantom labs and transient statuses all end) |
| `lab_capacity` | 2 labs for 1 slot, 1 incarnation, one contention | `CapacityHeld` |

Bounds and why they suffice. A lab interacts with another only through capacity
and through the worker's attention, so one lab is enough for everything but
`CapacityHeld`, which needs two for one slot. Two incarnations give one crash and
one take-over; a third repeats the second. A ceiling of 2 keeps every path
to a ceiling and to an escalation (the code's 3 and 5 only lengthen it). A behaviour
starts with one of `Budgets`, the combinations of faults it may meet.
Every fault happens at most once in a run, at any step. Deadlock checking is off
because the system may stop: after the last incarnation has nothing to do and
every budget is spent, only the idle poll remains, and with no incarnation up
nothing does.

### Fairness

`FairSpec` adds weak fairness of the worker's steps taken together, of the
reconciler's steps taken together, and of every enqueue whose guard was read.
The code's scheduling justifies them: `academy-lab-worker.service` has
`Restart=always` (so the last incarnation in a run never crashes: a process that
crashes for ever would prove nothing), `academy-lab-reconcile.timer` starts a
pass every minute, and an enqueue follows its guard in the same request.
Launches, new requests, faults and lock contention are never owed. No fairness
is assumed of the *outcome* of an engine call: it may fail every time.

## 5. The admissions modules

### `Admissions`

One applicant, from the application to the enrolment. Two applicants share no row
but the cohort's, and nothing counts applicants, so one is enough.

| Variable | Code |
|---|---|
| `app` | the `applicants` row: status, whether a cohort is assigned (`placed`), whether the ERP registered it, whether a portal link was minted, whether it is linked to a person |
| `intake` | whether the assigned cohort, its track and their pairing are all active |
| `sit` | the `assessment_*` columns: the live token, fresh / started / taken, past the deadline, the sitting the stored draft came from, result, level, resets, result version, the sync stamp (set or not) |
| `pages` | question pages open in browsers, each with the token it posts to and the sitting its questions are from |
| `known` | tokens that reached the candidate by mail, or are returned to the ERP |
| `heard`, `told` | what the last submission answered; the idempotency keys of the outcome emails queued |
| `tasks` | the three `onboarding_tasks` |
| `acct` | the person with the applicant's email, credential, enrolment, the newest invite token, and the invite links that were mailed |
| `req[r]` | a portal or enrol request: what it read, and whether its own step is flushed |
| `cli` | an `invite-applicants` run that has selected this applicant |
| `budget` | how often each kind of act may still happen |

A token is a pair: a random one is the number of its mint, so two mints never
agree; the derived one of the ERP is the reset counter it is computed from, so
two registrations of one sitting do agree.

A handler that takes the applicant row `FOR UPDATE` is one step. Three do not,
and are cut where another transaction can come between:

* a portal step: `PortalRead` (row read by token, unlocked), `PortalMark` (the
  task is flushed and thereby locked, the checklist is read from what others have
  committed), `PortalSaves` or `PortalEnrols` (the rest and the commit, deciding on
  the row of the first step, which the session does not refresh);
* the enrol endpoint: `EnrollRead`, `EnrollCommits`;
* the `invite-applicants` command: `CliSelect`, `CliInvite`.

The other actions by part: invitations (`Apply`, `ReApply`, `Reinvite`,
`ExtendAccess`, `Reset`), pipeline (`Move` with the `Allowed` table, `Accept`,
`AssignIntake`, `CloseIntake`), sitting (`DeadlinePasses`, `Start`, `OpenPage`,
`Autosave`, `SubmitGraded` with the policy's consequence and the outcome email in
the same transaction, `SubmitFails`, `SubmitRefused`), enrolment (`SetTask`,
`AcceptInvite`, `RequestFails`).

### `ErpResults`

Extends the same state by `url` (the token the ERP was given), `sync` (the
`erp-training-sync` process and the payload it has sent), `band` (the
`recompute-entrance-levels` process and the row it has read), `erp` (the result the
ERP keeps) and `lost`. The push is `SyncLoad`, then `ErpAccepts`, then `SyncStamp`;
`SyncLost` may take the place of either of the last two, with or without the ERP having
recorded the event. The re-banding is `BandLoad`, `BandWrite`: a write changes only
the columns whose value differs from what was *read*, which is why the marker may
survive it. The ERP is outside the repository: `Kept` (greatest version wins,
duplicates are acknowledged) is what its contract document and the code's
treatment of its answers say.

### Runs

| Run | Instance | Shows |
|---|---|---|
| `adm_enrolment` | two overlapping requests (interchangeable, hence symmetry), three transitions, a closed intake, a task set and a task reopened by an administrator; or a repeated application, an invitation by hand or by the command, a reset and a missed deadline | `EnrolmentSound` (that is `EnrolmentStands`, `ChecklistGates`, `OnboardingReachable`) |
| `erp_delivery` | either a repeated application, a mailed invitation, two resets and a missed deadline, or two registrations, a reset and a re-banding; every page ever opened still open; the push throughout, with two lost deliveries; fairness | `ErpTypeOK` (with the types of `Admissions`), `VersionIsSitting` (`NoOldAnswers`, and `SameVersionSameResult` for applicants of the ERP), `CandidateTold` (the live link was mailed, and every sitting has its outcome mail), `ResultStands`, `ErpGetsResult` |

Bounds and why they suffice. Two requests show every order of one read-then-write
against another; there are two portal steps, so a third request repeats one of
them. One or two resets suffice for TLC, since a page can only tell "this sitting" from
"an earlier one"; that no number of resets, requests or acts matters is what the
theorems of section 14 add. Two lost deliveries allow a loss before and after a
re-banding or a reset. `SameVersionSameResult` and `ErpGetsResult` except what
`CorrectionsNumbered` and `SyncedMeansDelivered` (section 13) show to be lost, and nothing else. Deadlock checking is off: when the budgets are spent and the applicant is
enrolled or rejected nothing is left to happen.

Fairness. `FairErpSpec` adds weak fairness of the three steps of the push:
`academy-erp-training-sync.timer` starts a sweep every hour for as long as the host
runs, and the HTTP client gives up after 15 seconds, so a post is answered or lost.
At most `MaxLost` deliveries are lost: for ever unreachable, the ERP would get
nothing and nothing would be shown. Everything a person does is unfair: no candidate has to
open a link, no administrator has to act.

## 6. Email

### `EmailOutbox`, `MailContract`

| Variable | Code |
|---|---|
| `rows[m]` | the `email_outbox` row of the idempotency key `m`, as committed: status, attempts, whether `next_attempt_at` has come |
| `caller[c]`, `queued` | a job's open transaction with what it inserted, and the sum of the counts the jobs reported |
| `worker[w]` | a run of `email-outbox`: its row locks and what it has written and not committed |
| `copies[m]` | what SMTP took, which no rollback takes back |

Callers: `EnqueueEmail` (insert that does nothing on a conflict), `CommitCaller`,
`RollBackCaller`. A run: `Claim` (`FOR UPDATE SKIP LOCKED`), `SmtpAccepts`,
`SmtpRefuses`, `SmtpUnclear` (taken, and the reply lost), `CommitRun`, `CrashRun`;
`RequeueFailed` starts one. `BackoffEnds` is time.

`MailContract` is what the writers of intents rely on: an intent settles only after a
copy was accepted or delivery given up, and a copy beyond the first needs a fault since
the first. `ImplementsMailbox` maps a row's status onto the intent and the crashes and
lost replies onto the faults.

### `Reminders`

One learner, because no rule of a sweep reads another's rows.

| Variable | Code |
|---|---|
| `happens`, `spell` | what the learner's tables hold for `_detect_events`: dated occurrences, and the current spell of inactivity with the windows elapsed |
| `person` | may be mailed or not; frequency and opt-outs of `reminder_preferences` |
| `ledger[x]` | the `reminder_log` row of an occurrence: status, outbox key |
| `mails` | outbox rows, each with its key and the occurrences in it |
| `sweep[s]` | a pass over this learner: the hour and the spell's window at its own `now`, what it has read, detected, inserted and gathered |

A sweep is `SweepStart`, which fixes its `now`, `SweepDetect`, `SweepRecord`, `SweepGather`,
`SweepCommit`, with `SweepAborts` at any point. The others are `Resend`, `SavePreference`,
`PersonChanges`, and time: `Happens`, `LearnerActive`, `WindowPasses`, `HourPasses`. A window
may pass at any moment, so two open sweeps may be about two windows; an hour passes at most
once during a sweep, which is far shorter.

| Run | Instance | Shows |
|---|---|---|
| `mail_delivery` | two keys, two jobs, two workers, one each of: crash, lost reply, requeue, rolled-back job; limit of 2 attempts; fairness | `TypeOK` (with `QueuedIsCounted`), `ImplementsMailbox`, `MailSettles` |
| `reminders` | one grade, a spell of three windows, cap of 1, a day of two hours of which one is quiet and the digest's; two sweepers; one disturbance; fairness | `TypeOK`, `LedgerTrue` (`ReminderCarried`, `MailedOnce`, `NudgesBounded`), `QueuedFlushed` |

Two keys let one worker skip a row that another holds and go on; two attempts give a
refusal that delays and one that fails. The digest hour lies in the quiet hours because
that is the case in which the two rules of `_flush_queued` contradict each other. One
disturbance at any point, of five kinds, keeps the instance small: two at once
repeat one sweep's view of the other. With a cap of 1 and one overlap a spell may draw two
nudges; the third window is the one in which a further nudge would show. One spell, after
which the learner stays active, is enough for the cap, which counts by spell; the theorem has any
number. Fairness: the timers start a worker every minute
and a sweep every five minutes, a process that has begun goes on, time passes, and each hour
of the day sees a sweep that starts in it.
Deadlock checking is off: with the budgets spent and nothing due, all is settled.

## 7. Learning

### `Learning`

One learner on one course: scores, completion and push meet on the learner's own rows.

| Variable | Code |
|---|---|
| `published`, `grants`, `open`, `subs`, `passed` | the course's activities; extra attempts; pools with an open paper; submissions; activities with a passing score |
| `rec`, `cert` | `course_completions`: passed, total, `completed_at` set; the certificate |
| `tx[w]` | an open transaction: a submission, a lab check or an override, scored or counted, with what it will write |
| `synced`, `push`, `erp` | the marker and the checkpoint, a sweep's request, and what the ERP accepted |

`Submit` (with the entitlement, under the lock on the person's row), `GradeLab`,
`Override` write a score; `Recompute` takes the completion record's lock and counts what
is committed and its own; `Commit`, `Abort`. `OpenAttempt`, `Grant` and `Publish` are one
step each. The push is `PushRead`, `PushSend` (taken or not, heard or not),
`PushCommit`, `PushCrash`.

`learning`: a quiz pool, a lab and an essay published later; two writers
(interchangeable), one attempt and one granted, one lab check. `TypeOK`, `AttemptsHeld`,
`CompletionExact`, `ErpAccepted`. Two writers show every race of two; the person's lock
allows one submission at a time and the record's lock one recomputation, so a third writer
only waits.

## 8. Accounts

### `Accounts`

One account. Passwords are generations (`gen`), so that a session or a token remembers
under which one it came to be.

| Variable | Code |
|---|---|
| `cred` | the `user_credentials` row: password, failed attempts, locked |
| `active`, `session`, `token` | the person's status, `auth_sessions`, `account_tokens` |
| `req[r]` | an open transaction: where it is, the password typed, the row it read, the tokens it has locked |
| `tries`, `latest`, `lockouts` | history: wrong passwords since the last success or lock-out, the invitation issued last, lock-outs run out |

Every statement that takes a row lock is a step of its own, in the order the code takes
them: `SignIn`, `LockCredential`, then `RefuseLocked`, `WrongPassword` or `RightPassword`;
`ChangePassword` or `ResetPassword`, `LockPerson`, `LockCredentials`, `SetPassword`;
`RequestReset`, `InsertReset`, `IssueReset`; `Invite`, `IssueInvite`; `AcceptInvite`, then
`AcceptConflicts`, or `InsertCredential`, `CredentialInserted`, `Activate`. Inserts that refer to the person share a lock on it, which is how a
password change and a new session exclude each other. A reset is asked for without a lock
(`RequestReset`), and its token counts as issued under the password it is inserted under. `SetPassword`
leaves a column that was loaded as zero or NULL before the lock as the row has it (`Loaded`), as the
unit of work does. `Abort` stands for exceptions
and for PostgreSQL breaking a deadlock; a sign-in and a password change can have one, and so can two activations.

`accounts`: two requests, two sessions, reset tokens and invitations each
(interchangeable), a lock-out after 2, passwords up to the second, one lock-out that
runs out. `TypeOK`, `TriesBounded`, `SecretsCurrent` (that is `OldPasswordRetired` and
`InviteStands`). The races are
between two transactions, and a password change shows all there is with one old
password; two tokens of a kind show an older one that outlives its replacement.

## 9. Facilitators

### `Facilitators`

One person in one cohort, since a nomination reads nothing of another's.
`nomination[s]` is the nomination of a scope (the cohort, or an offering, named by its
course) with the courses it requires, `completed` and `ever` the courses completed now
and at some time, `tx[p]` an open transaction with the nominations it has locked and those
it has activated.
`Ask`, `Nominate`, `ActivateNominee`, `CommitNomination` are a nomination; `Complete`,
`CommitCompletion` a completion with its activation; `Sweep`, `CommitSweep` the
timer's repair; `Revoke`, `Withdraw`, `Offer`, `SetStatus`, `Abort` what comes between.
The database function of migration 0064 is part of the actions that call it.

The run `sweeps` holds this component and the next; they share nothing, so one of them
moves in a behaviour (`part`). Here: two courses, two requests and the timer, sweeps of
one nomination, two nominations, one abort, fairness of the open transactions and of the
sweep (its timer's unit runs it every five minutes). It shows `SweepsTypeOK`, `TaughtIsEarned` and
`EligibleActivated`, the first half of `SweepsRepair`. A sweep of one is the smallest that
ineligible nominations could starve.

## 10. Success queue

### `SuccessQueue`

One learner and one rule. `status` is the committed entries, `sweep[p]` a sweep's reading
and the row it has locked, `desk[s]` what an instructor's request has read.
`Start`, `Evaluate`, then `Refresh`, `OpenEntry`, `Collide` (the unique index refuses), `Resolve`
or `LeaveAlone`, then `Commit`, with `Crash` at any point; staff: `Read`, `Transition`;
the learner: `Change`, `Enrol`.

In `sweeps`: three rows, so that an entry can be resolved, opened anew and resolved
again while someone still holds the first; the timer's sweep and an operator's; one
instructor; one crash. `SweepsTypeOK` (with one open entry at most), and `QueueFollows`, the
second half of `SweepsRepair`. Strong
fairness of `Proceed`: PostgreSQL hands a row lock to the transactions that wait for
it in turn, so a sweep that waits again and again for the same row gets it.

## 11. Classroom

### `Roster`, `Curriculum`, `Classroom`

What learners and instructors see in an ordinary week is derived from a handful of tables,
by many pages, each with a query of its own. The three modules extend one another and
follow one learner: `Roster` has the rows that put him in cohorts and on tracks,
`Curriculum` what he may study and what the pages say of it, `Classroom` the timetable and
the notices.

| Variable | Code |
|---|---|
| `enrolment[k]` | his row in a cohort: state, role, track |
| `track[t]`, `offered[k]` | a track's cohort and the `order_index` of its courses; the offerings of a cohort |
| `request[r]` | an open request: the learner's row as its handler left it, the columns of it that its flush will send (`sent`), the rows it will insert |
| `status[c]`, `chapter[c][n]`, `version[c]`, `requires` | the course, its chapters with body, markdown and hash, and the prerequisite rows |
| `trail`, `subtopics`, `ledger` | reads and passing work in their order, subtopics read, learning events |
| `session[s]`, `mode[k]` | `class_sessions` with times and link; the delivery mode |
| `announcement[a]`, `notice[a]`, `audience[k]` | announcements, his notifications, his classification |
| `setup`, `budget`, `now` | windows, due dates and extensions, how often each act may still happen, the clock |

In `Roster` a request reads when it begins and writes when it commits: `BulkEnroll`,
`InviteToCohort`, `UsersInvite`, `ChangeState`, `AssignTrack`, `ClearTrack`,
`CreateTrack`, `AddCourses`, `Reorder`, each followed by `Commit` (which sends only the
columns that differ from what was read, and rolls back on a unique constraint) or `Abort`.
In the other two a request is one step: `LoadCurriculum`, `CreateCourse`,
`SetCourseStatus`, `ImportManual`, `UpsertChapter`, `DeleteChapter`, `ChapterPage`,
`CoursePage`, `SubtopicComplete`, `ToggleRead`, `Pass`; `CreateSession`, `UpdateSession`,
`CancelSession`, `SetDeliveryMode`, `Announce`, `DeleteAnnouncement`, `MarkAllRead`,
`Classify`. The pages are operators: `Entitled`, `LockedUntil`, `WindowOpen`,
`CourseOpen` (the gate of the content routes), `CardState`, `Resume`, `ContinueAt`,
`CalendarSessions`, `TodoDue`, `FeedEvents`, `Shown` and others, each translated from its own query.
`Horizon` is the thirty days that the To-Do looks ahead; the calendar has no such limit. `Tables` says
what tables an instance may start with: rows and columns as the database constrains them, and an offering
for each course of a track.

`classroom`: two cohorts, three courses of two chapters, one track, two requests, one
session, two announcements, three ticks. It shows `TypeOK`, `RoleKept`, `PagesAgree` (that is
`TrackOffered`, `CardOpens`, `HomeAgrees`, `JoinFound`, `DueFound`, `NoticeFound`) and
`TrackFinishes`. Three courses give a track order with a middle and prerequisites across two
disciplines; two cohorts give an extension in one and a window in the other; a horizon of one tick
has deadlines beyond it and within it. A behaviour
follows one of `Scenarios`, each with the tables and the acts in which two parts meet: two
requests on one row, a track curated while he studies, prerequisites and lifecycle under a
track, windows as time passes, chapters written as he reads, sessions, announcements. The acts of different scenarios meet only through
rows that one of the scenarios already has both sides of.

Fairness: an open request commits (a transaction that is neither committed nor rolled
back ends with its connection), and a learner in a course that opens goes on until he
passes; `TrackFinishes` says what the locks owe to such a learner, not that learners are diligent.
Deadlock checking is off: when the acts are spent the week is over.

## 12. Consoles

### `ContainedCall`

One external command of the worker. `at` is where the worker is in `_run_contained`,
`group` the states of the command's process group (a leader and one helper), `blocked` and
`pending` the signal mask and what waits behind it, `cause` the exception on its way.
`Call`, `Fork`, `ForkFails`, `Enter`, `Collect`, `Return`, `Expire` are the call; `Ask`,
`Poll`, `Kill`, `Reap`, `Lift` the termination of the group; `Signal`, `Spawn`, `Leave` the
world. `cut` marks the two gaps in which a signal is raised where nothing catches it for
the group (`RaiseAgain`, and `Signal` after the failure and before the mask).

### `Consoles`

The ttyd processes of several labs. `lab`, `intent` are the row and the open operation as far as
they touch consoles; `running`, `ttys`, `dying` the host; `worker` a scan and what it will
write, or the operation it executes; `sweeper` the sweep's scan. Between operations the worker
goes through `ListLabs`, `ScanConsoles`, `PassOver` or `Recover`, `CommitRecovery`; an
operation is `TakeUp`, `CallEngine`, `StopConsoles`, `StartConsole`, `Settle`; the sweep is
`SweepScan`, `SweepRead`, `SweepKill`. `StopWorker` ends the consoles too, or not, as the
unit's `KillMode` and a bare kill do. `missed` marks labs whose old console an operation
could not see because the scan failed, where a second console is what the code accepts.

### `ConsoleUse`

One lab's record of use: `attempted` and `issued` are the throttle and the background write of
each web process, `lastSeen` and `deployed` the two columns the reaper compares. `Keystroke`,
`OpenPage`, `WriteBeat`, `LoseBeat`, `ForgetSlot`, `StampDeploy`, `RequestIdleReap`.

`consoles`: two labs and four ports; two faults of the host, or one and a request; a
timeout and a grace of two ticks, three signals; two web processes, an interval of 2 in
an idle limit of 6, eight ticks, one failed write. It shows `HostTypeOK`, `CallTornDown`,
`ConsolesKept`, `ReapedWasIdle` and `HostSettles` (that is `CallSettles` and
`ConsolesSettle`). The three share no state, so one of them moves in a behaviour (`scene`). Three
signals are one to start a termination and one of each kind during it; two labs let the sweep kill one
console while the worker replaces another; two web processes are two throttles before the
upsert's. Fairness: `Restart=always` starts the worker again, the reconciler's
timer starts sweeps, a process that was told to end exits, the worker and the clock go on.
Nothing is assumed of commands, which may hang, or of scans. Deadlock checking is off: a stopped
worker and a reaped lab end their component's behaviour.

## 13. Where the code and its words part

These formulas stand in the modules next to the ones the runs check. Each quotes a
document, a comment or a promise on screen; TLC refutes each when it takes the place of the
properties in a configuration like the one named, in the way described.

| Property | Instance | What happens |
|---|---|---|
| `NudgesCapped` | `reminders` | each sweep has its own `now` (`reminders.py:453`), counts the committed nudges (`:370-383`) and inserts one keyed on its window (`:389`); two that overlap, one started by hand, either side of a window's end insert two where one was left, though `:60` says "How many inactivity nudges one dormant spell may draw" and a test is named `test_inactivity_nudges_stop_at_the_cap` (`test_reminders.py:230`). `NudgesBounded` says by how much |
| `CapacityHeld` | `lab_capacity` with two incarnations and the budget `NoFaults` | a worker dies between claiming a deploy and its admission; recovery marks the lab, which never started, `unknown` (`lab_operations.py:348`), and the retry takes itself for already counted (`:600`) and starts over the cap that `SOT_RELATIONSHIP_MAP.md:30` promises |
| the same | `lab_capacity` with the budget `OneRequest` | no crash: a reap enqueued late marks a lab that is gone `unknown` again before its destroy, the destroy fails, and a reset enqueued late passes the capacity check by the same shortcut |
| `StaleWorkerSilent` | `lab_live` | a worker whose claim was taken back while it waited for admission commits its reservation; only the settlement is fenced |
| `AbsentIsProven` | `lab_live` | it holds in `lab_faults`; under a stall, a reconciler records `absent` from an old inventory, the repair fails and keeps it while the lab runs |
| `ReapedIsFinal` | `lab_faults` with `OneRequest` | a reset that read `active` is enqueued after the reaper finished |
| `ReapsEnd` | `lab_live` with `LowCeilings` and `NoFaults` | destroy fails, repair succeeds and resets the failure window, the reaper asks again, without end |
| `RejectedStays` | `MCAdmissions`, one request, one `move` | a portal step that read `onboarding` enrols an applicant rejected meanwhile (`admissions.py:877`; "`enrolled` and `rejected` are terminal", `:46`) |
| `ChecklistEnrols` | `MCAdmissions`, two requests, no other acts | two last steps posted at once each see the other open (`admissions.py:878`); all is done and nobody enrols, though `onboarding.html:38` says "your enrollment is automatic" |
| `SubmissionRecorded` | `MCAdmissions`, one `close` | a passing submission after the intake closed raises in the policy (`admissions.py:757`) and is rolled back with its grading; `apply.py:356-358` says "every submitter gets an outcome email" |
| `SittingCompletesStep` | `MCAdmissions`, one request, one `move` | a sitting taken after onboarding began does not complete its step: only seeding carries it forward |
| `WaitlistNoticeEarned` | the same | an applicant put on the waitlist by hand passes and gets the below-the-bar email |
| `EnrolledIsEnrolled` | the same | the transition endpoint writes `enrolled` without the enrolment |
| `SetupLinkWorks` | `MCAdmissions`, two requests, no other acts | a second portal step that completes the checklist replaces the invite token, and the email with the new one is deduplicated away |
| `SyncedMeansDelivered` | `MCErpResults`, `DeliveryActs` | the stamp of a delivered version (`erp_assessment_sync.py:143`) lands on a row that a re-banding gave the next one; the contract, `erp-applicant-assessment-contract.md:164`, says "Only an acknowledged event stamps" |
| `CorrectionsNumbered` | the same | a re-banding that read before a reset and re-sitting writes its band under the number the new result already has |
| `ErpLinkStays` | the same, and one `invite` | an invitation re-keys the link the ERP was given; the next registration restores it |
| `KeyWithheld` | `learning` | the submit page calls `reveal_feedback` without the granted attempts (`web/learn.py:588-592`), so a failed learner with an attempt granted sees the answers; `assessment.py:160-162` says that the key is kept until attempts are used up |
| `ExtensionExtends` | `classroom` | the card of an offering without an end takes the learner's own date for its end (`learner_dashboard.py:78`) and says "expired" after it, while the course still opens; `models/cohort.py:73` says that the date "can extend, but never shorten, access" |
| `ContinueAgrees` | the same | the landing page continues at the first chapter without a pass, the home page at the first incomplete one after the last touched, though `catalog.py:162` says that it "mirrors the learn-home logic so navigation is consistent" |
| `ContinueOpens` | the same | a card falls back to chapter 1, which may have been deleted or never written |
| `NeverCyclic` | the same | the loader looks for cycles among the edges of its own file; two disciplines' files can close one between them |
| `ActivityGated` | the same | the page hides the activity links until every subtopic is read, the activity page itself asks only whether the course is open |
| `EditorTruthful` | the same | an import writes the body and leaves the markdown of an earlier edit, which the editor goes on showing |

Read off the code while modelling it, and present in the models as behaviour:

* `deliver_pending` sends up to a hundred mails before its one commit; a worker that
  dies sends them again (`CrashRun`; the contract counts the copies).
* Two overlapping sweeps may each mail one queued reminder in a digest of their own
  (`MailedOnce` allows one more message per overlap), and `_flush_queued` mails what
  was queued before an opt-out, though `reminders.py:13` reads otherwise.
* A password reset asked for before a password change may insert its token after it, and the
  token lives (`lifecycle.py:149-157` reads without the lock of `:117-119`; `RequestReset`,
  `InsertReset`). Tokens that were inserted before are ended.
* Failures, or a lock-out, committed between a password change's first read
  (`web/account.py:134`) and its lock outlast the change: assigning 0 or NULL to a column that
  was loaded so writes nothing (`lifecycle.py:129-130`, `Loaded`). `TriesBounded` holds all
  the same.
* `reinvite_stranded` leaves the earlier links alive (`Reinvite`); its docstring,
  `reengagement.py:105`, says that the new one "invalidates any older link".
* The failure counter is not reset when a lock-out expires, so one more wrong password
  locks again (`LockoutEnds`).
* A pool activity submitted twice grades no questions the second time and uses up
  an attempt (`Submit` without an open paper).
* Staff may acknowledge an entry that was resolved and opened anew since they read
  it; a learner then has two live entries, one acknowledged and one open
  (`Transition`), which the docstring of `SuccessQueueEntry`, "never duplicates an open
  entry", does not expect.
* `_run_contained` says "guaranteeing group teardown" and that the original exception is
  "re-raised unchanged" (`containerlab.py:248`, `:258-260`): a signal that is raised
  after the failure and before the mask is back, or a second one of the other kind, leaves the
  group running (`cut`), and a signal that waited behind the mask takes the place of the
  exception (`Lift`).
* A lab page shows a console's link "only when following it can succeed"
  (`web/labs.py:146-154`): the row is what it looks at, and the console may have died since
  (`LoseConsole`; `ConsolesSettle` says that it returns).
* "Typing in a lab console keeps the lab alive": within two heartbeat intervals, which at
  the smallest `lab_idle_minutes`, 1, is the whole limit (`ReapedWasIdle`).
* The progress page calls a course overdue without regard to the learner's extension
  (`Overdue`); the calendar lists windows and deadlines of an accessible course for cohorts the
  learner is not in (`CalendarDue`), and sessions of cohorts he has left (`agenda.py:117-123`,
  `CalendarSessions`).
* With two cohorts the card is that of the earliest end, and may say Start for an offering
  that has not begun, or upcoming for a course that another cohort opens (`Chosen`; `CardOpens`
  speaks of one offering).
* Two curations of one track at once leave two courses with one `order_index`, where
  `tracks.py:239` says "dense 1..N" (`AddCourses` and `Reorder` before either commits).
* A drop by a non-admin that read the row as a student's drops the instructor an administrator
  has made of him meanwhile (`ChangeState`).
* A cohort can be set back to self-paced while it has sessions (`SetDeliveryMode`).

## 14. Proofs

Eight modules hold the theorems. Each extends the component it is about, states the
inductive invariant `IInv` (or one by another name, given below) as a conjunction of named
parts, proves one lemma per action, and draws the theorems from it by temporal
reasoning. Every invariant was checked with TLC on the instance of the component's run before
it was proved. The assumptions are the `ASSUME`s of the components, which TLC evaluates on
every run, and nothing else, but for `StallFree`, `OneIncarnation` and `NoResets` where they are named.

Proved are all invariants and action properties of the passing runs, and both refinements; what is not
proved is what the last subsection lists.

### `LabOperationsProofs`

For any set of instances, any number of worker incarnations, any ceilings and any number of
faults (`MaxAttemptsAssumption`, `BudgetAssumption`, `CapacityAssumption`,
`NoOneAssumption`):

* `TypeCorrect`, `AttemptsNeverExceedCeiling`, `OneHolderAlways` and, of the last two,
  `ClaimsSoundAlways`; `SettlementsFenced`. `TypeOK` alone is not inductive: that a
  requeued operation fits its row needs that a worker's remembered kind and origin
  satisfy the CHECK constraint too (`JobsOK`), because a deferred deploy rewrites
  the operation from the worker's memory; that attempts stay below the ceiling
  needs that a *queued* operation is strictly below it (`OpOK`), since a claim adds
  one, and that a worker's own count is positive and within the ceiling (`JobOK`),
  since a refund subtracts one. `OneUp` (at most one process is up, and a process
  that is not up holds nothing) carries `OneHolder`. `SettlementsFenced`
  needs the invariant only to know that two workers do not act as one.
* `OrphansOnly`: the reconciler destroys only labs whose row is gone, though the plan is
  older than the destroy. `LifeInv`: a lab and an operation belong to an instance that has
  had a row, no worker's memory holds a row that is none, and what a plan calls an orphan
  had a row and lost it. Since a row comes once and goes for good (`RowsLast`), an old plan is
  still right about orphans. No assumption about stalls.
* `RowsTruthful`, for behaviours in which no live worker and no pass stalls past its lease
  (`StallFree`, which holds of the budgets of `lab_faults`); workers may crash, and runtimes be lost,
  at any step. `TruthInv` adds five parts to `IInv`. `EntriesTrue` relates a row to its
  operation and its lab. `ClaimsTrue` gives a claim one incarnation that works on it: without it
  a crash could requeue one operation and leave another for ever. `JobsTrue` says
  what a worker knows at each of its steps: what it remembered of the row when it began
  (`Remembers`), and what its reservation and its engine calls have established since
  (`Established`: unknown presence before anything is started, nothing running between the
  destroy and the deploy). `PassTrue` does the same for the reconciler, and `BudgetTrue`
  keeps stalls out. With stalls the property is false, as section 13 says of
  `AbsentIsProven`: that is why the theorem has the hypothesis.
* `QueueIsLeaseQueue`: the refinement of `LeaseQueue`, under the same hypothesis. Each step
  makes one of five moves with the operation of each instance (`OpMoves`), each of them a step of
  the abstract queue or a stutter (`MovesRefine`), and two slots of one holder are never taken
  (`ClaimsTrue` again). A stalled worker that defers for capacity rewrites, by
  primary key, an operation that another has taken meanwhile, which no lease
  queue allows; this is why it needs `StallFree` too.
* `CapacityAlwaysHeld`, for a finite set of instances (`InstancesAssumption`) and any queue, cap and
  ceilings, under `StallFree`, `OneIncarnation` (one worker process, which is not succeeded) and `NoResets`
  (no request but the reaper's is enqueued after its guard was read). These are the hypotheses that the
  instance of `lab_capacity` satisfies, and without the last two the property is false (section 13).
  `CapInv` counts `Slots`: a lab takes a slot while it runs and, unless its row is `absent`, while a
  deploy of it is open. Every lab that runs has a slot (`RunningInSlot`, from `TruthInv`), the capacity
  check counts every slot, and only a reservation adds one (`ReserveCap`); it may pass without
  counting because a row that is `present` or `unknown` under an open deploy has its slot. `Calm` says
  why nothing else adds one: a deploy is enqueued for an `absent` row only (`OnlyReaps`: no late reset;
  a late reap is no deploy); nobody is killed, so no claim is taken back from the dead; and what a worker saw
  counted stays counted while it works on it (`CountedStays`), so a settlement that puts the row back to what
  it was brings back no slot.

### `AdmissionsProofs`

For any set of requests and any number of acts of each kind, from `BudgetAssumption` and,
for the ERP, `MaxLostAssumption`. `ErpResults` extends `Admissions`, so what holds of its
`Next` is cited, and one lemma per action of `ErpResults` is added.

* `AdmissionsTypeCorrect`, `ErpTypeCorrect`: types, and that the two background
  processes only ever carry a result that was recorded.
* `NoOldAnswersEver`, and `ErpNoOldAnswersEver` for applicants of the ERP. The
  invariant is `TokenInv`: the number of a random token is at most the number of mints and
  a derived token is that of the sitting it was live in, for the row and for every open
  page; and a page that holds the live token was opened in the present sitting. Minting a
  fresh token keeps it trivially; the registration of
  the ERP may hand the live token back to a page, and keeps it because only pages of the
  present sitting hold that derived token.
* `EnrolmentStandsEver` and `OnboardingReachableEver`: one case per action; what
  makes the first go through is that `Allowed` has no way out of `enrolled` and that every
  writer of the status outside that table is an enrolment. `ChecklistGatesEver`: the invariant
  `GateInv` ties requests together: while no administrator has reopened a step, a task once
  done stays done, so a request that has decided to enrol finds every step but its own still
  done when it commits. `EnrolmentSoundEver`: the three together, which is what the run checks.
* `ResultStandsEver`, `ErpResultStandsEver`: action properties, from the types only.
* `CandidateAlwaysTold`, `ErpCandidateAlwaysTold`: inductive with the types alone, because
  every writer of a token mails it in the same transaction or is the ERP, and every grading
  queues its outcome under a key that names the sitting.
* `VersionAlwaysItsSitting`. `VersionsInv`: neither the ERP nor a delivery in flight holds a number
  above the row's, which grading raises and a reset keeps; and the re-banding
  command, which writes its own number, has read the present row, until a reset
  overtakes it (`Corrected`, which the property excepts: see `CorrectionsNumbered` in section 13).

### `EmailOutboxProofs`

For any messages, callers, workers, batch size and budget. `OutboxTypeCorrect`, and
`OutboxImplementsContract`: the outbox implements `MailContract`. Beside the types the
invariant says that two open callers have not inserted the same key (`Inserted`), that the count is
of the rows there are (`Counted`), and that what a run has locked is unsettled in the
database and locked by no other (`Locking`). The heart is `Paid`: copies exceed the faults so
far by one at most, and only of a message that the database, or a run that is still open,
says is sent. A crash forgets the open run and pays with a fault; that is the step
in which the contract's count is needed.

### `RemindersProofs`

For any occurrences, sweepers, spells, windows and hours and any budget of overlaps, resends, failures
and changes (`BudgetAssumption`, `HoursAssumption`, `SpellsAssumption`, and
`OccurrencesAssumption`: an inactivity reminder is not at once another occurrence).
`RemindersTypeCorrect`, and `LedgerAlwaysTrue`: what is sent is carried, nothing is mailed twice but
for overlaps and resends, and a spell draws one nudge over its cap per overlap at most. The invariant has three
parts beside the types. `Book`: what an open transaction has inserted is in no other's
hands, and what it has gathered for a digest is queued, or was sent meanwhile. `Mail`:
messages carrying an item and open digests that hold it are together no more than one and the
overlaps so far (`Counted`), since sweeps that are open are no more than that either
(`Overlapped`); an item mailed alone is in no digest, now or later (`Alone`). `Pace`: the
windows of a spell that are drawn, with those an open sweep is about to draw, are at most the cap
and the overlaps so far. A sweep has at most one nudge on its way (`OneNudge`), so a sweep that
detects one over the cap does so beside another that is open, and has been paid for as an overlap.
Nothing is assumed of when windows end.

### `LearningProofs`

For any course (finitely many activities, `ActivitiesAssumption`), any number of writers, any
limits. `LearningTypeCorrect`, `AttemptsAlwaysHeld`, `CompletionAlwaysExact`, `ErpAlwaysAccepted`. The invariant carries the
locks: `Exclusive` (one submission, one lab check, and one recomputation at a time) and, for the transaction that
holds one, `Sound`: the attempt it was let in for is still left, and what it
counted is what is committed with its own score added. `Answered` does the same for the worker
of the ERP: an answer that counts as a delivery was one, also when the learner finished meanwhile.

### `AccountsProofs`

For any number of requests, sessions, tokens and passwords (`PoolsAssumption`, `LimitsAssumption`).
`AccountsTypeCorrect`, `TriesBoundedAlways`, `SecretsCurrentAlways`. `Exclusive` is the compatibility of row locks, which the type
invariant states only in part; `Knows` says what a request may rely on while it holds
one (the credential row it compares with is the present one; the password a reset token was
inserted under is the present one until that token is committed). `Counted` ties the passwords compared to the counter of the row,
and `Unopened` covers the account before its first password.

### `UpkeepProofs`

Two compositions in one module: the sweeps, and the host. They share nothing.

The sweeps. For any courses, requests, entries and sweeps. `TaughtIsAlwaysEarned` (with
`FacilitatorsTypeCorrect`): an active nomination was earned once (`EarnedOnce`), and what a
transaction has read is enough for what it will write (`Grounded`): the trap is the activation
whose requirements were read before the nomination was locked. `QueueTypeCorrect`: one entry at most is
in the unique index or about to enter it (`OneIndexed`). `SweepsTypeCorrect` and
`TaughtIsEarnedSweeping` say both of `OneSpec`, which the run checks: a step of it is a
step of each component or leaves it alone.

The host. For any labs, ports, processes, times and bounds on faults (`CallTimesAssumption`, `UseTimesAssumption`,
`PortAssumption`, `HazardAssumption`, and `PortsAssumption`: there are ports for a console of every lab, since
the initial states give each lab that is up one of its own).

* `CallAlwaysTornDown`: signals are deferred exactly where a group may be without an owner, no
  member is deaf to them, and before the fork and after the collection none is left that
  could run (`CallInv`).
* `ConsolesAlwaysKept`: `ConsolesInv` has, beside the property, what the worker knows between its scan and
  its start: the labs it has still to look at have the consoles it saw, or fewer (`SeenInTime`);
  before a console is started the others have been told to end (`Emptied`); the lab in hand is marked
  uncertain (`InHand`), which keeps recovery away from it; a destroy that goes on has removed the lab
  (`Removed`); and what runs may run (`RunningKept`), from which a sweep that read the rows after
  its scan spares it (`CalmSpared`).
* `ReapedAlwaysIdle`: the record lags behind each process's last attempt by one interval at most, and
  behind the last use by two once the writes of the tick have ended, as long as no write failed
  (`Recorded`).
* `HostTypeCorrect`, `HostSafe`: all of it for `HostSpec`, the composition the run checks.

### `ClassroomProofs`

For any cohorts, courses, tracks, requests, chapters, texts, sessions and announcements, any tables
to start with and any number of acts (`CoursesAssumption`, `NamesAssumption`, `NumbersAssumption`, `FilesAssumption`,
`ManualsAssumption`, `MaxTimeAssumption`, `HeadingsAssumption`, `LeadAssumption`, `EveryoneAssumption`,
and `SetupsAssumption`: the tables are `Tables`, and each course of a track is offered). The
invariant is `ClassInv`, that of the roster, of the study and of the timetable.

* `RoleAlwaysKept`: two requests may both have read the learner before either writes, so what keeps the
  role is what they send. `RowWritten` says it of every open request: an insert sends the role and
  conflicts with a row that is there by then (`RowsKept`: a row has a role); an
  update that sends the role makes an instructor of him, because a role that has not
  changed is not sent. The rule of `_apply_assignment` alone would not do: see the mutant
  `Dirty_All`, which writes the whole row back.
* `ClassroomTypes`: a chapter that is marked as read is there. A deletion takes the mark along; the trail has
  each entry once (`TrailKept`), or removing one would leave another.
* `PagesAlwaysAgree`, in six parts. `TrackOffered` is inductive with `TrackWritten`: the courses
  that an open request puts on a track are offered, or the request offers them itself, and the unique
  constraint rejects it when another has put them there meanwhile; offerings are never taken
  away. The other five follow from the invariant in each state, though each page derives what it shows by a
  query of its own. `CardOpens` needs that a course's card and its route see the same locks (`Locked` is a held
  prerequisite or an unfinished predecessor, `LockedIsUnmet`) and, with one offering, the same window
  (`OneOffering`). `HomeAgrees` needs that what the card and the home page choose is
  there to be chosen: the last touch of a course, and the least chapter left (`Greatest`, `Smallest`). `NoticeFound` is
  inductive on its own (`NoticeSent`); `JoinFound` and `DueFound` compare the queries.

### Only model-checked

* Everything under fairness: `LabSettles`, `ErpGetsResult`, `MailSettles`, `QueuedFlushed`,
  `SweepsRepair`, `TrackFinishes`, `HostSettles`; liveness and `ENABLED` are beyond the prover.
* `CapacityHeld` with more than one incarnation or with resets is false; what remains of it in the presence
  of faults (how far over the cap) is neither proved nor checked.

The refinements are proved as safety: the abstract specifications state no fairness.

## 15. Not modelled

* Data: topology interpolation, file parsing, rendering, statistics, wording; names,
  profiles and scores (a score is its side of the threshold, or its level).
* Of consoles: more than one terminal node in a lab, device consoles over HTTP, what the
  websocket proxy moves. In `LabOperations` idleness is a free choice, which covers every
  record of use; `ConsoleUse` is where the record is modelled.
* PostgreSQL itself: a transaction is atomic and a row lock serialises, which is
  what the code relies on. Deadlocks are modelled as aborts where the code's lock
  order allows them (`Accounts`), and not between sweeps over several learners.
* `get_db` of the platform kernel, which commits when the response is made and rolls
  back on an exception, is outside the repository.
* The helper `lab_lifecycle.reset`, which nothing calls any more.
* Admissions: which portal link is the newest (only whether there is one), whether
  an email is delivered (`EmailOutbox` does that; here it is queued), which cohort is
  assigned, the expiry of invite tokens, the time limit of a sitting (it
  hides the questions page, which `OpenPage` leaves open to happen or not, and refuses
  no submission), and two administrators resetting one sitting at the same instant.
* The waiting of the coroutine handlers in `web/apply.py` for a row lock on the
  event loop's thread: it needs the scheduling of the server, not the admissions state.
* Learning: programme certificates, certificate re-issue and download,
  imports that change a pass threshold or remove an activity, the answer of the override
  page when the recomputation behind it failed and was rolled back.
* Facilitators: assignments taken over from the legacy instructor link, and the notices
  about a nomination.
* Success queue: segments and messages to them; more than one learner per sweep.
* Roster and classroom: more than one learner (no rule here reads another's rows), pacing
  (its rows are set at the start), media, search, bookmarks, the cuts of the calendar at fifty
  and of the announcements page at twenty entries, and the parsing of manuals and curriculum files.
* Role grants (`web/accounts.py`), settings, reports and audit: rows that one actor writes
  at a time, or read-only views. `PROJECT.json` gives the reason for each.
* `maintenance/retained_schema.py`: a frozen description of an earlier schema that is
  compared with a database's catalogue; it changes nothing.
