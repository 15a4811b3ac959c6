------------------------------ MODULE Admissions ------------------------------
(***************************************************************************)
(* One applicant on the way from application to enrolment: the pipeline    *)
(* status, the entrance sitting behind an emailed link, the onboarding     *)
(* checklist of the self-serve portal, and the account enrolment leads to. *)
(*                                                                         *)
(* Handlers that read the applicant row FOR UPDATE are one step: they are  *)
(* serialised on the row. The portal and the enrol endpoint read the row   *)
(* without a lock and write it later, and the invite-applicants command    *)
(* selects its targets before it writes them; those take several steps.    *)
(***************************************************************************)
EXTENDS Naturals, FiniteSets

CONSTANTS
  Requests,   \* portal and enrol requests that may be in flight at once
  Budgets     \* the bounds, on each kind of act below, that a behaviour may have

Acts == {"apply", "invite", "reset", "close", "late", "move", "task",
         "reopen", "erp", "reband"}

ASSUME BudgetAssumption == Budgets \subseteq [Acts -> Nat]

VARIABLES
  app,      \* the applicants row: status, placement, links to the portal and the person
  intake,   \* are the assigned cohort, track and cohort_tracks row all active
  sit,      \* the assessment_* columns of the row
  pages,    \* question pages the candidate has open: token and sitting each was loaded with
  known,    \* assessment tokens that reached the candidate, by email, on screen or via the ERP
  heard,    \* what the browser was told about the last submission
  told,     \* idempotency keys of the outcome emails queued
  tasks,    \* onboarding_tasks by key
  acct,     \* person, credential, enrolment and invite tokens of the applicant's email
  req,      \* [Requests -> request-local state]
  cli,      \* has a running invite-applicants command selected this applicant
  budget    \* acts still allowed

admVars == <<app, intake, sit, pages, known, heard, told, tasks, acct, req, cli, budget>>

-----------------------------------------------------------------------------
(* Rows.                                                                   *)

Keys == {"entrance_assessment", "confirm_details", "orientation"}
PortalKeys == Keys \ {"entrance_assessment"}
Statuses == {"applied", "screened", "waitlisted", "accepted", "onboarding", "enrolled", "rejected"}
Results == {"pass", "fail", "invalid"}     \* a valid score against the threshold, or no signal
Levels == {"beginner", "advanced"}
Tokens == {"random", "erp"} \X Nat
NoToken == <<"random", 0>>
Outcomes == {"offer", "waitlist", "review"}

Apps == [status : Statuses \cup {"none"}, placed : BOOLEAN, erp : BOOLEAN,
         portal : BOOLEAN, linked : BOOLEAN]
Sits == [token : Tokens, mints : Nat, phase : {"fresh", "started", "taken"}, late : BOOLEAN,
         draft : SUBSET Nat, result : Results \cup {"none"}, level : Levels \cup {"none"},
         resets : Nat, version : Nat, synced : BOOLEAN]
Checklists == [Keys -> {"absent", "pending", "done"}]
Accts == [person : BOOLEAN, credential : BOOLEAN, enrolled : BOOLEAN,
          setup : Nat, issued : Nat, welcome : SUBSET Nat]

\* Mutant: a withdrawn learner may be taken out of the pipeline.
Allowed_Withdraw ==
  [s \in Statuses |-> CASE s = "applied" -> {"screened", "rejected", "waitlisted"}
                        [] s = "screened" -> {"accepted", "rejected", "waitlisted"}
                        [] s = "waitlisted" -> {"screened", "accepted", "rejected"}
                        [] s = "accepted" -> {"onboarding", "rejected"}
                        [] s = "onboarding" -> {"enrolled", "rejected"}
                        [] s = "enrolled" -> {"rejected"}
                        [] OTHER -> {}]

Allowed ==
  [s \in Statuses |-> CASE s = "applied" -> {"screened", "rejected", "waitlisted"}
                        [] s = "screened" -> {"accepted", "rejected", "waitlisted"}
                        [] s = "waitlisted" -> {"screened", "accepted", "rejected"}
                        [] s = "accepted" -> {"onboarding", "rejected"}
                        [] s = "onboarding" -> {"enrolled", "rejected"}
                        [] OTHER -> {}]

Exists == app.status # "none"
ActiveIntake == app.placed /\ intake

Spend(a) == /\ budget[a] > 0
            /\ budget' = [budget EXCEPT ![a] = @ - 1]
\* No behaviour that has this budget left has taken the act.
Unspent(a) == \A b \in Budgets : b[a] <= budget[a]

-----------------------------------------------------------------------------
(* Entrance links. Every mint is a new secret: the next unused number.     *)

Minted == <<"random", sit.mints + 1>>
WithToken(s, t) == [s EXCEPT !.token = t,
                             !.mints = IF t[1] = "random" THEN t[2] ELSE @]

\* Mutant: invitations are deduplicated per applicant, not per link.
SendInvite_PerApplicant(t) == IF \E k \in known : k[1] = "random" THEN known ELSE known \cup {t}

\* The invitation's idempotency key holds the token hash, so each mint is mailed.
SendInvite(t) == known \cup {t}

Invited == /\ sit' = [WithToken(sit, Minted) EXCEPT !.late = FALSE]
           /\ known' = SendInvite(Minted)

\* First public application: row, link and deadline, in one transaction.
Apply ==
  /\ app.status = "none" /\ intake
  /\ app' = [app EXCEPT !.status = "applied", !.placed = TRUE]
  /\ Invited
  /\ UNCHANGED <<intake, pages, heard, told, tasks, acct, req, cli, budget>>

\* A repeated public application of the same email refreshes the placement,
\* which must be open, keeps the status, and re-mints the link until it is taken.
ReApply ==
  /\ Exists /\ ~app.erp /\ Spend("apply")
  /\ intake' = TRUE
  /\ IF sit.phase = "taken" THEN UNCHANGED <<sit, known>> ELSE Invited
  /\ UNCHANGED <<app, pages, heard, told, tasks, acct, req, cli>>

\* resend_applicant_invitation from the admin panel, before the sitting starts,
\* and the portal's resend-assessment, at any time before it is taken.
Reinvite ==
  /\ Exists /\ sit.phase # "taken" /\ (sit.phase = "fresh" \/ app.portal)
  /\ Spend("invite")
  /\ Invited
  /\ UNCHANGED <<app, intake, pages, heard, told, tasks, acct, req, cli>>

\* invite-applicants: the query selects applicants that have not sat it ...
CliSelect ==
  /\ Exists /\ sit.phase # "taken" /\ ~cli
  /\ Spend("invite")
  /\ cli' = TRUE
  /\ UNCHANGED <<app, intake, sit, pages, known, heard, told, tasks, acct, req>>

\* ... and the loop mints and mails, without looking at the row again.
CliInvite ==
  /\ cli
  /\ cli' = FALSE
  /\ Invited
  /\ UNCHANGED <<app, intake, pages, heard, told, tasks, acct, req, budget>>

\* extend_applicant_access: eligible while a link exists and nothing has started.
ExtendAccess ==
  /\ Exists /\ sit.phase = "fresh" /\ sit.late
  /\ sit' = [sit EXCEPT !.late = FALSE]
  /\ UNCHANGED <<app, intake, pages, known, heard, told, tasks, acct, req, cli, budget>>

\* reset_exam then the replacement invitation. The panel offers it once a
\* sitting has started, the reset command for any applicant.
Reset ==
  /\ Exists /\ Spend("reset")
  /\ sit' = [WithToken(sit, Minted) EXCEPT !.phase = "fresh", !.late = FALSE,
               !.draft = {}, !.result = "none", !.level = "none",
               !.synced = FALSE, !.resets = @ + 1]
  /\ known' = SendInvite(Minted)
  /\ UNCHANGED <<app, intake, pages, heard, told, tasks, acct, req, cli>>

\* The seven-day deadline of the invitation passes.
DeadlinePasses ==
  /\ Exists /\ ~sit.late /\ sit.phase # "taken" /\ Spend("late")
  /\ sit' = [sit EXCEPT !.late = TRUE]
  /\ UNCHANGED <<app, intake, pages, known, heard, told, tasks, acct, req, cli>>

-----------------------------------------------------------------------------
(* The pipeline.                                                           *)

\* Mutant: seeded tasks get a status outside TASK_STATUSES.
Seeded_Todo(taken) == [k \in Keys |->
                         IF k = "entrance_assessment" /\ taken THEN "done" ELSE "todo"]

\* seed_tasks adds the missing tasks, and a sitting already taken is carried
\* forward to its task.
Seeded(taken) == [k \in Keys |->
                    IF k = "entrance_assessment" /\ taken THEN "done"
                    ELSE IF tasks[k] = "absent" THEN "pending" ELSE tasks[k]]

\* transition_applicant into onboarding and the portal link its callers mint and mail.
EnterOnboarding(taken) == /\ app' = [app EXCEPT !.status = "onboarding", !.portal = TRUE]
                          /\ tasks' = Seeded(taken)

\* Mutant: the API transition into onboarding no longer mints the portal link.
Move_NoLink(to) ==
  /\ Exists /\ to \in Allowed[app.status] /\ Spend("move")
  /\ to \in {"accepted", "onboarding", "enrolled"} => ActiveIntake
  /\ app' = [app EXCEPT !.status = to]
  /\ tasks' = IF to = "onboarding" THEN Seeded(sit.phase = "taken") ELSE tasks
  /\ UNCHANGED <<intake, sit, pages, known, heard, told, acct, req, cli>>

\* The transition endpoint, which takes any status, and the panel's waitlist
\* and reject, which are transitions too.
Move(to) ==
  /\ Exists /\ to \in Allowed[app.status] /\ Spend("move")
  /\ to \in {"accepted", "onboarding", "enrolled"} => ActiveIntake
  /\ IF to = "onboarding"
       THEN EnterOnboarding(sit.phase = "taken")
       ELSE app' = [app EXCEPT !.status = to] /\ UNCHANGED tasks
  /\ UNCHANGED <<intake, sit, pages, known, heard, told, acct, req, cli>>

\* The panel's accept walks the remaining transitions in one transaction.
Accept ==
  /\ app.status \in {"applied", "screened", "waitlisted", "accepted"} /\ ActiveIntake
  /\ Spend("move")
  /\ EnterOnboarding(sit.phase = "taken")
  /\ UNCHANGED <<intake, sit, pages, known, heard, told, acct, req, cli>>

\* assign_applicant_intake takes an open cohort and track only.
AssignIntake ==
  /\ Exists /\ ~ActiveIntake
  /\ app' = [app EXCEPT !.placed = TRUE]
  /\ intake' = TRUE
  /\ UNCHANGED <<sit, pages, known, heard, told, tasks, acct, req, cli, budget>>

\* An operator ends the assigned cohort, its track, or their pairing.
CloseIntake ==
  /\ ActiveIntake /\ Spend("close")
  /\ intake' = FALSE
  /\ UNCHANGED <<app, sit, pages, known, heard, told, tasks, acct, req, cli>>

-----------------------------------------------------------------------------
(* The sitting.                                                            *)

\* Mutant: the start handler does not look at assessment_taken_at.
Start_Again ==
  /\ sit.token \in known /\ sit.phase # "started" /\ ~sit.late
  /\ sit' = [sit EXCEPT !.phase = "started"]
  /\ UNCHANGED <<app, intake, pages, known, heard, told, tasks, acct, req, cli, budget>>

\* The candidate follows a link that still resolves and presses start.
Start ==
  /\ sit.token \in known /\ sit.phase = "fresh" /\ ~sit.late
  /\ sit' = [sit EXCEPT !.phase = "started"]
  /\ UNCHANGED <<app, intake, pages, known, heard, told, tasks, acct, req, cli, budget>>

\* A started sitting shows its questions; the page keeps the token it was opened with.
OpenPage ==
  /\ sit.token \in known /\ sit.phase = "started" /\ ~sit.late
  /\ pages' = pages \cup {[token |-> sit.token, sitting |-> sit.resets]}
  /\ UNCHANGED <<app, intake, sit, known, heard, told, tasks, acct, req, cli, budget>>

\* Mutant: a post is matched to the applicant, not to the link it was opened with.
Resolves_AnyLink(p) == sit.phase # "taken" /\ ~sit.late

\* A post from this page finds a row that still takes answers.
Resolves(p) == p.token = sit.token /\ sit.phase # "taken" /\ ~sit.late

\* Autosave replaces the stored draft; a page that no longer resolves is ignored.
Autosave(p) ==
  /\ Resolves(p)
  /\ sit' = [sit EXCEPT !.draft = {p.sitting}]
  /\ UNCHANGED <<app, intake, pages, known, heard, told, tasks, acct, req, cli, budget>>

\* Mutant: grading does not number the result.
Graded_KeepsVersion(r, l) ==
  [sit EXCEPT !.phase = "taken", !.draft = {}, !.result = r, !.level = l, !.synced = FALSE]

\* The transaction of the submit handler up to the policy: grade_and_record.
Graded(r, l) == [sit EXCEPT !.phase = "taken", !.draft = {}, !.result = r, !.level = l,
                            !.version = @ + 1, !.synced = FALSE]

\* apply_assessment_policy decides only for an untouched, placed application
\* with a valid sitting and a cohort that sets a threshold.
Decides(r, threshold) == threshold /\ app.status = "applied" /\ app.placed /\ r # "invalid"

\* Mutant: outcome emails are deduplicated per applicant.
OutcomeKey_PerApplicant(kind) == <<kind, 0>>

OutcomeKey(kind) == <<kind, sit.resets>>

\* A submission that is graded, the policy's consequence, and its email. An
\* offer is keyed by the new portal link, the others by the sitting.
SubmitGraded(p, r, l, threshold) ==
  /\ Resolves(p) /\ sit.phase = "started"
  /\ ~ (Decides(r, threshold) /\ r = "pass" /\ ~ActiveIntake)
  /\ sit' = Graded(r, l)
  /\ heard' = "recorded"
  /\ IF Decides(r, threshold)
       THEN IF r = "pass"
              THEN /\ EnterOnboarding(TRUE)
                   /\ told' = told \cup {<<"offer", sit.resets>>}
              ELSE /\ app' = [app EXCEPT !.status = "waitlisted"]
                   /\ told' = told \cup {OutcomeKey("waitlist")}
                   /\ UNCHANGED tasks
       ELSE /\ told' = told \cup {OutcomeKey(IF app.status = "waitlisted"
                                               THEN "waitlist" ELSE "review")}
            /\ UNCHANGED <<app, tasks>>
  /\ UNCHANGED <<intake, pages, known, acct, req, cli, budget>>

\* A passing submission the policy may not accept: the transition raises and
\* the whole transaction, the graded result with it, is rolled back.
SubmitFails(p) ==
  /\ Resolves(p) /\ sit.phase = "started"
  /\ Decides("pass", TRUE) /\ ~ActiveIntake
  /\ heard' = "error"
  /\ UNCHANGED <<app, intake, sit, pages, known, told, tasks, acct, req, cli, budget>>

\* The link was replaced, the sitting is taken, or the deadline has passed.
SubmitRefused(p) ==
  /\ ~Resolves(p)
  /\ heard' = "refused"
  /\ UNCHANGED <<app, intake, sit, pages, known, told, tasks, acct, req, cli, budget>>

-----------------------------------------------------------------------------
(* The checklist and enrolment. A request keeps the applicant row it read   *)
(* at its start; a task it completes is locked and invisible to others      *)
(* until it commits.                                                        *)

Idle == [pc |-> "idle", key |-> "none", saw |-> "none", complete |-> FALSE]
Requesting == [pc : {"idle", "read", "marked"}, key : PortalKeys \cup {"none", "enroll"},
               saw : Statuses \cup {"none"}, complete : BOOLEAN]

Locked(k) == \E r \in Requests : req[r].pc = "marked" /\ req[r].key = k
RequestEnds(r) == req' = [req EXCEPT ![r] = Idle]

\* applicant_for_onboarding_token: the portal link resolves in every status.
PortalRead(r, k) ==
  /\ req[r].pc = "idle" /\ app.portal
  /\ req' = [req EXCEPT ![r] = [Idle EXCEPT !.pc = "read", !.key = k, !.saw = app.status]]
  /\ UNCHANGED <<app, intake, sit, pages, known, heard, told, tasks, acct, cli, budget>>

\* Mutant: an onboarding applicant counts as complete once this step is done.
Complete_OwnStep(r) == req[r].saw = "onboarding" /\ app.placed

\* try_auto_enroll's guard, on the row read earlier, the committed tasks and the
\* request's own uncommitted one.
Complete(r) == /\ req[r].saw = "onboarding" /\ app.placed
               /\ \A k \in Keys \ {req[r].key} : tasks[k] = "done"

\* complete_task_by_key flushes the own step, then the checklist is read.
PortalMark(r) ==
  /\ req[r].pc = "read" /\ ~Locked(req[r].key)
  /\ req' = [req EXCEPT ![r].pc = "marked", ![r].complete = Complete(r)]
  /\ UNCHANGED <<app, intake, sit, pages, known, heard, told, tasks, acct, cli, budget>>

\* enroll_applicant: reuse or create the person and the enrolment, and write
\* the status over whatever the row holds by now.
EnrolledApp == [app EXCEPT !.status = "enrolled", !.linked = TRUE]
EnrolledAcct == [acct EXCEPT !.person = TRUE, !.enrolled = TRUE]

\* A person without a credential gets an invite token that replaces the one
\* outstanding. The welcome email's key is the applicant and the person, so
\* only the first is queued; link 0 is the log-in page.
WithInvite(a) ==
  LET issued == IF a.credential THEN a.issued ELSE a.issued + 1
      link == IF a.credential THEN 0 ELSE issued
  IN  [a EXCEPT !.issued = issued,
                !.setup = IF a.credential THEN @ ELSE issued,
                !.welcome = IF @ = {} THEN {link} ELSE @]

\* A step that leaves the checklist incomplete.
PortalSaves(r) ==
  /\ req[r].pc = "marked" /\ req[r].key # "enroll" /\ ~req[r].complete
  /\ tasks' = [tasks EXCEPT ![req[r].key] = "done"]
  /\ RequestEnds(r)
  /\ UNCHANGED <<app, intake, sit, pages, known, heard, told, acct, cli, budget>>

\* The step that completes the checklist enrols, sends the welcome, and commits.
PortalEnrols(r) ==
  /\ req[r].pc = "marked" /\ req[r].key # "enroll" /\ req[r].complete /\ ActiveIntake
  /\ tasks' = [tasks EXCEPT ![req[r].key] = "done"]
  /\ app' = EnrolledApp
  /\ acct' = WithInvite(EnrolledAcct)
  /\ RequestEnds(r)
  /\ UNCHANGED <<intake, sit, pages, known, heard, told, cli, budget>>

\* The enrol endpoint: status and checklist are read without a lock ...
EnrollRead(r) ==
  /\ req[r].pc = "idle" /\ app.status = "onboarding" /\ app.placed
  /\ \A k \in Keys : tasks[k] = "done"
  /\ req' = [req EXCEPT ![r] = [pc |-> "marked", key |-> "enroll", saw |-> app.status,
                                complete |-> TRUE]]
  /\ UNCHANGED <<app, intake, sit, pages, known, heard, told, tasks, acct, cli, budget>>

\* ... and the enrolment committed later. No role, invite or email here.
EnrollCommits(r) ==
  /\ req[r].pc = "marked" /\ req[r].key = "enroll" /\ ActiveIntake
  /\ app' = EnrolledApp
  /\ acct' = EnrolledAcct
  /\ RequestEnds(r)
  /\ UNCHANGED <<intake, sit, pages, known, heard, told, tasks, cli, budget>>

\* A request that fails, by a closed intake, a lost race for the person's
\* email, or a dead process, is rolled back.
RequestFails(r) ==
  /\ req[r].pc # "idle"
  /\ RequestEnds(r)
  /\ UNCHANGED <<app, intake, sit, pages, known, heard, told, tasks, acct, cli, budget>>

\* The admin task endpoint sets any status; it waits for the task's row lock.
SetTask(k, status) ==
  /\ tasks[k] # "absent" /\ tasks[k] # status /\ ~Locked(k)
  /\ Spend(IF status = "pending" THEN "reopen" ELSE "task")
  /\ tasks' = [tasks EXCEPT ![k] = status]
  /\ UNCHANGED <<app, intake, sit, pages, known, heard, told, acct, req, cli>>

\* accept_invite consumes the newest invite and creates the credential.
AcceptInvite ==
  /\ acct.setup # 0 /\ acct.setup \in acct.welcome
  /\ acct' = [acct EXCEPT !.credential = TRUE, !.setup = 0]
  /\ UNCHANGED <<app, intake, sit, pages, known, heard, told, tasks, req, cli, budget>>

-----------------------------------------------------------------------------
Init ==
  /\ app = [status |-> "none", placed |-> FALSE, erp |-> FALSE, portal |-> FALSE, linked |-> FALSE]
  /\ intake = TRUE
  /\ sit = [token |-> NoToken, mints |-> 0, phase |-> "fresh", late |-> FALSE, draft |-> {},
            result |-> "none", level |-> "none", resets |-> 0, version |-> 0, synced |-> FALSE]
  /\ pages = {} /\ known = {} /\ heard = "none" /\ told = {}
  /\ tasks = [k \in Keys |-> "absent"]
  /\ \E person, credential \in BOOLEAN :
       /\ credential => person
       /\ acct = [person |-> person, credential |-> credential, enrolled |-> FALSE,
                  setup |-> 0, issued |-> 0, welcome |-> {}]
  /\ req = [r \in Requests |-> Idle]
  /\ cli = FALSE
  /\ budget \in Budgets

Invitations == Apply \/ ReApply \/ Reinvite \/ CliSelect \/ CliInvite \/ ExtendAccess \/ Reset
Pipeline == Accept \/ AssignIntake \/ CloseIntake \/ \E to \in Statuses : Move(to)
Sitting == \/ DeadlinePasses \/ Start \/ OpenPage
           \/ \E p \in pages : \/ Autosave(p) \/ SubmitFails(p) \/ SubmitRefused(p)
                               \/ \E r \in Results, l \in Levels, threshold \in BOOLEAN :
                                    SubmitGraded(p, r, l, threshold)
Enrolment == \/ AcceptInvite
             \/ \E k \in Keys, status \in {"pending", "done"} : SetTask(k, status)
             \/ \E r \in Requests : \/ \E k \in PortalKeys : PortalRead(r, k)
                                    \/ PortalMark(r) \/ PortalSaves(r) \/ PortalEnrols(r)
                                    \/ EnrollRead(r) \/ EnrollCommits(r) \/ RequestFails(r)

Next == Invitations \/ Pipeline \/ Sitting \/ Enrolment

Spec == Init /\ [][Next]_admVars

-----------------------------------------------------------------------------
(* Properties.                                                             *)

\* Every column holds a value of its type, tokens are minted ones, and counters
\* only count (models/admissions.py, models/onboarding.py, models/credential.py).
TypeOK ==
  /\ app \in Apps /\ sit \in Sits /\ tasks \in Checklists /\ acct \in Accts
  /\ intake \in BOOLEAN
  /\ pages \subseteq [token : Tokens, sitting : Nat]
  /\ known \subseteq Tokens
  /\ heard \in {"none", "recorded", "refused", "error"}
  /\ told \subseteq Outcomes \X Nat
  /\ req \in [Requests -> Requesting]
  /\ cli \in BOOLEAN
  /\ budget \in [Acts -> Nat]

\* Answers of an earlier sitting can never count in the present one: the stored
\* draft was typed in this sitting, and a page that can still post was opened in
\* it, whatever resets, re-invitations and open tabs came before.
NoOldAnswers ==
  /\ sit.draft \subseteq {sit.resets}
  /\ \A p \in pages : Resolves(p) => p.sitting = sit.resets

\* The link that opens the sitting reached the candidate: a mint whose email is
\* suppressed as a duplicate would lock the candidate out.
LinkReached == sit.token # NoToken => sit.token \in known

\* A recorded result stays as it is until the sitting is reset: no second tab,
\* no second start and no old page submits it again.
ResultStands ==
  [][sit.phase = "taken" /\ sit'.resets = sit.resets
       => /\ sit'.phase = "taken" /\ sit'.result = sit.result]_admVars

\* Whoever submitted a sitting got an outcome email for that sitting, also when
\* an earlier sitting of theirs already had one.
OutcomeTold == sit.phase = "taken" => \E kind \in Outcomes : <<kind, sit.resets>> \in told

\* No key of the outbox swallows a mail the candidate needs.
CandidateTold == LinkReached /\ OutcomeTold

\* An enrolment and the status say the same thing: once the learner is enrolled
\* no administrator, policy or late request takes the applicant elsewhere.
EnrolmentStands == acct.enrolled => app.status = "enrolled" /\ app.linked /\ acct.person

\* Enrolment happens only with the whole checklist done, also when requests
\* overlap. A step an administrator reopens may be done at the check and reopened after.
ChecklistGates ==
  acct.enrolled /\ Unspent("reopen") => \A k \in Keys : tasks[k] = "done"

\* An onboarding applicant has every step on the checklist and a portal link,
\* whichever of the policy, the panel and the API let them in.
OnboardingReachable ==
  app.status = "onboarding" => app.portal /\ \A k \in Keys : tasks[k] # "absent"

\* Enrolment comes of a finished checklist, which the applicant can reach, and
\* is not undone: the three parts above, which each break on their own.
EnrolmentSound == EnrolmentStands /\ ChecklistGates /\ OnboardingReachable

-----------------------------------------------------------------------------
(* What the repository says, and the code does not always do.              *)

\* services/admissions.py:46: "``enrolled`` and ``rejected`` are terminal."
RejectedStays == [][app.status = "rejected" => app'.status = "rejected"]_admVars

\* templates/onboarding.html:38: "complete the steps below and your enrollment is
\* automatic." With the checklist done and nothing in flight, the applicant is enrolled
\* (no administrator touched the steps: the runs that check this bound their acts).
ChecklistEnrols ==
  app.status = "onboarding" /\ (\A r \in Requests : req[r].pc = "idle")
    => \E k \in Keys : tasks[k] # "done"

\* services/onboarding.py:83: "used when a step self-completes, e.g. a passed
\* entrance assessment". A sitting taken during onboarding completes its step.
SittingCompletesStep ==
  app.status = "onboarding" /\ sit.result = "pass" => tasks["entrance_assessment"] = "done"

\* templates/onboarding.html:30: "We've emailed you a link to set your password".
\* While an enrolled learner has no password, the link mailed is the one that works.
SetupLinkWorks ==
  acct.enrolled /\ ~acct.credential /\ acct.welcome # {} => acct.setup \in acct.welcome

\* web/apply.py:358: "every submitter gets an outcome email", the on-screen message staying
\* neutral. No submission of a live sitting ends in an error that records nothing.
SubmissionRecorded == heard # "error"

\* services/applicant_email.py:276: "Result email for a valid sitting below the
\* auto-accept bar." The waitlist notice goes to nobody whose sitting passed.
WaitlistNoticeEarned ==
  sit.phase = "taken" /\ sit.result = "pass" => <<"waitlist", sit.resets>> \notin told

\* services/onboarding.py:3: "enrolment is gated on every task being ``done``".
\* The status says enrolled only for a learner who was enrolled.
EnrolledIsEnrolled == app.status = "enrolled" => acct.enrolled
=============================================================================
