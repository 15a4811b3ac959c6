--------------------------- MODULE AdmissionsProofs ---------------------------
(***************************************************************************)
(* Proofs about Admissions and about ErpResults around it, for every       *)
(* number of requests, every budget, and every number of lost deliveries.  *)
(***************************************************************************)
EXTENDS ErpResults, TLAPS

-----------------------------------------------------------------------------
(* Facts the actions share.                                                *)

\* Spending an act keeps the budget well typed and never raises an entry.
LEMMA SpendType ==
  ASSUME budget \in [Acts -> Nat], NEW a \in Acts, Spend(a)
  PROVE  /\ budget' \in [Acts -> Nat]
         /\ \A b \in Acts : budget'[b] <= budget[b] /\ (b # a => budget'[b] = budget[b])
  BY DEF Spend

\* A mint is a token nobody has seen: its number is above every earlier one.
LEMMA MintedFresh ==
  ASSUME sit.mints \in Nat
  PROVE  Minted \in Tokens /\ Minted[1] = "random" /\ Minted[2] = sit.mints + 1
  BY DEF Minted, Tokens

\* A new link keeps the sitting well typed and touches only the token columns.
LEMMA WithTokenType ==
  ASSUME sit \in Sits, NEW t \in Tokens
  PROVE  /\ WithToken(sit, t) \in Sits
         /\ WithToken(sit, t) = [sit EXCEPT !.token = t, !.mints = WithToken(sit, t).mints]
<1>1. t[2] \in Nat BY DEF Tokens
<1> DEFINE m == IF t[1] = "random" THEN t[2] ELSE sit.mints
<1>2. m \in Nat BY <1>1 DEF Sits
<1>3. WithToken(sit, t) = [sit EXCEPT !.token = t, !.mints = m] BY DEF WithToken
<1> HIDE DEF m
<1>4. WithToken(sit, t) \in Sits BY <1>2, <1>3 DEF Sits
<1>5. WithToken(sit, t).mints = m BY <1>3 DEF Sits
<1> QED BY <1>3, <1>4, <1>5

\* An invitation keeps the columns of the sitting and the delivered links well typed.
LEMMA InvitedType ==
  ASSUME sit \in Sits, known \subseteq Tokens, Invited
  PROVE  sit' \in Sits /\ known' \subseteq Tokens
<1>1. Minted \in Tokens BY MintedFresh DEF Sits
<1>2. WithToken(sit, Minted) \in Sits BY <1>1, WithTokenType
<1>3. sit' \in Sits BY <1>2 DEF Invited, Sits
<1>4. known' \subseteq Tokens BY <1>1 DEF Invited, SendInvite
<1> QED BY <1>3, <1>4

\* Grading fills the result columns and empties the draft.
LEMMA GradedType ==
  ASSUME sit \in Sits, NEW r \in Results, NEW l \in Levels
  PROVE  /\ Graded(r, l) \in Sits
         /\ Graded(r, l).token = sit.token /\ Graded(r, l).mints = sit.mints
         /\ Graded(r, l).resets = sit.resets /\ Graded(r, l).draft = {}
         /\ Graded(r, l).phase = "taken"
<1> DEFINE d == {}
           n == sit.version + 1
<1>1. d \in SUBSET Nat OBVIOUS
<1>2. n \in Nat BY DEF Sits
<1>3. Graded(r, l) = [sit EXCEPT !.phase = "taken", !.draft = d, !.result = r, !.level = l,
                                 !.version = n, !.synced = FALSE]
  BY DEF Graded
<1> HIDE DEF d, n
<1>4. Graded(r, l) \in Sits BY <1>1, <1>2, <1>3 DEF Sits
<1>5. /\ Graded(r, l).token = sit.token /\ Graded(r, l).mints = sit.mints
      /\ Graded(r, l).resets = sit.resets /\ Graded(r, l).draft = d
      /\ Graded(r, l).phase = "taken"
  BY <1>3 DEF Sits
<1> QED BY <1>4, <1>5 DEF d

\* Seeding adds tasks and completes none but the carried-forward one.
LEMMA SeededType ==
  ASSUME tasks \in Checklists, NEW taken
  PROVE  /\ Seeded(taken) \in Checklists
         /\ \A k \in Keys : Seeded(taken)[k] # "absent" /\ (tasks[k] = "done" => Seeded(taken)[k] = "done")
  BY DEF Seeded, Checklists

\* Issuing an invite keeps the account well typed and touches neither the
\* person nor the enrolment.
LEMMA WithInviteType ==
  ASSUME NEW a \in Accts
  PROVE  /\ WithInvite(a) \in Accts
         /\ WithInvite(a).enrolled = a.enrolled /\ WithInvite(a).person = a.person
<1> DEFINE issued == IF a.credential THEN a.issued ELSE a.issued + 1
           link == IF a.credential THEN 0 ELSE issued
           setup == IF a.credential THEN a.setup ELSE issued
           welcome == IF a.welcome = {} THEN {link} ELSE a.welcome
<1>1. issued \in Nat /\ link \in Nat /\ setup \in Nat BY DEF Accts
<1>2. a.welcome \in SUBSET Nat BY DEF Accts
<1> HIDE DEF link
<1>3. welcome \in SUBSET Nat BY <1>1, <1>2
<1>4. WithInvite(a) = [a EXCEPT !.issued = issued, !.setup = setup, !.welcome = welcome]
  BY DEF WithInvite, link
<1> HIDE DEF issued, setup, welcome
<1> QED BY <1>1, <1>3, <1>4 DEF Accts

-----------------------------------------------------------------------------
(* Types.                                                                  *)

\* Applications, invitations, extensions and resets keep every column well typed.
LEMMA InvitationsType ==
  ASSUME TypeOK, Invitations
  PROVE  TypeOK'
<1> USE DEF TypeOK
<1>1. CASE Apply
  <2>1. sit' \in Sits /\ known' \subseteq Tokens BY <1>1, InvitedType DEF Apply
  <2>2. app' \in Apps BY <1>1 DEF Apply, Apps, Statuses
  <2> QED BY <1>1, <2>1, <2>2 DEF Apply
<1>2. CASE ReApply
  <2>1. sit' \in Sits /\ known' \subseteq Tokens BY <1>2, InvitedType DEF ReApply
  <2>2. budget' \in [Acts -> Nat] BY <1>2, SpendType DEF ReApply, Acts
  <2> QED BY <1>2, <2>1, <2>2 DEF ReApply
<1>3. CASE Reinvite
  <2>1. sit' \in Sits /\ known' \subseteq Tokens BY <1>3, InvitedType DEF Reinvite
  <2>2. budget' \in [Acts -> Nat] BY <1>3, SpendType DEF Reinvite, Acts
  <2> QED BY <1>3, <2>1, <2>2 DEF Reinvite
<1>4. CASE CliSelect
  <2>1. budget' \in [Acts -> Nat] BY <1>4, SpendType DEF CliSelect, Acts
  <2> QED BY <1>4, <2>1 DEF CliSelect
<1>5. CASE CliInvite
  <2>1. sit' \in Sits /\ known' \subseteq Tokens BY <1>5, InvitedType DEF CliInvite
  <2> QED BY <1>5, <2>1 DEF CliInvite
<1>6. CASE ExtendAccess
  <2>1. sit' \in Sits BY <1>6 DEF ExtendAccess, Sits
  <2> QED BY <1>6, <2>1 DEF ExtendAccess
<1>7. CASE Reset
  <2>1. Minted \in Tokens BY MintedFresh DEF Sits
  <2>2. budget' \in [Acts -> Nat] BY <1>7, SpendType DEF Reset, Acts
  <2>5. WithToken(sit, Minted) \in Sits BY <2>1, WithTokenType
  <2>6. {} \in SUBSET Nat OBVIOUS
  <2>7. ASSUME NEW s \in Sits
        PROVE  [s EXCEPT !.phase = "fresh", !.late = FALSE, !.draft = {},
                  !.result = "none", !.level = "none", !.synced = FALSE,
                  !.resets = @ + 1] \in Sits
    <3>1. s.resets + 1 \in Nat BY DEF Sits
    <3> DEFINE n == s.resets + 1
    <3> HIDE DEF n
    <3> DEFINE d == {}
    <3>2. n \in Nat BY <3>1 DEF n
    <3>3. d \in SUBSET Nat BY <2>6
    <3> HIDE DEF d
    <3>4. [s EXCEPT !.phase = "fresh", !.late = FALSE, !.draft = d,
                  !.result = "none", !.level = "none", !.synced = FALSE,
                  !.resets = n] \in Sits
      BY <3>2, <3>3 DEF Sits
    <3> QED BY <3>4 DEF n, d
  <2>3. sit' \in Sits BY <1>7, <2>5, <2>7 DEF Reset
  <2>4. known' \subseteq Tokens BY <1>7, <2>1 DEF Reset, SendInvite
  <2> QED BY <1>7, <2>2, <2>3, <2>4 DEF Reset
<1> QED BY <1>1, <1>2, <1>3, <1>4, <1>5, <1>6, <1>7 DEF Invitations

\* Transitions, acceptance and intake changes keep every column well typed.
LEMMA PipelineType ==
  ASSUME TypeOK, Pipeline
  PROVE  TypeOK'
<1> USE DEF TypeOK
<1>1. CASE Accept
  <2>1. budget' \in [Acts -> Nat] BY <1>1, SpendType DEF Accept, Acts
  <2>2. tasks' \in Checklists
    BY <1>1, SeededType DEF Accept, EnterOnboarding
  <2>3. app' \in Apps BY <1>1 DEF Accept, EnterOnboarding, Apps, Statuses
  <2> QED BY <1>1, <2>1, <2>2, <2>3 DEF Accept
<1>2. CASE AssignIntake
  <2>1. app' \in Apps BY <1>2 DEF AssignIntake, Apps
  <2> QED BY <1>2, <2>1 DEF AssignIntake
<1>3. CASE CloseIntake
  <2>1. budget' \in [Acts -> Nat] BY <1>3, SpendType DEF CloseIntake, Acts
  <2> QED BY <1>3, <2>1 DEF CloseIntake
<1>4. ASSUME NEW to \in Statuses, Move(to) PROVE TypeOK'
  <2>1. budget' \in [Acts -> Nat] BY <1>4, SpendType DEF Move, Acts
  <2>2. tasks' \in Checklists
    BY <1>4, SeededType DEF Move, EnterOnboarding
  <2>3. app' \in Apps
    BY <1>4 DEF Move, EnterOnboarding, Apps, Statuses
  <2> QED BY <1>4, <2>1, <2>2, <2>3 DEF Move
<1> QED BY <1>1, <1>2, <1>3, <1>4 DEF Pipeline

\* Starting, saving and submitting keep every column well typed.
LEMMA SittingType ==
  ASSUME TypeOK, Sitting
  PROVE  TypeOK'
<1> USE DEF TypeOK
<1>1. CASE DeadlinePasses
  <2>1. budget' \in [Acts -> Nat] BY <1>1, SpendType DEF DeadlinePasses, Acts
  <2>2. sit' \in Sits BY <1>1 DEF DeadlinePasses, Sits
  <2> QED BY <1>1, <2>1, <2>2 DEF DeadlinePasses
<1>2. CASE Start
  <2>1. sit' \in Sits BY <1>2 DEF Start, Sits
  <2> QED BY <1>2, <2>1 DEF Start
<1>3. CASE OpenPage
  <2>1. [token |-> sit.token, sitting |-> sit.resets] \in [token : Tokens, sitting : Nat]
    BY DEF Sits
  <2> QED BY <1>3, <2>1 DEF OpenPage
<1>4. ASSUME NEW p \in pages, Autosave(p) PROVE TypeOK'
  <2>1. p.sitting \in Nat BY <1>4
  <2>2. sit' \in Sits BY <1>4, <2>1 DEF Autosave, Sits
  <2> QED BY <1>4, <2>2 DEF Autosave
<1>5. ASSUME NEW p \in pages, SubmitFails(p) PROVE TypeOK' BY <1>5 DEF SubmitFails
<1>6. ASSUME NEW p \in pages, SubmitRefused(p) PROVE TypeOK' BY <1>6 DEF SubmitRefused
<1>7. ASSUME NEW p \in pages, NEW r \in Results, NEW l \in Levels, NEW threshold \in BOOLEAN,
             SubmitGraded(p, r, l, threshold)
      PROVE  TypeOK'
  <2>1. sit' \in Sits BY <1>7, GradedType DEF SubmitGraded
  <2>7. \A kind \in Outcomes : <<kind, sit.resets>> \in Outcomes \X Nat BY DEF Sits
  <2>2. told' \subseteq Outcomes \X Nat
    BY <1>7, <2>7 DEF SubmitGraded, OutcomeKey, Outcomes
  <2>3. tasks' \in Checklists
    BY <1>7, SeededType DEF SubmitGraded, EnterOnboarding
  <2>4. app' \in Apps
    BY <1>7 DEF SubmitGraded, EnterOnboarding, Apps, Statuses
  <2> QED BY <1>7, <2>1, <2>2, <2>3, <2>4 DEF SubmitGraded
<1> QED BY <1>1, <1>2, <1>3, <1>4, <1>5, <1>6, <1>7 DEF Sitting

\* Portal requests, enrolments and invite acceptance keep every column well typed.
LEMMA EnrolmentType ==
  ASSUME TypeOK, Enrolment
  PROVE  TypeOK'
<1> USE DEF TypeOK
<1>e. /\ EnrolledApp \in Apps
      /\ EnrolledAcct \in Accts
  BY DEF EnrolledApp, EnrolledAcct, Apps, Accts, Statuses
<1>i. \A r \in Requests : RequestEnds(r) => req' \in [Requests -> Requesting]
  BY DEF RequestEnds, Idle, Requesting
<1>1. CASE AcceptInvite
  <2>1. acct' \in Accts BY <1>1 DEF AcceptInvite, Accts
  <2> QED BY <1>1, <2>1 DEF AcceptInvite
<1>2. ASSUME NEW k \in Keys, NEW status \in {"pending", "done"}, SetTask(k, status)
      PROVE  TypeOK'
  <2>1. budget' \in [Acts -> Nat]
    <3>1. CASE status = "pending" BY <1>2, <3>1, SpendType DEF SetTask, Acts
    <3>2. CASE status = "done" BY <1>2, <3>2, SpendType DEF SetTask, Acts
    <3> QED BY <3>1, <3>2
  <2>2. tasks' \in Checklists BY <1>2 DEF SetTask, Checklists
  <2> QED BY <1>2, <2>1, <2>2 DEF SetTask
<1>3. ASSUME NEW r \in Requests, NEW k \in PortalKeys, PortalRead(r, k) PROVE TypeOK'
  <2>1. [Idle EXCEPT !.pc = "read", !.key = k, !.saw = app.status] \in Requesting
    BY DEF Idle, Requesting, Apps
  <2>2. req' \in [Requests -> Requesting] BY <1>3, <2>1 DEF PortalRead
  <2> QED BY <1>3, <2>2 DEF PortalRead
<1>4. ASSUME NEW r \in Requests, PortalMark(r) PROVE TypeOK'
  <2>1. Complete(r) \in BOOLEAN BY DEF Complete
  <2>2. [req[r] EXCEPT !.pc = "marked", !.complete = Complete(r)] \in Requesting
    BY <2>1 DEF Requesting
  <2>3. req' = [req EXCEPT ![r] = [req[r] EXCEPT !.pc = "marked", !.complete = Complete(r)]]
    BY <1>4, <2>2 DEF PortalMark, Requesting
  <2>4. req' \in [Requests -> Requesting] BY <2>2, <2>3
  <2> QED BY <1>4, <2>4 DEF PortalMark
<1>5. ASSUME NEW r \in Requests, PortalSaves(r) PROVE TypeOK'
  <2>1. tasks' \in Checklists BY <1>5 DEF PortalSaves, Checklists
  <2>2. req' \in [Requests -> Requesting] BY <1>5, <1>i DEF PortalSaves
  <2> QED BY <1>5, <2>1, <2>2 DEF PortalSaves
<1>6. ASSUME NEW r \in Requests, PortalEnrols(r) PROVE TypeOK'
  <2>1. tasks' \in Checklists BY <1>6 DEF PortalEnrols, Checklists
  <2>2. req' \in [Requests -> Requesting] BY <1>6, <1>i DEF PortalEnrols
  <2>3. acct' \in Accts BY <1>6, <1>e, WithInviteType DEF PortalEnrols
  <2> QED BY <1>6, <1>e, <2>1, <2>2, <2>3 DEF PortalEnrols
<1>7. ASSUME NEW r \in Requests, EnrollRead(r) PROVE TypeOK'
  <2>1. [pc |-> "marked", key |-> "enroll", saw |-> app.status, complete |-> TRUE] \in Requesting
    BY DEF Requesting, Apps
  <2>2. req' \in [Requests -> Requesting] BY <1>7, <2>1 DEF EnrollRead
  <2> QED BY <1>7, <2>2 DEF EnrollRead
<1>8. ASSUME NEW r \in Requests, EnrollCommits(r) PROVE TypeOK'
  <2>1. req' \in [Requests -> Requesting] BY <1>8, <1>i DEF EnrollCommits
  <2> QED BY <1>8, <1>e, <2>1 DEF EnrollCommits
<1>9. ASSUME NEW r \in Requests, RequestFails(r) PROVE TypeOK'
  <2>1. req' \in [Requests -> Requesting] BY <1>9, <1>i DEF RequestFails
  <2> QED BY <1>9, <2>1 DEF RequestFails
<1> QED
  BY <1>1, <1>2, <1>3, <1>4, <1>5, <1>6, <1>7, <1>8, <1>9 DEF Enrolment

\* No step of the admissions code breaks a type.
LEMMA TypeStep ==
  ASSUME TypeOK, [Next]_admVars
  PROVE  TypeOK'
<1>1. CASE UNCHANGED admVars BY <1>1 DEF TypeOK, admVars
<1> QED
  BY <1>1, InvitationsType, PipelineType, SittingType, EnrolmentType DEF Next

\* The empty application and the accounts it may start from are well typed.
LEMMA InitType ==
  ASSUME Init
  PROVE  TypeOK
<1>1. sit \in Sits BY DEF Init, Sits, Tokens, NoToken
<1>2. acct \in Accts BY DEF Init, Accts
<1>3. app \in Apps /\ tasks \in Checklists BY DEF Init, Apps, Checklists
<1>4. req \in [Requests -> Requesting] BY DEF Init, Idle, Requesting
<1> QED BY <1>1, <1>2, <1>3, <1>4, BudgetAssumption DEF Init, TypeOK

\* Every reachable row is well typed: each handler writes a status, a task status
\* and a token the columns admit, and the counters stay numbers.
THEOREM AdmissionsTypeCorrect == Spec => []TypeOK
<1>1. Init => TypeOK BY InitType
<1>2. TypeOK /\ [Next]_admVars => TypeOK' BY TypeStep
<1> QED BY <1>1, <1>2, PTL DEF Spec

-----------------------------------------------------------------------------
(* What each group of actions leaves alone.                                *)

\* Applications and invitations touch neither checklist nor account nor requests.
LEMMA InvitationsFrame ==
  ASSUME Invitations
  PROVE  UNCHANGED <<pages, heard, told, tasks, acct, req>>
  BY DEF Invitations, Apply, ReApply, Reinvite, CliSelect, CliInvite, ExtendAccess, Reset

\* Administrators' transitions touch neither account nor requests nor open pages.
LEMMA PipelineFrame ==
  ASSUME Pipeline
  PROVE  UNCHANGED <<sit, pages, known, heard, told, acct, req, cli>>
  BY DEF Pipeline, Accept, AssignIntake, CloseIntake, Move

\* The sitting touches neither account nor requests nor links.
LEMMA SittingFrame ==
  ASSUME Sitting
  PROVE  UNCHANGED <<known, acct, req, cli, intake>>
  BY DEF Sitting, DeadlinePasses, Start, OpenPage, Autosave, SubmitGraded, SubmitFails, SubmitRefused

\* Portal and enrolment requests touch nothing of the sitting.
LEMMA EnrolmentFrame ==
  ASSUME Enrolment
  PROVE  UNCHANGED <<sit, pages, known, heard, told, intake, cli>>
  BY DEF Enrolment, AcceptInvite, SetTask, PortalRead, PortalMark, PortalSaves, PortalEnrols,
         EnrollRead, EnrollCommits, RequestFails

-----------------------------------------------------------------------------
(* Old answers. NoOldAnswers alone is not inductive: after a reset an old   *)
(* page is harmless only because its token is none the sitting will ever    *)
(* carry again. Drawn tokens are numbered below the next mint, and derived  *)
(* ERP tokens name the sitting they were derived for.                       *)

TokenInv ==
  /\ sit.token[1] = "random" => sit.token[2] <= sit.mints
  /\ sit.token[1] = "erp" => sit.token[2] = sit.resets
  /\ \A p \in pages : /\ p.token[1] = "random" => p.token[2] <= sit.mints
                      /\ p.token[1] = "erp" => p.token[2] = p.sitting
                      /\ p.token = sit.token => p.sitting = sit.resets
  /\ sit.draft \subseteq {sit.resets}

\* The link invariant speaks of the sitting and the open pages only.
LEMMA TokenInvUnchanged ==
  ASSUME TokenInv, pages' = pages, sit'.token = sit.token, sit'.mints = sit.mints,
         sit'.resets = sit.resets, sit'.draft = sit.draft
  PROVE  TokenInv'
  BY DEF TokenInv

\* A fresh mint cannot be the token of any open page.
LEMMA TokenInvMint ==
  ASSUME TypeOK, TokenInv, pages' = pages, sit'.token = Minted, sit'.mints = sit.mints + 1,
         \/ sit'.resets = sit.resets /\ sit'.draft = sit.draft
         \/ sit'.draft = {}
  PROVE  TokenInv'
<1>1. sit.mints \in Nat BY DEF TypeOK, Sits
<1>2. Minted[1] = "random" /\ Minted[2] = sit.mints + 1 BY DEF Minted
<1>3. \A p \in pages : p.token \in Tokens BY DEF TypeOK
<1>4. \A p \in pages : p.token[2] \in Nat BY <1>3 DEF Tokens
<1>5. \A p \in pages : p.token # Minted
  <2>1. ASSUME NEW p \in pages, p.token = Minted PROVE FALSE
    BY <1>1, <1>2, <2>1 DEF TokenInv
  <2> QED BY <2>1
<1>6. \A p \in pages : p.token[1] = "random" => p.token[2] <= sit.mints + 1
  BY <1>1, <1>4 DEF TokenInv
<1>7. sit'.draft \subseteq {sit'.resets} BY DEF TokenInv
<1>8. sit'.token[1] = "random" /\ sit'.token[2] <= sit'.mints BY <1>1, <1>2
<1> QED BY <1>5, <1>6, <1>7, <1>8 DEF TokenInv

\* An invitation replaces the link and keeps sitting number, phase and draft.
LEMMA InvitedTokens ==
  ASSUME TypeOK, Invited
  PROVE  /\ sit'.token = Minted /\ sit'.mints = sit.mints + 1
         /\ sit'.resets = sit.resets /\ sit'.draft = sit.draft
<1>1. sit \in Sits BY DEF TypeOK
<1>2. Minted[1] = "random" /\ Minted[2] = sit.mints + 1 BY DEF Minted
<1> QED BY <1>1, <1>2 DEF Invited, WithToken, Sits

\* No step lets an open page of an earlier sitting post into the present one.
LEMMA TokenInvStep ==
  ASSUME TypeOK, TokenInv, [Next]_admVars
  PROVE  TokenInv'
<1>0. sit \in Sits /\ pages \subseteq [token : Tokens, sitting : Nat] BY DEF TypeOK
<1>1. CASE UNCHANGED admVars BY <1>1, TokenInvUnchanged DEF admVars
<1>2. CASE Pipeline BY <1>2, PipelineFrame, TokenInvUnchanged
<1>3. CASE Enrolment BY <1>3, EnrolmentFrame, TokenInvUnchanged
<1>4. CASE Invitations
  <2>1. pages' = pages BY <1>4, InvitationsFrame
  <2>2. CASE Invited BY <2>1, <2>2, InvitedTokens, TokenInvMint
  <2>3. CASE UNCHANGED sit BY <2>1, <2>3, TokenInvUnchanged
  <2>4. CASE ExtendAccess
    <3>1. /\ sit'.token = sit.token /\ sit'.mints = sit.mints
          /\ sit'.resets = sit.resets /\ sit'.draft = sit.draft
      BY <1>0, <2>4 DEF ExtendAccess, Sits
    <3> QED BY <2>1, <3>1, TokenInvUnchanged
  <2>5. CASE Reset
    <3>1. Minted[1] = "random" /\ Minted[2] = sit.mints + 1 BY DEF Minted
    <3>2. WithToken(sit, Minted) = [sit EXCEPT !.token = Minted, !.mints = sit.mints + 1]
      BY <1>0, <3>1 DEF WithToken, Sits
    <3>3. sit'.token = Minted /\ sit'.mints = sit.mints + 1 /\ sit'.draft = {}
      BY <1>0, <2>5, <3>2 DEF Reset, Sits
    <3> QED BY <2>1, <3>3, TokenInvMint
  <2> QED
    BY <1>4, <2>2, <2>3, <2>4, <2>5
    DEF Invitations, Apply, ReApply, Reinvite, CliSelect, CliInvite
<1>5. CASE Sitting
  <2>1. CASE DeadlinePasses \/ Start
    <3>1. /\ sit'.token = sit.token /\ sit'.mints = sit.mints /\ pages' = pages
          /\ sit'.resets = sit.resets /\ sit'.draft = sit.draft
      BY <1>0, <2>1 DEF DeadlinePasses, Start, Sits
    <3> QED BY <3>1, TokenInvUnchanged
  <2>2. CASE OpenPage
    <3> DEFINE new == [token |-> sit.token, sitting |-> sit.resets]
    <3>1. pages' = pages \cup {new} /\ sit' = sit BY <2>2 DEF OpenPage
    <3>2. new.token = sit.token /\ new.sitting = sit.resets OBVIOUS
    <3> HIDE DEF new
    <3> QED BY <3>1, <3>2 DEF TokenInv
  <2>3. ASSUME NEW p \in pages, Autosave(p) PROVE TokenInv'
    <3>1. p.sitting = sit.resets BY <2>3 DEF Autosave, Resolves, TokenInv
    <3>2. /\ sit'.token = sit.token /\ sit'.mints = sit.mints /\ pages' = pages
          /\ sit'.resets = sit.resets /\ sit'.draft = {p.sitting}
      BY <1>0, <2>3 DEF Autosave, Sits
    <3> QED BY <3>1, <3>2 DEF TokenInv
  <2>4. ASSUME NEW p \in pages, NEW r \in Results, NEW l \in Levels, NEW threshold \in BOOLEAN,
               SubmitGraded(p, r, l, threshold)
        PROVE  TokenInv'
    <3>1. /\ sit'.token = sit.token /\ sit'.mints = sit.mints /\ pages' = pages
          /\ sit'.resets = sit.resets /\ sit'.draft = {}
      BY <1>0, <2>4, GradedType DEF SubmitGraded
    <3> QED BY <3>1 DEF TokenInv
  <2>5. ASSUME NEW p \in pages, SubmitFails(p) \/ SubmitRefused(p) PROVE TokenInv'
    BY <2>5, TokenInvUnchanged DEF SubmitFails, SubmitRefused
  <2> QED BY <1>5, <2>1, <2>2, <2>3, <2>4, <2>5 DEF Sitting
<1> QED BY <1>1, <1>2, <1>3, <1>4, <1>5 DEF Next

\* At the start no page is open and no draft is stored.
LEMMA TokenInvInit ==
  ASSUME Init
  PROVE  TokenInv
  BY DEF Init, TokenInv, NoToken

\* The link invariant implies that only answers of the present sitting count.
LEMMA TokenInvSuffices ==
  ASSUME TokenInv
  PROVE  NoOldAnswers
  BY DEF TokenInv, NoOldAnswers, Resolves

\* However often a sitting is reset, its link replaced, or an old tab left open:
\* the answers stored and the pages that may still post belong to the present sitting.
THEOREM NoOldAnswersEver == Spec => []NoOldAnswers
<1>1. Init => TypeOK /\ TokenInv BY InitType, TokenInvInit
<1>2. TypeOK /\ TokenInv /\ [Next]_admVars => (TypeOK /\ TokenInv)' BY TypeStep, TokenInvStep
<1>3. TypeOK /\ TokenInv => NoOldAnswers BY TokenInvSuffices
<1> QED BY <1>1, <1>2, <1>3, PTL DEF Spec

-----------------------------------------------------------------------------
(* The enrolment and the status. Nothing leaves "enrolled": the pipeline has *)
(* no transition out of it and the policy acts on "applied" only, so a late  *)
(* writer of the status can only be another enrolment.                       *)

\* No step separates the status from the enrolment.
LEMMA EnrolmentStandsStep ==
  ASSUME TypeOK, EnrolmentStands, [Next]_admVars
  PROVE  EnrolmentStands'
<1>0. app \in Apps /\ acct \in Accts BY DEF TypeOK
<1>1. CASE UNCHANGED <<app, acct>> BY <1>1 DEF EnrolmentStands
<1>2. CASE Invitations
  <2>1. acct' = acct BY <1>2, InvitationsFrame
  <2>2. CASE Apply BY <2>1, <2>2 DEF Apply, EnrolmentStands
  <2>3. CASE ~Apply
    BY <1>1, <1>2, <2>1, <2>3
    DEF Invitations, ReApply, Reinvite, CliSelect, CliInvite, ExtendAccess, Reset
  <2> QED BY <2>2, <2>3
<1>3. CASE Pipeline
  <2>1. acct' = acct BY <1>3, PipelineFrame
  <2>2. CASE Accept BY <2>1, <2>2 DEF Accept, EnrolmentStands
  <2>3. CASE AssignIntake BY <1>0, <2>1, <2>3 DEF AssignIntake, EnrolmentStands, Apps
  <2>4. CASE CloseIntake BY <1>1, <2>1, <2>4 DEF CloseIntake
  <2>5. ASSUME NEW to \in Statuses, Move(to) PROVE EnrolmentStands'
    <3>1. Allowed["enrolled"] = {} BY DEF Allowed, Statuses
    <3>2. app.status # "enrolled" BY <2>5, <3>1 DEF Move
    <3> QED BY <2>1, <3>2 DEF EnrolmentStands
  <2> QED BY <1>3, <2>2, <2>3, <2>4, <2>5 DEF Pipeline
<1>4. CASE Sitting
  <2>1. acct' = acct BY <1>4, SittingFrame
  <2>2. ASSUME NEW p \in pages, NEW r \in Results, NEW l \in Levels, NEW threshold \in BOOLEAN,
               SubmitGraded(p, r, l, threshold)
        PROVE  EnrolmentStands'
    <3>1. CASE app' = app BY <1>1, <2>1, <3>1
    <3>2. CASE app.status = "applied" BY <2>1, <3>2 DEF EnrolmentStands
    <3> QED BY <2>2, <3>1, <3>2 DEF SubmitGraded, Decides
  <2>3. CASE UNCHANGED app BY <1>1, <2>1, <2>3
  <2> QED
    BY <1>4, <2>2, <2>3
    DEF Sitting, DeadlinePasses, Start, OpenPage, Autosave, SubmitFails, SubmitRefused
<1>5. CASE Enrolment
  <2>1. /\ EnrolledApp.status = "enrolled" /\ EnrolledApp.linked
        /\ EnrolledAcct \in Accts /\ EnrolledAcct.person
    BY <1>0 DEF EnrolledApp, EnrolledAcct, Apps, Accts
  <2>2. CASE AcceptInvite
    <3>1. app' = app /\ acct'.enrolled = acct.enrolled /\ acct'.person = acct.person
      BY <1>0, <2>2 DEF AcceptInvite, Accts
    <3> QED BY <3>1 DEF EnrolmentStands
  <2>3. ASSUME NEW r \in Requests, PortalEnrols(r) PROVE EnrolmentStands'
    BY <2>1, <2>3, WithInviteType DEF PortalEnrols, EnrolmentStands
  <2>4. ASSUME NEW r \in Requests, EnrollCommits(r) PROVE EnrolmentStands'
    BY <2>1, <2>4 DEF EnrollCommits, EnrolmentStands
  <2> QED
    BY <1>1, <1>5, <2>2, <2>3, <2>4
    DEF Enrolment, SetTask, PortalRead, PortalMark, PortalSaves, EnrollRead, RequestFails
<1> QED BY <1>1, <1>2, <1>3, <1>4, <1>5 DEF Next, admVars

\* Once enrolled, an applicant is enrolled for good: with any number of
\* overlapping requests, no administrator's or policy's write undoes the status.
THEOREM EnrolmentStandsEver == Spec => []EnrolmentStands
<1>1. Init => TypeOK /\ EnrolmentStands
  <2>1. ASSUME Init PROVE ~acct.enrolled BY <2>1 DEF Init
  <2> QED BY <2>1, InitType DEF EnrolmentStands
<1>2. TypeOK /\ EnrolmentStands /\ [Next]_admVars => (TypeOK /\ EnrolmentStands)'
  BY TypeStep, EnrolmentStandsStep
<1> QED BY <1>1, <1>2, PTL DEF Spec

-----------------------------------------------------------------------------
(* The checklist. Between a request's check and its commit the checklist     *)
(* only gains completed tasks, unless an administrator reopens one.          *)

ReopenKept == budget'["reopen"] <= budget["reopen"]
DoneKept == \A k \in Keys : tasks[k] = "done" => tasks'[k] = "done"

ChecklistGains == ReopenKept /\ (budget'["reopen"] = budget["reopen"] => DoneKept)

\* A step reopens a finished task only by spending a reopening.
LEMMA ChecklistOnlyGains ==
  ASSUME TypeOK, Next
  PROVE  ChecklistGains
<1>0. budget["reopen"] \in Nat /\ "reopen" \in Acts /\ tasks \in Checklists
  BY DEF TypeOK, Acts
<1>s. ASSUME NEW a \in Acts \ {"reopen"}, Spend(a) PROVE budget'["reopen"] = budget["reopen"]
  BY <1>0, <1>s, SpendType DEF TypeOK
<1>g. ASSUME budget'["reopen"] = budget["reopen"], DoneKept PROVE ChecklistGains
  BY <1>0, <1>g DEF ChecklistGains, ReopenKept
<1>u. tasks' = tasks => DoneKept BY DEF DoneKept
<1>1. CASE Invitations
  <2>1. tasks' = tasks BY <1>1, InvitationsFrame
  <2>2. budget'["reopen"] = budget["reopen"]
    BY <1>1, <1>s
    DEF Invitations, Apply, ReApply, Reinvite, CliSelect, CliInvite, ExtendAccess, Reset, Acts
  <2> QED BY <1>g, <1>u, <2>1, <2>2
<1>2. CASE Pipeline
  <2>1. budget'["reopen"] = budget["reopen"]
    BY <1>2, <1>s DEF Pipeline, Accept, AssignIntake, CloseIntake, Move, Acts
  <2>2. DoneKept
    BY <1>2, <1>0, SeededType
    DEF Pipeline, Accept, AssignIntake, CloseIntake, Move, EnterOnboarding, DoneKept
  <2> QED BY <1>g, <2>1, <2>2
<1>3. CASE Sitting
  <2>1. budget'["reopen"] = budget["reopen"]
    BY <1>3, <1>s
    DEF Sitting, DeadlinePasses, Start, OpenPage, Autosave, SubmitGraded, SubmitFails,
        SubmitRefused, Acts
  <2>2. ASSUME NEW p \in pages, NEW r \in Results, NEW l \in Levels, NEW threshold \in BOOLEAN,
               SubmitGraded(p, r, l, threshold)
        PROVE  DoneKept
    <3>1. CASE tasks' = Seeded(TRUE) BY <1>0, <3>1, SeededType DEF DoneKept
    <3> QED BY <1>u, <2>2, <3>1 DEF SubmitGraded, EnterOnboarding
  <2>3. DoneKept
    BY <1>3, <1>u, <2>2
    DEF Sitting, DeadlinePasses, Start, OpenPage, Autosave, SubmitFails, SubmitRefused
  <2> QED BY <1>g, <2>1, <2>3
<1>4. CASE Enrolment
  <2>1. ASSUME NEW k \in Keys, SetTask(k, "done") PROVE ChecklistGains
    <3>1. budget'["reopen"] = budget["reopen"] BY <1>s, <2>1 DEF SetTask, Acts
    <3>2. DoneKept BY <1>0, <2>1 DEF SetTask, Checklists, DoneKept
    <3> QED BY <1>g, <3>1, <3>2
  <2>2. ASSUME NEW k \in Keys, SetTask(k, "pending") PROVE ChecklistGains
    <3>1. Spend("reopen") BY <2>2 DEF SetTask
    <3>2. budget'["reopen"] = budget["reopen"] - 1 BY <1>0, <3>1 DEF Spend, TypeOK
    <3> QED BY <1>0, <3>2 DEF ChecklistGains, ReopenKept
  <2>3. ASSUME NEW r \in Requests, PortalSaves(r) \/ PortalEnrols(r) PROVE ChecklistGains
    <3>1. DoneKept BY <1>0, <2>3 DEF PortalSaves, PortalEnrols, Checklists, DoneKept
    <3> QED BY <1>g, <2>3, <3>1 DEF PortalSaves, PortalEnrols
  <2>4. CASE UNCHANGED <<tasks, budget>> BY <1>g, <1>u, <2>4
  <2> QED
    BY <1>4, <2>1, <2>2, <2>3, <2>4
    DEF Enrolment, AcceptInvite, PortalRead, PortalMark, EnrollRead, EnrollCommits, RequestFails
<1> QED BY <1>1, <1>2, <1>3, <1>4 DEF Next

\* ChecklistGates is not inductive: a commit relies on what its request saw.
OthersDone(r) == \A k \in Keys \ {req[r].key} : tasks[k] = "done"
GateInv ==
  /\ \E b \in Budgets : budget["reopen"] <= b["reopen"]
  /\ \A r \in Requests : /\ req[r].key = "enroll" => req[r].complete
                         /\ req[r].pc = "read" => req[r].key # "enroll"
  /\ Unspent("reopen")
       => \A r \in Requests : req[r].complete => OthersDone(r)
  /\ ChecklistGates

\* No step lets an enrolment commit, or wait to commit, with an open task.
LEMMA GateStep ==
  ASSUME TypeOK, GateInv, [Next]_admVars
  PROVE  GateInv'
<1> USE DEF GateInv, OthersDone, ChecklistGates
<1>0. budget["reopen"] \in Nat /\ budget'["reopen"] \in Nat
      /\ \A b \in Budgets : b["reopen"] \in Nat
  BY TypeStep, BudgetAssumption DEF TypeOK, Acts
<1>t. tasks \in Checklists /\ acct \in Accts /\ req \in [Requests -> Requesting] BY DEF TypeOK
<1>1. CASE UNCHANGED admVars BY <1>1 DEF admVars, Unspent
<1>2. CASE Next
  <2>1. ReopenKept /\ (budget'["reopen"] = budget["reopen"] => DoneKept)
    BY <1>2, ChecklistOnlyGains DEF ChecklistGains
  <2>2. \E b \in Budgets : budget'["reopen"] <= b["reopen"] BY <1>0, <2>1 DEF ReopenKept
  <2>3. ASSUME Unspent("reopen")'
        PROVE  Unspent("reopen") /\ DoneKept
    BY <1>0, <2>1, <2>3 DEF ReopenKept, Unspent
  <2>4. CASE req' = req /\ (acct'.enrolled => acct.enrolled)
    BY <2>2, <2>3, <2>4 DEF DoneKept
  <2>5. ASSUME NEW r \in Requests, acct' = acct,
               \/ \E k \in PortalKeys : PortalRead(r, k)
               \/ PortalMark(r) \/ EnrollRead(r) \/ RequestFails(r) \/ PortalSaves(r)
        PROVE  GateInv'
    <3>1. \A q \in Requests \ {r} : req'[q] = req[q]
      BY <1>t, <2>5 DEF PortalRead, PortalMark, EnrollRead, RequestFails, PortalSaves, RequestEnds
    <3>2. /\ req'[r].key = "enroll" => req'[r].complete
          /\ req'[r].pc = "read" => req'[r].key # "enroll"
          /\ req'[r].complete => \A k \in Keys \ {req'[r].key} : tasks[k] = "done"
      <4>1. ASSUME NEW k \in PortalKeys, PortalRead(r, k)
            PROVE  req'[r].key = k /\ ~req'[r].complete /\ k # "enroll"
        BY <1>t, <4>1 DEF PortalRead, Idle, PortalKeys, Keys
      <4>2. CASE PortalMark(r)
        <5>1. req[r] \in Requesting BY <1>t
        <5>2. req'[r] = [req[r] EXCEPT !.pc = "marked", !.complete = Complete(r)]
          BY <1>t, <4>2 DEF PortalMark
        <5>3. /\ req'[r].key = req[r].key /\ req'[r].complete = Complete(r)
              /\ req'[r].pc = "marked"
          BY <5>1, <5>2 DEF Requesting
        <5>4. req[r].key # "enroll" BY <4>2 DEF PortalMark
        <5> QED BY <5>3, <5>4 DEF Complete
      <4>3. CASE EnrollRead(r) BY <1>t, <4>3 DEF EnrollRead
      <4>4. CASE RequestEnds(r) BY <1>t, <4>4 DEF RequestEnds, Idle
      <4> QED BY <2>5, <4>1, <4>2, <4>3, <4>4 DEF RequestFails, PortalSaves
    <3> QED BY <2>2, <2>3, <2>5, <3>1, <3>2 DEF DoneKept
  <2>6. ASSUME NEW r \in Requests, PortalEnrols(r) \/ EnrollCommits(r)
        PROVE  GateInv'
    <3>1. \A q \in Requests \ {r} : req'[q] = req[q]
      BY <1>t, <2>6 DEF PortalEnrols, EnrollCommits, RequestEnds
    <3>2. req'[r] = Idle BY <1>t, <2>6 DEF PortalEnrols, EnrollCommits, RequestEnds
    <3>3. Unspent("reopen") => \A k \in Keys : tasks'[k] = "done"
      <4>1. CASE PortalEnrols(r) BY <1>t, <4>1 DEF PortalEnrols, Checklists
      <4>2. CASE EnrollCommits(r)
        <5>1. "enroll" \notin Keys BY DEF Keys
        <5> QED BY <4>2, <5>1 DEF EnrollCommits
      <4> QED BY <2>6, <4>1, <4>2
    <3>4. budget' = budget BY <2>6 DEF PortalEnrols, EnrollCommits
    <3> QED BY <2>2, <2>3, <3>1, <3>2, <3>3, <3>4 DEF DoneKept, Idle
  <2>7. CASE Invitations BY <2>4, <2>7, InvitationsFrame
  <2>8. CASE Pipeline BY <2>4, <2>8, PipelineFrame
  <2>9. CASE Sitting BY <2>4, <2>9, SittingFrame
  <2>10. CASE Enrolment
    <3>1. CASE AcceptInvite BY <1>t, <2>4, <3>1 DEF AcceptInvite, Accts
    <3>2. ASSUME NEW k \in Keys, NEW status \in {"pending", "done"}, SetTask(k, status)
          PROVE  GateInv'
      BY <2>4, <3>2 DEF SetTask
    <3>3. ASSUME NEW r \in Requests, NEW k \in PortalKeys, PortalRead(r, k) PROVE GateInv'
      BY <2>5, <3>3 DEF PortalRead
    <3>4. ASSUME NEW r \in Requests,
                 PortalMark(r) \/ EnrollRead(r) \/ RequestFails(r) \/ PortalSaves(r)
          PROVE  GateInv'
      BY <2>5, <3>4 DEF PortalMark, EnrollRead, RequestFails, PortalSaves
    <3> QED BY <2>6, <2>10, <3>1, <3>2, <3>3, <3>4 DEF Enrolment
  <2> QED BY <1>2, <2>7, <2>8, <2>9, <2>10 DEF Next
<1> QED BY <1>1, <1>2

\* No overlap of portal and enrol requests enrols an applicant with an open step,
\* as long as no administrator reopens one.
THEOREM ChecklistGatesEver == Spec => []ChecklistGates
<1>1. Init => TypeOK /\ GateInv
  <2>1. ASSUME Init PROVE GateInv
    <3>1. \E b \in Budgets : budget["reopen"] <= b["reopen"]
      BY <2>1, BudgetAssumption DEF Init, Acts
    <3>2. \A r \in Requests : req[r] = Idle BY <2>1 DEF Init
    <3>3. ~acct.enrolled BY <2>1 DEF Init
    <3> QED BY <3>1, <3>2, <3>3 DEF GateInv, ChecklistGates, Idle
  <2> QED BY <2>1, InitType
<1>2. TypeOK /\ GateInv /\ [Next]_admVars => (TypeOK /\ GateInv)' BY TypeStep, GateStep
<1>3. GateInv => ChecklistGates BY DEF GateInv
<1> QED BY <1>1, <1>2, <1>3, PTL DEF Spec

-----------------------------------------------------------------------------
(* Entering onboarding. Every way in seeds the checklist and mints the link; *)
(* no way exists to lose either afterwards.                                  *)

\* No step leaves an onboarding applicant without a link or with a missing task.
LEMMA OnboardingReachableStep ==
  ASSUME TypeOK, OnboardingReachable, [Next]_admVars
  PROVE  OnboardingReachable'
<1>0. app \in Apps /\ tasks \in Checklists BY DEF TypeOK
<1>1. CASE UNCHANGED <<app, tasks>> BY <1>1 DEF OnboardingReachable
<1>2. ASSUME NEW taken, EnterOnboarding(taken) PROVE OnboardingReachable'
  BY <1>0, <1>2, SeededType DEF EnterOnboarding, OnboardingReachable, Apps
<1>3. ASSUME app'.status # "onboarding" PROVE OnboardingReachable'
  BY <1>3 DEF OnboardingReachable
<1>4. ASSUME app'.status = app.status, app'.portal = app.portal, tasks' = tasks
      PROVE  OnboardingReachable'
  BY <1>4 DEF OnboardingReachable
<1>5. CASE Invitations
  <2>1. tasks' = tasks BY <1>5, InvitationsFrame
  <2>2. CASE Apply BY <1>0, <1>3, <2>2 DEF Apply, Apps
  <2> QED
    BY <1>1, <1>5, <2>1, <2>2
    DEF Invitations, ReApply, Reinvite, CliSelect, CliInvite, ExtendAccess, Reset
<1>6. CASE Pipeline
  <2>1. CASE Accept BY <1>2, <2>1 DEF Accept
  <2>2. CASE AssignIntake BY <1>0, <1>4, <2>2 DEF AssignIntake, Apps
  <2>3. CASE CloseIntake BY <1>1, <2>3 DEF CloseIntake
  <2>4. ASSUME NEW to \in Statuses, Move(to) PROVE OnboardingReachable'
    <3>1. CASE to = "onboarding" BY <1>2, <2>4, <3>1 DEF Move
    <3>2. CASE to # "onboarding"
      <4>1. app'.status = to BY <1>0, <2>4, <3>2 DEF Move, Apps
      <4> QED BY <1>3, <3>2, <4>1
    <3> QED BY <3>1, <3>2
  <2> QED BY <1>6, <2>1, <2>2, <2>3, <2>4 DEF Pipeline
<1>7. CASE Sitting
  <2>1. ASSUME NEW p \in pages, NEW r \in Results, NEW l \in Levels, NEW threshold \in BOOLEAN,
               SubmitGraded(p, r, l, threshold)
        PROVE  OnboardingReachable'
    <3>1. CASE EnterOnboarding(TRUE) BY <1>2, <3>1
    <3>2. CASE app' = [app EXCEPT !.status = "waitlisted"]
      BY <1>0, <1>3, <3>2 DEF Apps
    <3>3. CASE UNCHANGED <<app, tasks>> BY <1>1, <3>3
    <3> QED BY <2>1, <3>1, <3>2, <3>3 DEF SubmitGraded
  <2> QED
    BY <1>1, <1>7, <2>1
    DEF Sitting, DeadlinePasses, Start, OpenPage, Autosave, SubmitFails, SubmitRefused
<1>8. CASE Enrolment
  <2>1. CASE app' = EnrolledApp
    BY <1>0, <1>3, <2>1 DEF EnrolledApp, Apps
  <2>2. ASSUME NEW k \in Keys, NEW status \in {"pending", "done"}, app' = app,
               tasks' = [tasks EXCEPT ![k] = status]
        PROVE  OnboardingReachable'
    BY <1>0, <2>2 DEF OnboardingReachable, Checklists
  <2>3. ASSUME NEW k \in Keys, NEW status \in {"pending", "done"}, SetTask(k, status)
        PROVE  OnboardingReachable'
    BY <2>2, <2>3 DEF SetTask
  <2>4. ASSUME NEW r \in Requests, PortalSaves(r) PROVE OnboardingReachable'
    <3>1. req[r].key = "none" \/ req[r].key \in Keys
      BY <2>4 DEF TypeOK, Requesting, PortalKeys, PortalSaves
    <3>2. CASE req[r].key \in Keys BY <2>2, <2>4, <3>2 DEF PortalSaves
    <3>3. CASE req[r].key = "none"
      <4>1. tasks' = tasks BY <1>0, <2>4, <3>3 DEF PortalSaves, Checklists, Keys
      <4> QED BY <1>1, <2>4, <4>1 DEF PortalSaves
    <3> QED BY <3>1, <3>2, <3>3
  <2>5. ASSUME NEW r \in Requests, PortalEnrols(r) \/ EnrollCommits(r)
        PROVE  OnboardingReachable'
    BY <2>1, <2>5 DEF PortalEnrols, EnrollCommits
  <2> QED
    BY <1>1, <1>8, <2>3, <2>4, <2>5
    DEF Enrolment, AcceptInvite, PortalRead, PortalMark, EnrollRead, RequestFails
<1> QED BY <1>1, <1>5, <1>6, <1>7, <1>8 DEF Next, admVars

\* Whichever of the policy, the panel and the API lets an applicant in, the portal
\* opens for them and shows every step.
THEOREM OnboardingReachableEver == Spec => []OnboardingReachable
<1>1. Init => TypeOK /\ OnboardingReachable
  <2>1. Init => app.status = "none" BY DEF Init
  <2> QED BY <2>1, InitType DEF OnboardingReachable
<1>2. TypeOK /\ OnboardingReachable /\ [Next]_admVars => (TypeOK /\ OnboardingReachable)'
  BY TypeStep, OnboardingReachableStep
<1> QED BY <1>1, <1>2, PTL DEF Spec

\* The three together, as the runs check them: an enrolment stands, comes of a
\* finished checklist, and the portal that leads to it is open.
THEOREM EnrolmentSoundEver == Spec => []EnrolmentSound
<1>1. EnrolmentStands /\ ChecklistGates /\ OnboardingReachable => EnrolmentSound
  BY DEF EnrolmentSound
<1> QED BY <1>1, EnrolmentStandsEver, ChecklistGatesEver, OnboardingReachableEver, PTL

-----------------------------------------------------------------------------
(* A recorded result.                                                       *)

\* A step that changes the columns of a sitting already taken replaces its link,
\* and only a reset replaces its result.
LEMMA ResultStandsStep ==
  ASSUME TypeOK, [Next]_admVars, sit.phase = "taken", sit'.resets = sit.resets
  PROVE  sit'.phase = "taken" /\ sit'.result = sit.result
<1>0. sit \in Sits BY DEF TypeOK
<1>1. CASE sit' = sit BY <1>1
<1>2. CASE Invited
  <2>1. Minted \in Tokens BY <1>0, MintedFresh DEF Sits
  <2>2. WithToken(sit, Minted) \in Sits /\ WithToken(sit, Minted).phase = sit.phase
        /\ WithToken(sit, Minted).result = sit.result
    BY <1>0, <2>1, WithTokenType DEF WithToken, Sits
  <2> QED BY <1>2, <2>2 DEF Invited, Sits
<1>3. ~Reset
  <2>1. ASSUME Reset PROVE FALSE
    <3>1. Minted \in Tokens BY <1>0, MintedFresh DEF Sits
    <3>2. WithToken(sit, Minted) \in Sits /\ WithToken(sit, Minted).resets = sit.resets
      BY <1>0, <3>1, WithTokenType DEF WithToken, Sits
    <3>3. sit'.resets = sit.resets + 1 BY <2>1, <3>2 DEF Reset, Sits
    <3>4. sit.resets \in Nat BY <1>0 DEF Sits
    <3> QED BY <3>3, <3>4
  <2> QED BY <2>1
<1>4. ~ExtendAccess /\ ~DeadlinePasses /\ ~Start BY DEF ExtendAccess, DeadlinePasses, Start
<1>5. ASSUME NEW p \in pages PROVE ~Autosave(p) BY DEF Autosave, Resolves
<1>6. ASSUME NEW p \in pages, NEW r \in Results, NEW l \in Levels, NEW threshold \in BOOLEAN
      PROVE  ~SubmitGraded(p, r, l, threshold)
  BY DEF SubmitGraded, Resolves
<1>7. CASE Invitations
  BY <1>1, <1>2, <1>3, <1>4, <1>7 DEF Invitations, Apply, ReApply, Reinvite, CliSelect, CliInvite
<1>8. CASE Sitting
  BY <1>1, <1>4, <1>5, <1>6, <1>8 DEF Sitting, OpenPage, SubmitFails, SubmitRefused
<1>9. CASE Pipeline BY <1>1, <1>9, PipelineFrame
<1>10. CASE Enrolment BY <1>1, <1>10, EnrolmentFrame
<1> QED BY <1>1, <1>7, <1>8, <1>9, <1>10 DEF Next, admVars

\* No second tab, old page or re-invitation changes a result before a reset does.
THEOREM ResultStandsEver == Spec => ResultStands
<1>1. TypeOK /\ [Next]_admVars
        => [sit.phase = "taken" /\ sit'.resets = sit.resets
              => sit'.phase = "taken" /\ sit'.result = sit.result]_admVars
  BY ResultStandsStep
<1> QED BY <1>1, AdmissionsTypeCorrect, PTL DEF Spec, ResultStands

-----------------------------------------------------------------------------
(* Types. That a process carries a recorded result needs that a row with a   *)
(* result has been graded: its version is positive.                          *)

VersionInv == sit.phase = "taken" \/ sit.result # "none" => sit.version > 0

\* Grading raises the version, a reset clears the result, nothing else touches them.
LEMMA VersionStep ==
  ASSUME TypeOK, VersionInv, [Next]_admVars
  PROVE  VersionInv'
<1>0. sit \in Sits BY DEF TypeOK
<1>1. CASE UNCHANGED sit BY <1>1 DEF VersionInv
<1>2. CASE UNCHANGED <<sit.phase, sit.result, sit.version>> BY <1>2 DEF VersionInv
<1>3. CASE Invited
  <2>1. WithToken(sit, Minted).phase = sit.phase /\ WithToken(sit, Minted).result = sit.result
        /\ WithToken(sit, Minted).version = sit.version
    BY <1>0 DEF WithToken, Sits
  <2>2. Minted \in Tokens BY <1>0, MintedFresh DEF Sits
  <2>3. WithToken(sit, Minted) \in Sits BY <1>0, <2>2, WithTokenType
  <2> QED BY <1>2, <1>3, <2>1, <2>3 DEF Invited, Sits
<1>4. CASE ExtendAccess \/ DeadlinePasses \/ \E p \in pages : Autosave(p)
  BY <1>0, <1>2, <1>4 DEF ExtendAccess, DeadlinePasses, Autosave, Sits
<1>5. CASE Start BY <1>0, <1>5 DEF Start, Sits, VersionInv
<1>6. CASE Reset
  <2>1. sit'.phase = "fresh" /\ sit'.result = "none"
    <3>1. Minted \in Tokens BY <1>0, MintedFresh DEF Sits
    <3>2. WithToken(sit, Minted) \in Sits BY <1>0, <3>1, WithTokenType
    <3> QED BY <1>6, <3>2 DEF Reset, Sits
  <2> QED BY <2>1 DEF VersionInv
<1>7. ASSUME NEW r \in Results, NEW l \in Levels, sit' = Graded(r, l)
      PROVE  VersionInv'
  BY <1>0, <1>7 DEF Graded, Sits, VersionInv
<1>8. CASE Pipeline BY <1>1, <1>8, PipelineFrame
<1>9. CASE Enrolment BY <1>1, <1>9, EnrolmentFrame
<1>10. CASE Sitting
  BY <1>1, <1>4, <1>5, <1>7, <1>10 DEF Sitting, OpenPage, SubmitGraded, SubmitFails, SubmitRefused
<1>11. CASE Invitations
  BY <1>1, <1>3, <1>4, <1>6, <1>11
  DEF Invitations, Apply, ReApply, Reinvite, CliSelect, CliInvite
<1> QED BY <1>1, <1>8, <1>9, <1>10, <1>11 DEF Next, admVars

ErpInv == ErpTypeOK /\ TokenInv /\ VersionInv

\* The ERP starts with nothing of the applicant.
LEMMA ErpInvInit ==
  ASSUME ErpInit
  PROVE  ErpInv
<1>1. Init BY DEF ErpInit
<1>2. TypeOK /\ TokenInv BY <1>1, InitType, TokenInvInit
<1>3. VersionInv BY <1>1 DEF Init, VersionInv
<1>4. NoPayload \in Payloads BY DEF NoPayload, Payloads
<1> QED
  BY <1>2, <1>3, <1>4, MaxLostAssumption DEF ErpInit, ErpInv, ErpTypeOK, NoToken, Tokens

\* A registration response writes a token derived for the present sitting.
LEMMA ReturnsInv ==
  ASSUME ErpInv, Returns(IntegrationToken), pages' = pages
  PROVE  /\ sit' \in Sits /\ url' \in Tokens /\ known' \subseteq Tokens
         /\ TokenInv' /\ VersionInv'
<1>0. sit \in Sits /\ known \subseteq Tokens BY DEF ErpInv, ErpTypeOK, TypeOK
<1> DEFINE t == IntegrationToken
<1>1. t \in Tokens /\ t[1] = "erp" /\ t[2] = sit.resets
  BY <1>0 DEF IntegrationToken, Tokens, Sits
<1>2. sit' = WithToken(sit, t) /\ url' = t /\ known' = known \cup {t} BY DEF Returns
<1> HIDE DEF t
<1>3. sit' = [sit EXCEPT !.token = t, !.mints = sit.mints]
  BY <1>1, <1>2 DEF WithToken
<1>4. sit' \in Sits BY <1>1, <1>2, <1>0, WithTokenType
<1>5. /\ sit'.token = t /\ sit'.mints = sit.mints /\ sit'.resets = sit.resets
      /\ sit'.draft = sit.draft /\ sit'.phase = sit.phase /\ sit'.result = sit.result
      /\ sit'.version = sit.version
  BY <1>0, <1>3 DEF Sits
<1>6. TokenInv' BY <1>1, <1>5 DEF ErpInv, TokenInv
<1>7. VersionInv' BY <1>5 DEF ErpInv, VersionInv
<1> QED BY <1>1, <1>2, <1>0, <1>4, <1>6, <1>7

\* A first registration creates the row, a retry rewrites its token.
LEMMA RegistrationInv ==
  ASSUME ErpInv, Registration
  PROVE  ErpInv'
<1>1. Returns(IntegrationToken) /\ pages' = pages
  BY DEF Registration, RegisterNew, RegisterAgain
<1>2. sit' \in Sits /\ url' \in Tokens /\ known' \subseteq Tokens /\ TokenInv' /\ VersionInv'
  BY <1>1, ReturnsInv
<1>3. app' \in Apps
  BY DEF Registration, RegisterNew, RegisterAgain, ErpInv, ErpTypeOK, TypeOK, Apps, Statuses
<1>4. budget' \in [Acts -> Nat]
  BY SpendType DEF Registration, RegisterNew, RegisterAgain, ErpInv, ErpTypeOK, TypeOK, Acts
<1>5. UNCHANGED <<intake, pages, heard, told, tasks, acct, req, cli, sync, band, erp, lost>>
  BY DEF Registration, RegisterNew, RegisterAgain
<1> QED BY <1>2, <1>3, <1>4, <1>5 DEF ErpInv, ErpTypeOK, TypeOK

\* A change of marker, level or version leaves links and pages alone.
LEMMA ColumnsInv ==
  ASSUME ErpInv, sit' \in Sits, sit'.token = sit.token, sit'.mints = sit.mints,
         sit'.resets = sit.resets, sit'.draft = sit.draft, sit'.phase = sit.phase,
         sit'.result = sit.result, sit'.version = sit.version \/ sit'.version > 0,
         UNCHANGED <<app, intake, pages, known, heard, told, tasks, acct, req, cli>>,
         budget' \in [Acts -> Nat]
  PROVE  TypeOK' /\ TokenInv' /\ VersionInv'
<1>1. TypeOK' BY DEF ErpInv, ErpTypeOK, TypeOK
<1>2. TokenInv' BY TokenInvUnchanged DEF ErpInv
<1>3. VersionInv' BY DEF ErpInv, VersionInv
<1> QED BY <1>1, <1>2, <1>3

\* What the sweep sends was recorded, and a stamp changes nothing but the marker.
LEMMA DeliveryInv ==
  ASSUME ErpInv, Delivery
  PROVE  ErpInv'
<1>0. sit \in Sits /\ budget \in [Acts -> Nat] BY DEF ErpInv, ErpTypeOK, TypeOK
<1>1. NoPayload \in Payloads BY DEF NoPayload, Payloads
<1>2. CASE SyncLoad
  <2>1. Payload \in Payloads /\ Payload.version = sit.version
    BY <1>0 DEF Payload, Payloads, Sits
  <2>2. sit.version > 0 BY <1>2 DEF SyncLoad, ErpInv, VersionInv
  <2>3. UNCHANGED <<admVars, url, band, erp, lost>> BY <1>2 DEF SyncLoad
  <2>4. sync' \in [pc : {"idle", "loaded", "accepted"}, sent : Payloads]
        /\ sync'.sent.version > 0
    BY <1>2, <2>1, <2>2 DEF SyncLoad
  <2>5. TypeOK' /\ TokenInv' /\ VersionInv'
    BY <1>0, <2>3, ColumnsInv DEF admVars
  <2> QED BY <2>3, <2>4, <2>5 DEF ErpInv, ErpTypeOK
<1>3. CASE ErpAccepts \/ SyncLost
  <2>1. UNCHANGED <<admVars, url, band>> BY <1>3 DEF ErpAccepts, SyncLost
  <2>2. TypeOK' /\ TokenInv' /\ VersionInv'
    BY <1>0, <2>1, ColumnsInv DEF admVars
  <2>3. erp' \in Payloads BY <1>3 DEF ErpAccepts, SyncLost, Kept, ErpInv, ErpTypeOK
  <2>4. lost' \in 0..MaxLost
    BY <1>3, MaxLostAssumption DEF ErpAccepts, SyncLost, ErpInv, ErpTypeOK
  <2>5. sync' \in [pc : {"idle", "loaded", "accepted"}, sent : Payloads]
        /\ (sync'.pc # "idle" => sync'.sent.version > 0)
    BY <1>1, <1>3 DEF ErpAccepts, SyncLost, ErpInv, ErpTypeOK
  <2> QED BY <2>1, <2>2, <2>3, <2>4, <2>5 DEF ErpInv, ErpTypeOK
<1>4. CASE SyncStamp
  <2>1. sit' = [sit EXCEPT !.synced = TRUE] BY <1>4 DEF SyncStamp
  <2>2. /\ sit' \in Sits /\ sit'.token = sit.token /\ sit'.mints = sit.mints
        /\ sit'.resets = sit.resets /\ sit'.draft = sit.draft /\ sit'.phase = sit.phase
        /\ sit'.result = sit.result /\ sit'.version = sit.version
    BY <1>0, <2>1 DEF Sits
  <2>3. UNCHANGED <<app, intake, pages, known, heard, told, tasks, acct, req, cli, budget, url,
                    band, erp, lost>>
    BY <1>4 DEF SyncStamp
  <2>4. TypeOK' /\ TokenInv' /\ VersionInv' BY <1>0, <2>2, <2>3, ColumnsInv
  <2>5. sync' \in [pc : {"idle", "loaded", "accepted"}, sent : Payloads] /\ sync'.pc = "idle"
    BY <1>1, <1>4 DEF SyncStamp
  <2> QED BY <2>3, <2>4, <2>5 DEF ErpInv, ErpTypeOK
<1> QED BY <1>2, <1>3, <1>4 DEF Delivery

\* The re-banding command writes a level and a version above the one it read.
LEMMA BandingInv ==
  ASSUME ErpInv, Banding
  PROVE  ErpInv'
<1>0. sit \in Sits /\ budget \in [Acts -> Nat] BY DEF ErpInv, ErpTypeOK, TypeOK
<1>1. CASE BandLoad
  <2>1. sit.version > 0 BY <1>1 DEF BandLoad, ErpInv, VersionInv
  <2>2. UNCHANGED <<app, intake, sit, pages, known, heard, told, tasks, acct, req, cli, url, sync,
                    erp, lost>>
    BY <1>1 DEF BandLoad
  <2>3. budget' \in [Acts -> Nat] BY <1>0, <1>1, SpendType DEF BandLoad, Acts
  <2>4. TypeOK' /\ TokenInv' /\ VersionInv' BY <1>0, <2>2, <2>3, ColumnsInv
  <2>5. band' \in [busy : BOOLEAN, version : Nat, level : Levels \cup {"none"}, synced : BOOLEAN]
        /\ band'.version > 0
    BY <1>0, <1>1, <2>1 DEF BandLoad, Sits
  <2> QED BY <2>2, <2>4, <2>5 DEF ErpInv, ErpTypeOK
<1>2. ASSUME NEW l \in Levels, BandWrite(l) PROVE ErpInv'
  <2>1. band.busy /\ band.version \in Nat BY <1>2 DEF BandWrite, ErpInv, ErpTypeOK
  <2> DEFINE n == band.version + 1
             m == IF band.synced THEN FALSE ELSE sit.synced
  <2>2. n \in Nat /\ n > 0 BY <2>1
  <2>3. m \in BOOLEAN
    <3>1. sit.synced \in BOOLEAN BY <1>0 DEF Sits
    <3> QED BY <3>1
  <2>4. sit' = sit \/ sit' = [sit EXCEPT !.level = l, !.version = n, !.synced = m]
    BY <1>2 DEF BandWrite
  <2> HIDE DEF n, m
  <2>5. /\ sit' \in Sits /\ sit'.token = sit.token /\ sit'.mints = sit.mints
        /\ sit'.resets = sit.resets /\ sit'.draft = sit.draft /\ sit'.phase = sit.phase
        /\ sit'.result = sit.result /\ (sit'.version = sit.version \/ sit'.version > 0)
    BY <1>0, <2>2, <2>3, <2>4 DEF Sits
  <2>6. UNCHANGED <<app, intake, pages, known, heard, told, tasks, acct, req, cli, budget, url,
                    sync, erp, lost>>
    BY <1>2 DEF BandWrite
  <2>7. TypeOK' /\ TokenInv' /\ VersionInv' BY <1>0, <2>5, <2>6, ColumnsInv
  <2>8. band' \in [busy : BOOLEAN, version : Nat, level : Levels \cup {"none"}, synced : BOOLEAN]
        /\ ~band'.busy
    BY <1>2 DEF BandWrite
  <2> QED BY <2>6, <2>7, <2>8 DEF ErpInv, ErpTypeOK
<1> QED BY <1>1, <1>2 DEF Banding

\* No step of the applicant, the ERP, the sweep or the command breaks the invariant.
LEMMA ErpInvStep ==
  ASSUME ErpInv, [ErpNext]_vars
  PROVE  ErpInv'
<1>1. ASSUME [Next]_admVars, UNCHANGED erpVars PROVE ErpInv'
  <2>1. TypeOK /\ TokenInv /\ VersionInv BY DEF ErpInv, ErpTypeOK
  <2>2. TypeOK' /\ TokenInv' /\ VersionInv'
    BY <1>1, <2>1, TypeStep, TokenInvStep, VersionStep
  <2> QED BY <1>1, <2>2 DEF ErpInv, ErpTypeOK, erpVars
<1> QED BY <1>1, RegistrationInv, DeliveryInv, BandingInv DEF ErpNext, vars

-----------------------------------------------------------------------------
\* Whatever the timer, the command and the ERP's retries do to the row, its columns
\* keep their types, and both processes only ever carry a result that was recorded.
THEOREM ErpTypeCorrect == ErpSpec => []ErpTypeOK
<1>1. ErpInit => ErpInv BY ErpInvInit
<1>2. ErpInv /\ [ErpNext]_vars => ErpInv' BY ErpInvStep
<1>3. ErpInv => ErpTypeOK BY DEF ErpInv
<1> QED BY <1>1, <1>2, <1>3, PTL DEF ErpSpec

\* Retried registrations hand out the same token again, also one an old tab still
\* holds: because it is derived from the number of resets, the tab that can post with
\* it was opened in the present sitting.
THEOREM ErpNoOldAnswersEver == ErpSpec => []NoOldAnswers
<1>1. ErpInit => ErpInv BY ErpInvInit
<1>2. ErpInv /\ [ErpNext]_vars => ErpInv' BY ErpInvStep
<1>3. ErpInv => NoOldAnswers BY TokenInvSuffices DEF ErpInv
<1> QED BY <1>1, <1>2, <1>3, PTL DEF ErpSpec
-----------------------------------------------------------------------------
(* What the candidate and the ERP are told. The facts a step of the          *)
(* applicant's side needs: the columns of a result move only on start, reset *)
(* and grading, and what was mailed stays mailed.                            *)

ResultUnchanged == /\ sit'.phase = sit.phase /\ sit'.result = sit.result
                   /\ sit'.level = sit.level /\ sit'.version = sit.version
                   /\ sit'.resets = sit.resets

Starts == /\ sit.phase = "fresh" /\ sit'.phase = "started" /\ sit'.result = sit.result
          /\ sit'.level = sit.level /\ sit'.version = sit.version
          /\ sit'.resets = sit.resets

Resets == /\ sit'.phase = "fresh" /\ sit'.result = "none" /\ sit'.version = sit.version
          /\ sit'.resets = sit.resets + 1

Grades == /\ sit.phase = "started" /\ sit'.phase = "taken" /\ sit'.version = sit.version + 1
          /\ sit'.resets = sit.resets
          /\ \E kind \in Outcomes : <<kind, sit.resets>> \in told'

\* An invitation changes the link and the deadline, and the link it writes is sent.
LEMMA InvitedResult ==
  ASSUME sit \in Sits, Invited
  PROVE  ResultUnchanged /\ sit'.token \in known'
<1>1. Minted \in Tokens BY MintedFresh DEF Sits
<1>2. /\ WithToken(sit, Minted) \in Sits
      /\ WithToken(sit, Minted) = [sit EXCEPT !.token = Minted, !.mints = WithToken(sit, Minted).mints]
  BY <1>1, WithTokenType
<1> DEFINE s == WithToken(sit, Minted)
<1>3. /\ s.token = Minted /\ s.phase = sit.phase /\ s.result = sit.result
      /\ s.level = sit.level /\ s.version = sit.version /\ s.resets = sit.resets
  BY <1>2 DEF Sits
<1>4. s \in Sits BY <1>2
<1>5. sit' = [s EXCEPT !.late = FALSE] /\ known' = known \cup {Minted}
  BY DEF Invited, SendInvite
<1> HIDE DEF s
<1>6. sit'.token = s.token /\ sit'.phase = s.phase /\ sit'.result = s.result
      /\ sit'.level = s.level /\ sit'.version = s.version /\ sit'.resets = s.resets
  BY <1>4, <1>5 DEF Sits
<1> QED BY <1>3, <1>5, <1>6 DEF ResultUnchanged

\* A reset clears the result, keeps the number of the last one, and sends a new link.
LEMMA ResetResult ==
  ASSUME sit \in Sits, Reset
  PROVE  Resets /\ sit'.token \in known'
<1>1. Minted \in Tokens BY MintedFresh DEF Sits
<1> DEFINE s == WithToken(sit, Minted)
<1>2. s \in Sits /\ s = [sit EXCEPT !.token = Minted, !.mints = s.mints]
  BY <1>1, WithTokenType
<1>3. s.token = Minted /\ s.version = sit.version /\ s.resets = sit.resets
  BY <1>2 DEF Sits
<1>4. s \in Sits BY <1>2
<1> DEFINE n == s.resets + 1
<1>5. sit' = [s EXCEPT !.phase = "fresh", !.late = FALSE, !.draft = {}, !.result = "none",
                       !.level = "none", !.synced = FALSE, !.resets = n]
      /\ known' = known \cup {Minted}
  BY DEF Reset, SendInvite
<1>6. n = sit.resets + 1 BY <1>3
<1> HIDE DEF s, n
<1>7. sit'.token = s.token /\ sit'.phase = "fresh" /\ sit'.result = "none"
      /\ sit'.version = s.version /\ sit'.resets = n
  BY <1>4, <1>5 DEF Sits
<1> QED BY <1>3, <1>5, <1>6, <1>7 DEF Resets

\* A graded submission is numbered, and its outcome email is queued with it.
LEMMA SubmitResult ==
  ASSUME sit \in Sits, NEW p \in pages, NEW r \in Results, NEW l \in Levels,
         NEW threshold \in BOOLEAN, SubmitGraded(p, r, l, threshold)
  PROVE  Grades /\ sit'.token = sit.token
<1>1. sit.phase = "started" /\ sit' = Graded(r, l) BY DEF SubmitGraded
<1>2. /\ sit'.phase = "taken" /\ sit'.resets = sit.resets /\ sit'.token = sit.token
      /\ sit'.version = sit.version + 1
  BY <1>1, GradedType DEF Graded, Sits
<1>3. \E kind \in Outcomes : <<kind, sit.resets>> \in told'
  <2>1. CASE Decides(r, threshold) /\ r = "pass"
    BY <2>1 DEF SubmitGraded, Outcomes
  <2>2. CASE Decides(r, threshold) /\ r # "pass"
    BY <2>2 DEF SubmitGraded, Outcomes, OutcomeKey
  <2>3. CASE ~Decides(r, threshold)
    BY <2>3 DEF SubmitGraded, Outcomes, OutcomeKey
  <2> QED BY <2>1, <2>2, <2>3
<1> QED BY <1>1, <1>2, <1>3 DEF Grades

\* Every step of the applicant, the panel and the policy is one of the four, and
\* the link of the row is the old one or one that is sent.
LEMMA ResultSteps ==
  ASSUME TypeOK, [Next]_admVars
  PROVE  /\ ResultUnchanged \/ Starts \/ Resets \/ Grades
         /\ sit'.token = sit.token \/ sit'.token \in known'
<1>0. sit \in Sits BY DEF TypeOK
<1>1. CASE sit' = sit BY <1>1 DEF ResultUnchanged
<1>2. CASE Invited BY <1>0, <1>2, InvitedResult
<1>3. CASE Reset BY <1>0, <1>3, ResetResult
<1>4. CASE ExtendAccess \/ DeadlinePasses \/ \E p \in pages : Autosave(p)
  <2>1. /\ sit'.phase = sit.phase /\ sit'.result = sit.result /\ sit'.level = sit.level
        /\ sit'.version = sit.version /\ sit'.resets = sit.resets /\ sit'.token = sit.token
    BY <1>0, <1>4 DEF ExtendAccess, DeadlinePasses, Autosave, Sits
  <2> QED BY <2>1 DEF ResultUnchanged
<1>5. CASE Start
  <2>1. /\ sit.phase = "fresh" /\ sit'.phase = "started" /\ sit'.result = sit.result
        /\ sit'.level = sit.level /\ sit'.version = sit.version /\ sit'.resets = sit.resets
        /\ sit'.token = sit.token
    BY <1>0, <1>5 DEF Start, Sits
  <2> QED BY <2>1 DEF Starts
<1>6. ASSUME NEW p \in pages, NEW r \in Results, NEW l \in Levels, NEW threshold \in BOOLEAN,
             SubmitGraded(p, r, l, threshold)
      PROVE  Grades /\ sit'.token = sit.token
  BY <1>0, <1>6, SubmitResult
<1>7. CASE Invitations
  BY <1>1, <1>2, <1>3, <1>4, <1>7 DEF Invitations, Apply, ReApply, Reinvite, CliSelect, CliInvite
<1>8. CASE Sitting
  BY <1>1, <1>4, <1>5, <1>6, <1>8 DEF Sitting, OpenPage, SubmitFails, SubmitRefused
<1>9. CASE Pipeline BY <1>1, <1>9, PipelineFrame
<1>10. CASE Enrolment BY <1>1, <1>10, EnrolmentFrame
<1> QED BY <1>1, <1>7, <1>8, <1>9, <1>10 DEF Next, admVars

\* What was sent stays sent.
LEMMA SentStays ==
  ASSUME [Next]_admVars
  PROVE  known \subseteq known' /\ told \subseteq told'
<1>1. CASE UNCHANGED admVars BY <1>1 DEF admVars
<1>2. CASE Invitations
  <2>1. told' = told BY <1>2, InvitationsFrame
  <2>2. Invited => known \subseteq known' BY DEF Invited, SendInvite
  <2>3. Reset => known \subseteq known' BY DEF Reset, SendInvite
  <2> QED
    BY <1>2, <2>1, <2>2, <2>3
    DEF Invitations, Apply, ReApply, Reinvite, CliSelect, CliInvite, ExtendAccess
<1>3. CASE Pipeline BY <1>3, PipelineFrame
<1>4. CASE Enrolment BY <1>4, EnrolmentFrame
<1>5. CASE Sitting
  <2>1. known' = known BY <1>5, SittingFrame
  <2>2. told \subseteq told'
    BY <1>5
    DEF Sitting, DeadlinePasses, Start, OpenPage, Autosave, SubmitGraded, SubmitFails, SubmitRefused
  <2> QED BY <2>1, <2>2
<1> QED BY <1>1, <1>2, <1>3, <1>4, <1>5 DEF Next

\* A step that sends what it writes, and grades only what it reports, tells the candidate.
LEMMA ToldStep ==
  ASSUME TypeOK, CandidateTold, known \subseteq known', told \subseteq told',
         ResultUnchanged \/ Starts \/ Resets \/ Grades,
         sit'.token = sit.token \/ sit'.token \in known'
  PROVE  CandidateTold'
<1>1. LinkReached' BY DEF CandidateTold, LinkReached
<1>2. OutcomeTold'
  BY DEF CandidateTold, OutcomeTold, ResultUnchanged, Starts, Resets, Grades
<1> QED BY <1>1, <1>2 DEF CandidateTold

\* At the start there is no link to send and nothing to report.
LEMMA ToldInit ==
  ASSUME Init
  PROVE  CandidateTold
<1>1. sit.token = NoToken /\ sit.phase = "fresh" BY DEF Init
<1> QED BY <1>1 DEF CandidateTold, LinkReached, OutcomeTold

\* An applicant who can open the sitting was sent its link, and one who submitted it was
\* sent an outcome of that sitting: no idempotency key swallows a mail, however often the
\* link was replaced and the sitting reset.
THEOREM CandidateAlwaysTold == Spec => []CandidateTold
<1>1. Init => TypeOK /\ CandidateTold
  BY InitType, ToldInit
<1>2. TypeOK /\ CandidateTold /\ [Next]_admVars => (TypeOK /\ CandidateTold)'
  BY TypeStep, ResultSteps, SentStays, ToldStep
<1> QED BY <1>1, <1>2, PTL DEF Spec

\* A registration writes the token it returns, and leaves the result alone.
LEMMA RegistrationResult ==
  ASSUME sit \in Sits, Registration
  PROVE  /\ ResultUnchanged /\ sit'.token \in known' /\ known \subseteq known'
         /\ told' = told
<1>1. Returns(IntegrationToken) /\ told' = told
  BY DEF Registration, RegisterNew, RegisterAgain
<1> DEFINE t == IntegrationToken
           s == WithToken(sit, t)
<1>2. t \in Tokens BY DEF IntegrationToken, Tokens, Sits
<1>3. s = [sit EXCEPT !.token = t, !.mints = s.mints] BY <1>2, WithTokenType
<1>4. sit' = s /\ known' = known \cup {t} BY <1>1 DEF Returns
<1> HIDE DEF s, t
<1>5. sit'.token = t /\ ResultUnchanged BY <1>3, <1>4 DEF Sits, ResultUnchanged
<1> QED BY <1>1, <1>4, <1>5

\* The same holds with the ERP handing the link out again: what it returns, it wrote.
THEOREM ErpCandidateAlwaysTold == ErpSpec => []CandidateTold
<1> DEFINE I == ErpInv /\ CandidateTold
<1>1. ErpInit => I
  BY ErpInvInit, ToldInit DEF ErpInit
<1>2. I /\ [ErpNext]_vars => I'
  <2> SUFFICES ASSUME I, [ErpNext]_vars PROVE CandidateTold' BY ErpInvStep
  <2>0. TypeOK /\ sit \in Sits BY DEF ErpInv, ErpTypeOK, TypeOK
  <2>1. CASE [Next]_admVars BY <2>0, <2>1, ResultSteps, SentStays, ToldStep
  <2>2. CASE Registration BY <2>0, <2>2, RegistrationResult, ToldStep
  <2>3. CASE Delivery \/ Banding
    <3>1. known' = known /\ told' = told
      BY <2>3 DEF Delivery, SyncLoad, ErpAccepts, SyncLost, SyncStamp, Banding, BandLoad, BandWrite,
                  admVars
    <3>2. sit'.token = sit.token /\ sit'.phase = sit.phase /\ sit'.resets = sit.resets
      BY <2>0, <2>3, ErpInvStep
      DEF Delivery, SyncLoad, ErpAccepts, SyncLost, SyncStamp, Banding, BandLoad, BandWrite,
          admVars, Sits
    <3> QED BY <3>1, <3>2 DEF CandidateTold, LinkReached, OutcomeTold
  <2> QED BY <2>1, <2>2, <2>3 DEF ErpNext, vars
<1>3. I => CandidateTold OBVIOUS
<1> QED BY <1>1, <1>2, <1>3, PTL DEF ErpSpec

-----------------------------------------------------------------------------
(* Version numbers. VersionIsSitting is not inductive: that no result is     *)
(* confused with another of its number needs that neither the ERP nor a      *)
(* delivery in flight holds a number above the row's, which grading raises   *)
(* and a reset keeps, and that the re-banding command, which writes its own  *)
(* number, has read the present row. The last fails once a reset overtakes   *)
(* the command: the property excepts that case and so does the invariant.    *)

Corrected == sit.resets > 0 /\ ~Unspent("reband")

Numbered(q) == /\ q.version <= sit.version
               /\ sit.phase = "taken" /\ q.version = sit.version => q = Payload

Current == /\ Numbered(erp) /\ Numbered(sync.sent)
           /\ band.busy => /\ sit.phase = "taken"
                           /\ band.version = sit.version /\ band.level = sit.level

VersionsInv ==
  /\ \E b \in Budgets : budget["reband"] <= b["reband"]
  /\ band.busy => ~Unspent("reband")
  /\ sit.result # "none" => sit.phase = "taken"
  /\ Corrected \/ Current

\* Only the command spends its budget.
LEMMA RebandFrame ==
  ASSUME TypeOK, [Next]_admVars
  PROVE  budget'["reband"] = budget["reband"]
<1>0. budget \in [Acts -> Nat] BY DEF TypeOK
<1>1. ASSUME NEW a \in Acts \ {"reband"}, Spend(a) PROVE budget'["reband"] = budget["reband"]
  BY <1>0, <1>1, SpendType DEF Acts
<1>2. CASE budget' = budget BY <1>2
<1>3. \A a \in {"apply", "invite", "reset", "close", "late", "move", "task", "reopen"} :
        a \in Acts \ {"reband"}
  BY DEF Acts
<1>4. CASE Invitations
  BY <1>1, <1>2, <1>3, <1>4
  DEF Invitations, Apply, ReApply, Reinvite, CliSelect, CliInvite, ExtendAccess, Reset
<1>5. CASE Pipeline
  BY <1>1, <1>2, <1>3, <1>5 DEF Pipeline, Accept, AssignIntake, CloseIntake, Move
<1>6. CASE Sitting
  BY <1>1, <1>2, <1>3, <1>6
  DEF Sitting, DeadlinePasses, Start, OpenPage, Autosave, SubmitGraded, SubmitFails, SubmitRefused
<1>7. CASE Enrolment
  <2>1. ASSUME NEW k \in Keys, NEW status \in {"pending", "done"}, SetTask(k, status)
        PROVE  budget'["reband"] = budget["reband"]
    <3>1. Spend(IF status = "pending" THEN "reopen" ELSE "task") BY <2>1 DEF SetTask
    <3>2. (IF status = "pending" THEN "reopen" ELSE "task") \in Acts \ {"reband"} BY DEF Acts
    <3> QED BY <3>1, <3>2, <1>1
  <2> QED
    BY <1>2, <1>7, <2>1
    DEF Enrolment, AcceptInvite, PortalRead, PortalMark, PortalSaves, PortalEnrols,
        EnrollRead, EnrollCommits, RequestFails
<1> QED BY <1>2, <1>4, <1>5, <1>6, <1>7 DEF Next, admVars

\* Once a re-banding has run it has run, so the excepted case stays.
LEMMA CorrectedStays ==
  ASSUME BudgetAssumption, sit.resets \in Nat, sit'.resets \in Nat, sit'.resets >= sit.resets,
         budget["reband"] \in Nat, budget'["reband"] \in Nat,
         budget'["reband"] <= budget["reband"]
  PROVE  /\ Corrected => Corrected'
         /\ ~Unspent("reband") => ~Unspent("reband")'
         /\ (\E b \in Budgets : budget["reband"] <= b["reband"])
              => (\E b \in Budgets : budget'["reband"] <= b["reband"])
<1>1. \A b \in Budgets : b["reband"] \in Nat BY DEF BudgetAssumption, Acts
<1> QED BY <1>1 DEF Corrected, Unspent

\* Grading, resets and starts leave every number the ERP may hold a past one.
LEMMA VersionsApplicant ==
  ASSUME ErpInv, VersionsInv, [Next]_admVars, UNCHANGED erpVars, TypeOK'
  PROVE  VersionsInv'
<1>0. /\ TypeOK /\ sit \in Sits /\ sit' \in Sits /\ budget \in [Acts -> Nat]
      /\ budget' \in [Acts -> Nat] /\ sync.sent \in Payloads /\ erp \in Payloads
  BY DEF ErpInv, ErpTypeOK, TypeOK
<1>1. budget'["reband"] = budget["reband"] BY <1>0, RebandFrame
<1>2. /\ budget["reband"] \in Nat /\ sit.resets \in Nat /\ sit'.resets \in Nat
      /\ sit.version \in Nat /\ sit'.version \in Nat
  BY <1>0 DEF Acts, Sits
<1>3. ResultUnchanged \/ Starts \/ Resets \/ Grades BY <1>0, ResultSteps
<1>4. sit'.resets >= sit.resets BY <1>2, <1>3 DEF ResultUnchanged, Starts, Resets, Grades
<1>5. /\ Corrected => Corrected'
      /\ ~Unspent("reband") => ~Unspent("reband")'
      /\ \E b \in Budgets : budget'["reband"] <= b["reband"]
  BY <1>1, <1>2, <1>4, CorrectedStays, BudgetAssumption DEF VersionsInv
<1>6. sync' = sync /\ band' = band /\ erp' = erp BY DEF erpVars
<1>7. sit'.result # "none" => sit'.phase = "taken"
  BY <1>3 DEF ResultUnchanged, Starts, Resets, Grades, VersionsInv
<1>8. ASSUME Current, ~Corrected' PROVE Current'
  <2>1. ASSUME NEW q \in Payloads, Numbered(q)
        PROVE  q.version <= sit'.version
               /\ (sit'.phase = "taken" /\ q.version = sit'.version => q = Payload')
    <3>1. q.version \in Nat BY DEF Payloads
    <3>2. CASE ResultUnchanged
      BY <2>1, <3>2 DEF Numbered, Payload, ResultUnchanged
    <3>3. CASE Starts \/ Resets \/ Grades
      BY <1>2, <2>1, <3>1, <3>3 DEF Numbered, Starts, Resets, Grades
    <3> QED BY <1>3, <3>2, <3>3
  <2>2. Numbered(erp)' /\ Numbered(sync.sent)'
    BY <1>0, <1>6, <1>8, <2>1 DEF Current, Numbered
  <2>3. ASSUME band.busy
        PROVE  sit'.phase = "taken" /\ band.version = sit'.version /\ band.level = sit'.level
    <3>1. ~Unspent("reband")' BY <1>5, <2>3 DEF VersionsInv
    <3>2. sit'.resets = 0 BY <1>2, <1>8, <3>1 DEF Corrected
    <3>3. ~Resets BY <1>2, <3>2 DEF Resets
    <3>4. sit.phase = "taken" BY <1>8, <2>3 DEF Current
    <3>5. ResultUnchanged BY <1>3, <3>3, <3>4 DEF Starts, Grades
    <3> QED BY <1>8, <2>3, <3>5 DEF Current, ResultUnchanged
  <2> QED BY <1>6, <2>2, <2>3 DEF Current
<1> QED BY <1>5, <1>6, <1>7, <1>8 DEF VersionsInv

\* A registration numbers nothing.
LEMMA VersionsRegistration ==
  ASSUME ErpInv, VersionsInv, Registration, ErpInv'
  PROVE  VersionsInv'
<1>0. /\ sit \in Sits /\ sit' \in Sits /\ budget \in [Acts -> Nat] /\ budget' \in [Acts -> Nat]
  BY DEF ErpInv, ErpTypeOK, TypeOK
<1>1. ResultUnchanged BY <1>0, RegistrationResult
<1>2. Spend("erp") /\ sync' = sync /\ band' = band /\ erp' = erp
  BY DEF Registration, RegisterNew, RegisterAgain
<1>3. budget'["reband"] = budget["reband"] BY <1>0, <1>2, SpendType DEF Acts
<1>4. budget["reband"] \in Nat /\ sit.resets \in Nat BY <1>0 DEF Acts, Sits
<1>5. sit'.resets = sit.resets BY <1>1 DEF ResultUnchanged
<1>6. /\ Corrected => Corrected'
      /\ ~Unspent("reband") => ~Unspent("reband")'
      /\ \E b \in Budgets : budget'["reband"] <= b["reband"]
  BY <1>3, <1>4, <1>5, CorrectedStays, BudgetAssumption DEF VersionsInv
<1>7. Current => Current' BY <1>1, <1>2 DEF Current, Numbered, Payload, ResultUnchanged
<1>8. sit'.result # "none" => sit'.phase = "taken" BY <1>1 DEF VersionsInv, ResultUnchanged
<1> QED BY <1>2, <1>6, <1>7, <1>8 DEF VersionsInv

\* The sweep carries the row's own result, and the ERP keeps the greater number.
LEMMA VersionsDelivery ==
  ASSUME ErpInv, VersionsInv, Delivery
  PROVE  VersionsInv'
<1>0. /\ sit \in Sits /\ sync.sent \in Payloads /\ erp \in Payloads
      /\ (sit.phase = "taken" => sit.version > 0)
  BY DEF ErpInv, ErpTypeOK, TypeOK, VersionInv
<1>1. ResultUnchanged /\ budget' = budget /\ band' = band
  <2>1. budget' = budget /\ band' = band
    BY DEF Delivery, SyncLoad, ErpAccepts, SyncLost, SyncStamp, admVars
  <2>2. sit' = sit \/ sit' = [sit EXCEPT !.synced = TRUE]
    BY DEF Delivery, SyncLoad, ErpAccepts, SyncLost, SyncStamp, admVars
  <2>3. ResultUnchanged BY <1>0, <2>2 DEF ResultUnchanged, Sits
  <2> QED BY <2>1, <2>3
<1>2. Payload' = Payload /\ Payload \in Payloads /\ Payload.version = sit.version
  BY <1>0, <1>1 DEF Payload, Payloads, ResultUnchanged, Sits
<1>3. Numbered(NoPayload)
  BY <1>0 DEF Numbered, NoPayload, Sits
<1>4. Numbered(Payload) BY <1>0, <1>2 DEF Numbered, Sits
<1>5. ASSUME Current
      PROVE  Numbered(erp') /\ Numbered(sync'.sent)
  <2>1. Numbered(erp) /\ Numbered(sync.sent) BY <1>5 DEF Current
  <2>2. erp' \in {erp, sync.sent}
    BY DEF Delivery, SyncLoad, ErpAccepts, SyncLost, SyncStamp, Kept
  <2>3. sync'.sent \in {Payload, NoPayload, sync.sent}
    BY DEF Delivery, SyncLoad, ErpAccepts, SyncLost, SyncStamp, ErpInv, ErpTypeOK
  <2> QED BY <1>3, <1>4, <2>1, <2>2, <2>3
<1>6. Current => Current'
  BY <1>1, <1>2, <1>5 DEF Current, Numbered, ResultUnchanged
<1> QED BY <1>1, <1>6 DEF VersionsInv, Corrected, Unspent, ResultUnchanged

\* The command reads a recorded result, and what it corrects gets a number of its own.
LEMMA VersionsBanding ==
  ASSUME ErpInv, VersionsInv, Banding, ErpInv'
  PROVE  VersionsInv'
<1>0. /\ sit \in Sits /\ sit' \in Sits /\ sync.sent \in Payloads /\ erp \in Payloads
      /\ budget \in [Acts -> Nat] /\ budget' \in [Acts -> Nat]
  BY DEF ErpInv, ErpTypeOK, TypeOK
<1>1. budget["reband"] \in Nat /\ budget'["reband"] \in Nat /\ sit.resets \in Nat
      /\ sit.version \in Nat
  BY <1>0 DEF Acts, Sits
<1>2. sync' = sync /\ erp' = erp BY DEF Banding, BandLoad, BandWrite
<1>3. CASE BandLoad
  <2>1. sit' = sit /\ Spend("reband") BY <1>3 DEF BandLoad
  <2>2. budget'["reband"] = budget["reband"] - 1 BY <1>0, <2>1 DEF Spend, Acts
  <2>3. ~Unspent("reband")'
    <3>1. PICK b \in Budgets : budget["reband"] <= b["reband"] BY DEF VersionsInv
    <3>2. b["reband"] \in Nat BY BudgetAssumption DEF Acts
    <3>3. ~(b["reband"] <= budget'["reband"]) BY <1>1, <2>2, <3>1, <3>2
    <3> QED BY <3>3 DEF Unspent
  <2>4. Corrected => Corrected' BY <2>1, <2>3 DEF Corrected
  <2>5. \E b \in Budgets : budget'["reband"] <= b["reband"]
    <3>1. budget'["reband"] <= budget["reband"] BY <1>1, <2>2
    <3> QED BY <1>1, <2>1, <3>1, CorrectedStays, BudgetAssumption DEF VersionsInv
  <2>6. sit.phase = "taken" BY <1>3 DEF BandLoad, VersionsInv
  <2>7. band'.version = sit.version /\ band'.level = sit.level BY <1>3 DEF BandLoad
  <2>8. Current => Current' BY <1>2, <2>1, <2>6, <2>7 DEF Current, Numbered, Payload
  <2> QED BY <2>1, <2>3, <2>4, <2>5, <2>8 DEF VersionsInv
<1>4. ASSUME NEW l \in Levels, BandWrite(l) PROVE VersionsInv'
  <2>1. budget' = budget /\ ~band'.busy /\ band.busy BY <1>4 DEF BandWrite
  <2>2. sit'.phase = sit.phase /\ sit'.result = sit.result /\ sit'.resets = sit.resets
    BY <1>0, <1>4 DEF BandWrite, Sits
  <2>3. Corrected => Corrected' BY <2>1, <2>2 DEF Corrected, Unspent
  <2>4. Current => Current'
    <3>1. ASSUME Current, l = band.level PROVE Current'
      <4>1. sit' = sit BY <1>4, <3>1 DEF BandWrite
      <4> QED BY <1>2, <2>1, <3>1, <4>1 DEF Current, Numbered, Payload
    <3>2. ASSUME Current, l # band.level PROVE Current'
      <4>1. band.version = sit.version BY <2>1, <3>2 DEF Current
      <4>2. sit'.version = sit.version + 1
        <5> DEFINE m == IF band.synced THEN FALSE ELSE sit.synced
                   n == band.version + 1
        <5>1. sit' = [sit EXCEPT !.level = l, !.version = n, !.synced = m]
          BY <1>4, <3>2 DEF BandWrite
        <5>2. n = sit.version + 1 BY <4>1
        <5> HIDE DEF m, n
        <5> QED BY <1>0, <5>1, <5>2 DEF Sits
      <4>3. erp.version <= sit.version /\ sync.sent.version <= sit.version
        BY <3>2 DEF Current, Numbered
      <4>4. erp.version \in Nat /\ sync.sent.version \in Nat BY <1>0 DEF Payloads
      <4>5. Numbered(erp)' /\ Numbered(sync.sent)'
        BY <1>1, <1>2, <4>2, <4>3, <4>4 DEF Numbered
      <4> QED BY <2>1, <4>5 DEF Current
    <3> QED BY <3>1, <3>2
  <2> QED BY <2>1, <2>2, <2>3, <2>4 DEF VersionsInv
<1> QED BY <1>3, <1>4 DEF Banding

\* Whatever deliveries are lost and repeated, the number the ERP knows a result by names
\* that sitting's answers and that level, unless a re-banding and a reset overlapped.
THEOREM VersionAlwaysItsSitting == ErpSpec => []VersionIsSitting
<1> DEFINE I == ErpInv /\ VersionsInv
<1>1. ErpInit => I
  <2> SUFFICES ASSUME ErpInit PROVE VersionsInv BY ErpInvInit
  <2>1. /\ sit.version = 0 /\ sit.phase = "fresh" /\ sit.result = "none" /\ budget \in Budgets
    BY DEF ErpInit, Init
  <2>2. ~band.busy /\ erp = NoPayload /\ sync.sent = NoPayload BY DEF ErpInit
  <2>3. budget["reband"] \in Nat BY <2>1, BudgetAssumption DEF Acts
  <2>4. Current BY <2>1, <2>2 DEF Current, Numbered, NoPayload
  <2> QED BY <2>1, <2>2, <2>3, <2>4 DEF VersionsInv
<1>2. I /\ [ErpNext]_vars => I'
  <2> SUFFICES ASSUME I, [ErpNext]_vars PROVE VersionsInv' BY ErpInvStep
  <2>1. ErpInv' BY ErpInvStep
  <2>2. TypeOK' BY <2>1 DEF ErpInv, ErpTypeOK
  <2>3. CASE [Next]_admVars /\ UNCHANGED erpVars BY <2>2, <2>3, VersionsApplicant
  <2> QED
    BY <2>1, <2>3, VersionsRegistration, VersionsDelivery, VersionsBanding DEF ErpNext, vars
<1>3. I => VersionIsSitting
  <2> SUFFICES ASSUME I PROVE SameVersionSameResult
    BY TokenInvSuffices DEF VersionIsSitting, ErpInv
  <2> QED BY DEF VersionsInv, Corrected, Current, Numbered, SameVersionSameResult
<1> QED BY <1>1, <1>2, <1>3, PTL DEF ErpSpec

\* The ERP's retries, the sweep and the re-banding command leave a recorded result as well.
THEOREM ErpResultStandsEver == ErpSpec => ResultStands
<1>1. ErpInv /\ [ErpNext]_vars
        => [sit.phase = "taken" /\ sit'.resets = sit.resets
              => sit'.phase = "taken" /\ sit'.result = sit.result]_admVars
  <2> SUFFICES ASSUME ErpInv, [ErpNext]_vars, sit.phase = "taken", sit'.resets = sit.resets
               PROVE  sit'.phase = "taken" /\ sit'.result = sit.result
    OBVIOUS
  <2>0. TypeOK /\ sit \in Sits BY DEF ErpInv, ErpTypeOK, TypeOK
  <2>1. CASE [Next]_admVars BY <2>0, <2>1, ResultStandsStep
  <2>2. CASE Registration BY <2>0, <2>2, RegistrationResult DEF ResultUnchanged
  <2>3. CASE Delivery \/ Banding
    BY <2>0, <2>3
    DEF Delivery, SyncLoad, ErpAccepts, SyncLost, SyncStamp, Banding, BandLoad, BandWrite,
        admVars, Sits
  <2> QED BY <2>1, <2>2, <2>3 DEF ErpNext, vars
<1>2. ErpInit => ErpInv BY ErpInvInit
<1>3. ErpInv /\ [ErpNext]_vars => ErpInv' BY ErpInvStep
<1> QED BY <1>1, <1>2, <1>3, PTL DEF ErpSpec, ResultStands
=============================================================================
