------------------------------ MODULE ErpResults ------------------------------
(***************************************************************************)
(* Applicants registered by the ERP: the deterministic assessment link,    *)
(* the timer that pushes completed results to the ERP, and the command     *)
(* that re-bands levels, around the same applicant row as Admissions.      *)
(*                                                                         *)
(* The push reads the row, makes an HTTP call of up to 15 seconds, and     *)
(* stamps the row; the re-banding command reads every row and writes the   *)
(* bands back. Neither locks the row while it decides.                     *)
(***************************************************************************)
EXTENDS Admissions

CONSTANTS MaxLost  \* bound on deliveries whose acceptance is not stamped

ASSUME MaxLostAssumption == MaxLost \in Nat

VARIABLES
  url,    \* the assessment token in the last registration response the ERP holds
  sync,   \* the erp-training-sync process: the payload it has sent
  band,   \* the recompute-entrance-levels process: the row it has read
  erp,    \* what the ERP keeps: the result with the greatest version
  lost    \* deliveries lost so far

erpVars == <<url, sync, band, erp, lost>>
vars == <<admVars, erpVars>>

NoPayload == [version |-> 0, sitting |-> 0, level |-> "none"]
Payloads == [version : Nat, sitting : Nat, level : Levels \cup {"none"}]

\* build_payload: the fields that tell two results of one applicant apart.
Payload == [version |-> sit.version, sitting |-> sit.resets, level |-> sit.level]

-----------------------------------------------------------------------------
\* Mutant: the token is derived from the applicant alone.
IntegrationToken_NoReset == <<"erp", 0>>

\* _integration_token is derived from the applicant and the reset counter.
IntegrationToken == <<"erp", sit.resets>>

Returns(t) == /\ sit' = WithToken(sit, t)
              /\ url' = t
              /\ known' = known \cup {t}

\* register for a new external_ref: no cohort, no email, a seven-day deadline.
RegisterNew ==
  /\ app.status = "none" /\ Spend("erp")
  /\ app' = [app EXCEPT !.status = "applied", !.erp = TRUE]
  /\ Returns(IntegrationToken)
  /\ UNCHANGED <<intake, pages, heard, told, tasks, acct, req, cli, sync, band, erp, lost>>

\* A retry is refused once the deadline has passed with the sitting not taken,
\* and otherwise rewrites the stored token hash whatever it was.
RegisterAgain ==
  /\ app.erp /\ (sit.phase = "taken" \/ ~sit.late) /\ Spend("erp")
  /\ Returns(IntegrationToken)
  /\ UNCHANGED <<app, intake, pages, heard, told, tasks, acct, req, cli, sync, band, erp, lost>>

-----------------------------------------------------------------------------
(* sync_pending, push_result.                                              *)

\* Mutant: the sweep also takes rows whose sitting is not completed.
SyncLoad_AnyRow ==
  /\ sync.pc = "idle"
  /\ app.erp /\ ~sit.synced
  /\ sync' = [pc |-> "loaded", sent |-> Payload]
  /\ UNCHANGED <<admVars, url, band, erp, lost>>

\* The sweep finds a completed, unsynced ERP applicant and builds its event.
SyncLoad ==
  /\ sync.pc = "idle"
  /\ app.erp /\ sit.phase = "taken" /\ ~sit.synced
  /\ sync' = [pc |-> "loaded", sent |-> Payload]
  /\ UNCHANGED <<admVars, url, band, erp, lost>>

\* The ERP keeps the result with the greatest version and acknowledges a
\* duplicate or an older one.
Kept(p) == IF p.version > erp.version THEN p ELSE erp

\* The post is answered by an acknowledgement.
ErpAccepts ==
  /\ sync.pc = "loaded"
  /\ erp' = Kept(sync.sent)
  /\ sync' = [sync EXCEPT !.pc = "accepted"]
  /\ UNCHANGED <<admVars, url, band, lost>>

\* Mutant: a failed delivery is stamped like a successful one.
SyncLost_Stamps ==
  /\ sync.pc \in {"loaded", "accepted"} /\ lost < MaxLost
  /\ lost' = lost + 1
  /\ erp' = erp
  /\ sit' = [sit EXCEPT !.synced = TRUE]
  /\ sync' = [pc |-> "idle", sent |-> NoPayload]
  /\ UNCHANGED <<app, intake, pages, known, heard, told, tasks, acct, req, cli, budget, url, band>>

\* The post fails, with or without the ERP having recorded it, its answer is no
\* acknowledgement, or the process dies before it commits: nothing is stamped.
SyncLost ==
  /\ sync.pc \in {"loaded", "accepted"} /\ lost < MaxLost
  /\ lost' = lost + 1
  /\ erp' \in {erp, Kept(sync.sent)}
  /\ sync' = [pc |-> "idle", sent |-> NoPayload]
  /\ UNCHANGED <<admVars, url, band>>

\* push_result stamps the row, whatever result it holds by now.
SyncStamp ==
  /\ sync.pc = "accepted"
  /\ sit' = [sit EXCEPT !.synced = TRUE]
  /\ sync' = [pc |-> "idle", sent |-> NoPayload]
  /\ UNCHANGED <<app, intake, pages, known, heard, told, tasks, acct, req, cli, budget, url,
                 band, erp, lost>>

-----------------------------------------------------------------------------
(* recompute-entrance-levels.                                              *)

\* It reads the applicants that have a score from a valid sitting ...
BandLoad ==
  /\ ~band.busy /\ sit.result \in {"pass", "fail"}
  /\ Spend("reband")
  /\ band' = [busy |-> TRUE, version |-> sit.version, level |-> sit.level, synced |-> sit.synced]
  /\ UNCHANGED <<app, intake, sit, pages, known, heard, told, tasks, acct, req, cli, url, sync,
                 erp, lost>>

\* Mutant: a corrected band keeps the version of the result it corrects.
BandWrite_SameVersion(l) ==
  /\ band.busy
  /\ band' = [busy |-> FALSE, version |-> 0, level |-> "none", synced |-> FALSE]
  /\ sit' = IF l = band.level THEN sit
            ELSE [sit EXCEPT !.level = l, !.synced = IF band.synced THEN FALSE ELSE @]
  /\ UNCHANGED <<app, intake, pages, known, heard, told, tasks, acct, req, cli, budget, url,
                 sync, erp, lost>>

\* ... and writes the bands that change. The version written is one above the
\* version it read; the marker column is written only if it was read as set.
BandWrite(l) ==
  /\ band.busy
  /\ band' = [busy |-> FALSE, version |-> 0, level |-> "none", synced |-> FALSE]
  /\ sit' = IF l = band.level THEN sit
            ELSE [sit EXCEPT !.level = l, !.version = band.version + 1,
                             !.synced = IF band.synced THEN FALSE ELSE @]
  /\ UNCHANGED <<app, intake, pages, known, heard, told, tasks, acct, req, cli, budget, url,
                 sync, erp, lost>>

-----------------------------------------------------------------------------
ErpInit == /\ Init
           /\ url = NoToken
           /\ sync = [pc |-> "idle", sent |-> NoPayload]
           /\ band = [busy |-> FALSE, version |-> 0, level |-> "none", synced |-> FALSE]
           /\ erp = NoPayload
           /\ lost = 0

Registration == RegisterNew \/ RegisterAgain
Delivery == SyncLoad \/ ErpAccepts \/ SyncLost \/ SyncStamp
Banding == BandLoad \/ \E l \in Levels : BandWrite(l)

ErpNext == \/ Next /\ UNCHANGED erpVars
           \/ Registration \/ Delivery \/ Banding

ErpSpec == ErpInit /\ [][ErpNext]_vars

\* The hourly timer runs the sweep again and again, and a posted event is
\* answered or lost within its timeout.
FairErpSpec == ErpSpec /\ WF_vars(SyncLoad) /\ WF_vars(ErpAccepts) /\ WF_vars(SyncStamp)

-----------------------------------------------------------------------------
(* Properties.                                                             *)

\* The row and the two processes hold values of their types, and a process that
\* is not idle holds a result that was recorded (erp_assessment_sync.py, cli.py).
ErpTypeOK ==
  /\ TypeOK
  /\ url \in Tokens
  /\ sync \in [pc : {"idle", "loaded", "accepted"}, sent : Payloads]
  /\ sync.pc # "idle" => sync.sent.version > 0
  /\ band \in [busy : BOOLEAN, version : Nat, level : Levels \cup {"none"}, synced : BOOLEAN]
  /\ band.busy => band.version > 0
  /\ erp \in Payloads
  /\ lost \in 0..MaxLost

\* A version number names one result: when the ERP holds the version the
\* applicant row carries, it holds that sitting's result and that level, so a
\* duplicate the ERP ignores loses nothing. A re-banding that overtakes a reset is
\* excepted: see CorrectionsNumbered below.
SameVersionSameResult ==
  sit.phase = "taken" /\ erp.version = sit.version
    => erp = Payload \/ (sit.resets > 0 /\ ~Unspent("reband"))

\* What the ERP learns of a version is the answers of the sitting it names: no
\* old page of a link handed out again posts into it, and the number is its own.
VersionIsSitting == NoOldAnswers /\ SameVersionSameResult

\* Every completed result of an ERP applicant reaches the ERP, unless it is reset
\* first, however often the link was retried and a delivery or its acknowledgement
\* was lost. Excepted are a result completed while an earlier one is being delivered
\* and one that a command re-bands: see SyncedMeansDelivered below.
ErpGetsResult ==
  app.erp /\ sit.phase = "taken" /\ ~sit.synced /\ sync.pc = "idle"
    ~> erp = Payload \/ sit.phase # "taken" \/ ~Unspent("reband")

-----------------------------------------------------------------------------
(* What the repository says, and the code does not always do.              *)

\* docs/erp-applicant-assessment-contract.md: "Only an acknowledged event stamps
\* ``assessment_erp_synced_at``." A stamped result is one the ERP acknowledged.
SyncedMeansDelivered == sit.phase = "taken" /\ sit.synced => erp.version >= sit.version

\* docs/erp-applicant-assessment-contract.md: "A reset is the only supported
\* replacement" of the assessment URL the ERP was given.
ErpLinkStays == url = IntegrationToken => sit.token = url

\* docs/erp-applicant-assessment-contract.md: "Either authoritative completed change
\* increments ``result_version``": no level is corrected under an unchanged number.
CorrectionsNumbered ==
  [][sit.phase = "taken" /\ sit'.phase = "taken" /\ sit'.level # sit.level
       => sit'.version > sit.version]_vars
=============================================================================
