------------------------------ MODULE Consoles ------------------------------
(***************************************************************************)
(* The terminal consoles (ttyd processes) of labs.  They live on the lab   *)
(* host, their ports in the rows of the database, and three parties keep   *)
(* the two together: the worker, which starts and stops consoles with the  *)
(* operations it executes and replaces missing ones between them, and the  *)
(* sweep of the reconciler, which kills consoles no lab accounts for.      *)
(*                                                                         *)
(* A scan of the process table, a query and a kill are steps of their own, *)
(* as are the engine calls; the worker's writes wait for its commit.       *)
(*                                                                         *)
(* Simplified: one terminal node for a lab.  Of LabOperations there are    *)
(* only the outcomes of an operation, not its claims and leases; a lab     *)
(* that failed is taken up again by a request.  A console's port stands    *)
(* for its process, too, and ports are used again once it has exited and   *)
(* no process remembers it.                                                *)
(***************************************************************************)
EXTENDS Naturals, FiniteSets

CONSTANTS
  Labs,     \* lab instances
  Ports,
  NoPort,   \* spec["port"] is None
  Hazards   \* bounds on the faults of each kind, one of which a behaviour has

ConsoleFaults == {"losses", "stops", "engine", "scans", "requests"}

ASSUME PortAssumption == NoPort \notin Ports
\* Every lab can have a console at the same time.
ASSUME PortsAssumption ==
  \E f \in [Labs -> Ports] : \A l, m \in Labs : f[l] = f[m] => l = m
ASSUME HazardAssumption == Hazards \subseteq [ConsoleFaults -> Nat]

VARIABLES
  lab,      \* [Labs -> the committed row]
  intent,   \* [Labs -> the open operation]
  running,  \* labs that run on the host
  ttys,     \* [Labs -> ports of its console processes]
  dying,    \* ports of processes that have been told to end
  worker,
  sweeper,
  missed,   \* labs whose consoles an operation could not see when it stopped them
  left      \* faults a behaviour may still meet

consoleVars == <<lab, intent, running, ttys, dying, worker, sweeper, missed, left>>

LabRows == [status : {"queued", "active", "error", "reaped"},
            presence : {"absent", "present", "unknown"}, port : Ports \cup {NoPort}]
IntentKinds == {"none", "deploy", "repair", "destroy"}

NoPorts == [l \in Labs |-> {}]

\* The worker: in its loop, looking for missing consoles (the labs it still has
\* to look at, what it has seen of each, the ports it will write), or executing
\* an operation of one lab, with the outcome so far.
Polling == [at |-> "loop", todo |-> {}, seen |-> NoPorts,
            plan |-> [l \in Labs |-> NoPort], recovered |-> {}, on |-> {}, ok |-> TRUE]
WorkerStates == [at : {"loop", "listed", "recover", "drain", "engine", "stop", "start", "settle", "down"},
                 todo : SUBSET Labs, seen : [Labs -> SUBSET Ports],
                 plan : [Labs -> Ports \cup {NoPort}], recovered : SUBSET Labs,
                 on : SUBSET Labs, ok : BOOLEAN]

\* The sweep: what it has seen, what it will kill, and the labs that have had
\* no operation since it began.
Sweepless == [at |-> "rest", seen |-> NoPorts, calm |-> {}]
SweeperStates == [at : {"rest", "scanned", "read"}, seen : [Labs -> SUBSET Ports],
                  calm : SUBSET Labs]

LoseOne(fault) == left[fault] > 0 /\ left' = [left EXCEPT ![fault] = @ - 1]

\* The port a new console gets: a free one.
FreePorts == {p \in Ports : \A l \in Labs : p \notin ttys[l] /\ p \notin sweeper.seen[l]
                                            /\ p \notin worker.seen[l]}
FreePort == CHOOSE p \in FreePorts : TRUE

Alive(l) == ttys[l] \ dying

-----------------------------------------------------------------------------
(* recover_missing_consoles.                                               *)

\* Active labs whose runtime is present, without an operation.
ListLabs ==
  /\ worker.at = "loop"
  /\ worker' = [Polling EXCEPT !.at = "listed",
       !.todo = {l \in Labs : lab[l].status = "active" /\ lab[l].presence = "present"
                              /\ intent[l] = "none"}]
  /\ UNCHANGED <<lab, intent, running, ttys, dying, sweeper, missed, left>>

\* Mutant: a scan that failed counts as one that found nothing.
AfterBlindScan_Empty == [worker EXCEPT !.at = "recover"]

AfterBlindScan == [Polling EXCEPT !.at = "drain"]

\* The process table, or a failure to read it.
ScanConsoles ==
  /\ worker.at = "listed"
  /\ \/ worker' = [worker EXCEPT !.at = "recover", !.seen = ttys] /\ UNCHANGED left
     \/ LoseOne("scans") /\ worker' = AfterBlindScan
  /\ UNCHANGED <<lab, intent, running, ttys, dying, sweeper, missed>>

\* Mutant: a console on another port than the recorded one passes.
Healthy_AnyPort(l) == worker.seen[l] # {}

\* Some process is there, and the first one has the recorded port.
Healthy(l) == \E p \in worker.seen[l] : p = lab[l].port

Looked(l) == [worker EXCEPT !.todo = @ \ {l}]

\* Nothing to repair, or the inspection finds no lab, or fails.
PassOver(l) ==
  /\ worker.at = "recover" /\ l \in worker.todo
  /\ \/ (Healthy(l) \/ l \notin running) /\ UNCHANGED left
     \/ LoseOne("engine")
  /\ worker' = Looked(l)
  /\ UNCHANGED <<lab, intent, running, ttys, dying, sweeper, missed>>

Recovered(l, port) == [Looked(l) EXCEPT !.plan[l] = port, !.recovered = @ \cup {l}]

\* The port of a process there is goes to the row; else one is started, which
\* may fail and leave the row without a port.
Recover(l) ==
  /\ worker.at = "recover" /\ l \in worker.todo /\ l \in running
  /\ \/ /\ \E p \in worker.seen[l] : p # lab[l].port /\ worker' = Recovered(l, p)
        /\ UNCHANGED <<ttys, left>>
     \/ /\ worker.seen[l] = {} /\ FreePorts # {}
        /\ ttys' = [ttys EXCEPT ![l] = @ \cup {FreePort}]
        /\ worker' = Recovered(l, FreePort)
        /\ UNCHANGED left
     \/ /\ worker.seen[l] = {} /\ LoseOne("engine")
        /\ worker' = Recovered(l, NoPort)
        /\ UNCHANGED ttys
  /\ UNCHANGED <<lab, intent, running, dying, sweeper, missed>>

CommitRecovery ==
  /\ worker.at = "recover" /\ worker.todo = {}
  /\ lab' = [l \in Labs |-> IF l \in worker.recovered
                            THEN [lab[l] EXCEPT !.port = worker.plan[l]] ELSE lab[l]]
  /\ worker' = [Polling EXCEPT !.at = "drain"]
  /\ UNCHANGED <<intent, running, ttys, dying, sweeper, missed, left>>

-----------------------------------------------------------------------------
(* Operations, as far as they touch consoles.                              *)

DrainEmpty ==
  /\ worker.at = "drain" /\ \A l \in Labs : intent[l] = "none"
  /\ worker' = Polling
  /\ UNCHANGED <<lab, intent, running, ttys, dying, sweeper, missed, left>>

\* Claimed; what it is about to do is committed first.
TakeUp(l) ==
  /\ worker.at = "drain" /\ intent[l] # "none"
  /\ lab' = [lab EXCEPT ![l].presence = "unknown",
                        ![l].port = IF intent[l] = "destroy" THEN NoPort ELSE @]
  /\ worker' = [Polling EXCEPT !.at = "engine", !.on = {l}]
  /\ UNCHANGED <<intent, running, ttys, dying, sweeper, missed, left>>

\* The engine's first call: a deploy and a destroy remove the lab, a repair
\* finds it or deploys it. A failure may come before or after the effect.
CallEngine(l) ==
  /\ worker.at = "engine" /\ worker.on = {l}
  /\ LET done == IF intent[l] = "repair" THEN running \cup {l} ELSE running \ {l} IN
     \/ running' = done /\ worker' = [worker EXCEPT !.at = "stop"] /\ UNCHANGED left
     \/ /\ LoseOne("engine")
        /\ running' \in {running, done}
        /\ worker' = [worker EXCEPT !.at = "settle", !.ok = FALSE]
  /\ UNCHANGED <<lab, intent, ttys, dying, sweeper, missed>>

\* Mutant: a console is ended only where its port is the recorded one.
Stopped_Recorded(l) == ttys[l] \cap {lab[l].port}

Stopped(l) == ttys[l]

\* stop_consoles: every console of the lab, if the scan works.
StopConsoles(l) ==
  /\ worker.at = "stop" /\ worker.on = {l}
  /\ \/ dying' = dying \cup Stopped(l) /\ UNCHANGED <<missed, left>>
     \/ LoseOne("scans") /\ missed' = missed \cup {l} /\ UNCHANGED dying
  /\ worker' = [worker EXCEPT !.at = IF intent[l] = "destroy" THEN "settle" ELSE "start"]
  /\ UNCHANGED <<lab, intent, running, ttys, sweeper>>

\* A deploy deploys, then both start a console, which may fail to start.
StartConsole(l) ==
  /\ worker.at = "start" /\ worker.on = {l}
  /\ \/ /\ running' = running \cup {l}
        /\ FreePorts # {}
        /\ ttys' = [ttys EXCEPT ![l] = @ \cup {FreePort}]
        /\ worker' = [worker EXCEPT !.at = "settle", !.plan[l] = FreePort]
        /\ UNCHANGED left
     \/ /\ LoseOne("engine")
        /\ \/ running' = running \cup {l} /\ worker' = [worker EXCEPT !.at = "settle"]
           \/ /\ running' \in {running, running \cup {l}}
              /\ worker' = [worker EXCEPT !.at = "settle", !.ok = FALSE]
        /\ UNCHANGED ttys
  /\ UNCHANGED <<lab, intent, dying, sweeper, missed>>

\* The outcome is committed. A destroy that failed too often leaves an error.
Settle(l) ==
  /\ worker.at = "settle" /\ worker.on = {l}
  /\ \E status \in IF intent[l] = "destroy" THEN {"active", "error"} ELSE {"active"} :
       lab' = [lab EXCEPT ![l] =
         IF ~worker.ok THEN [@ EXCEPT !.status = status]
         ELSE IF intent[l] = "destroy" THEN [status |-> "reaped", presence |-> "absent", port |-> NoPort]
         ELSE [status |-> "active", presence |-> "present", port |-> worker.plan[l]]]
  /\ intent' = [intent EXCEPT ![l] = "none"]
  /\ worker' = [Polling EXCEPT !.at = "drain"]
  /\ UNCHANGED <<running, ttys, dying, sweeper, missed, left>>

\* The worker is stopped by its service, which ends its consoles with it, or
\* alone; what it had not committed is lost, and its operation is taken up again.
StopWorker ==
  /\ worker.at # "down" /\ LoseOne("stops")
  /\ dying' \in {dying, UNION {ttys[l] : l \in Labs}}
  /\ worker' = [Polling EXCEPT !.at = "down"]
  /\ UNCHANGED <<lab, intent, running, ttys, sweeper, missed>>

StartWorker ==
  /\ worker.at = "down" /\ worker' = Polling
  /\ UNCHANGED <<lab, intent, running, ttys, dying, sweeper, missed, left>>

-----------------------------------------------------------------------------
(* sweep_orphan_consoles.                                                  *)

Quiet == {l \in Labs : intent[l] = "none"}

\* A scan that fails finds nothing to kill.
SweepScan ==
  /\ sweeper.at = "rest"
  /\ sweeper' = [at |-> "scanned", seen |-> ttys, calm |-> Quiet]
  /\ UNCHANGED <<lab, intent, running, ttys, dying, worker, missed, left>>

\* Mutant: a lab in error has no consoles to keep.
Kept_ByStatus(l) == lab[l].status = "active"

Kept(l) == lab[l].presence \in {"present", "unknown"}

\* Rows are read after the scan: those of labs that may run keep theirs.
SweepRead ==
  /\ sweeper.at = "scanned"
  /\ sweeper' = [sweeper EXCEPT !.at = "read",
                   !.seen = [l \in Labs |-> IF Kept(l) THEN {} ELSE sweeper.seen[l]]]
  /\ UNCHANGED <<lab, intent, running, ttys, dying, worker, missed, left>>

SweepKill ==
  /\ sweeper.at = "read"
  /\ dying' = dying \cup UNION {sweeper.seen[l] \cap ttys[l] : l \in Labs}
  /\ sweeper' = Sweepless
  /\ UNCHANGED <<lab, intent, running, ttys, worker, missed, left>>

-----------------------------------------------------------------------------
(* The host, and those who ask for operations.                             *)

\* A console that was told to end exits.
ExitConsole(p) ==
  /\ p \in dying
  /\ dying' = dying \ {p}
  /\ ttys' = [l \in Labs |-> ttys[l] \ {p}]
  /\ UNCHANGED <<lab, intent, running, worker, sweeper, missed, left>>

\* A console, or a lab, ends by itself.
LoseConsole(l) ==
  /\ \E p \in Alive(l) : dying' = dying \cup {p}
  /\ LoseOne("losses")
  /\ UNCHANGED <<lab, intent, running, ttys, worker, sweeper, missed>>

LoseLab(l) ==
  /\ l \in running /\ running' = running \ {l} /\ LoseOne("losses")
  /\ UNCHANGED <<lab, intent, ttys, dying, worker, sweeper, missed>>

Enqueued(l, kind) ==
  /\ intent[l] = "none"
  /\ intent' = [intent EXCEPT ![l] = kind]
  /\ sweeper' = [sweeper EXCEPT !.calm = @ \ {l}]
  /\ UNCHANGED <<lab, running, ttys, dying, worker, missed>>

\* A learner resets or ends the lab, or the reaper does.
RequestWork(l) ==
  /\ lab[l].status # "reaped" /\ LoseOne("requests")
  /\ \E kind \in {"deploy", "destroy"} : Enqueued(l, kind)

\* reconcile_runtime: an active lab that does not run is to be repaired.
RequestRepair(l) ==
  /\ lab[l].status = "active" /\ l \notin running
  /\ Enqueued(l, "repair") /\ UNCHANGED left

-----------------------------------------------------------------------------

\* A lab is up with its console, or waits for its first deploy.
ConsolesInit ==
  /\ \E up \in SUBSET Labs :
     LET f == CHOOSE f \in [Labs -> Ports] : \A l, m \in Labs : f[l] = f[m] => l = m IN
       /\ lab = [l \in Labs |->
            IF l \in up THEN [status |-> "active", presence |-> "present", port |-> f[l]]
                        ELSE [status |-> "queued", presence |-> "absent", port |-> NoPort]]
       /\ intent = [l \in Labs |-> IF l \in up THEN "none" ELSE "deploy"]
       /\ running = up /\ ttys = [l \in Labs |-> IF l \in up THEN {f[l]} ELSE {}]
  /\ dying = {} /\ missed = {} /\ worker = Polling /\ sweeper = Sweepless
  /\ left \in Hazards

WorkerStep ==
  \/ ListLabs \/ ScanConsoles \/ CommitRecovery \/ DrainEmpty \/ StartWorker
  \/ \E l \in Labs :
       \/ PassOver(l) \/ Recover(l)
       \/ TakeUp(l) \/ CallEngine(l) \/ StopConsoles(l) \/ StartConsole(l) \/ Settle(l)

SweepStep == SweepScan \/ SweepRead \/ SweepKill

ConsolesNext ==
  \/ WorkerStep \/ StopWorker \/ SweepStep
  \/ \E p \in Ports : ExitConsole(p)
  \/ \E l \in Labs : LoseConsole(l) \/ LoseLab(l) \/ RequestWork(l) \/ RequestRepair(l)

\* The worker's service restarts it and its loop goes on; timers start the
\* reconciler again and again; a process told to end ends.
ConsolesFairness ==
  /\ WF_consoleVars(WorkerStep) /\ WF_consoleVars(SweepStep)
  /\ \A p \in Ports : WF_consoleVars(ExitConsole(p))
  /\ \A l \in Labs : WF_consoleVars(RequestRepair(l))

ConsolesSpec == ConsolesInit /\ [][ConsolesNext]_consoleVars
FairConsolesSpec == ConsolesSpec /\ ConsolesFairness

-----------------------------------------------------------------------------
(* Properties.                                                             *)

\* Every variable keeps its type, and a port belongs to one console.
ConsolesTypeOK ==
  /\ lab \in [Labs -> LabRows] /\ intent \in [Labs -> IntentKinds]
  /\ running \subseteq Labs /\ ttys \in [Labs -> SUBSET Ports] /\ dying \subseteq Ports
  /\ worker \in WorkerStates /\ sweeper \in SweeperStates
  /\ missed \subseteq Labs /\ left \in [ConsoleFaults -> Nat]
  /\ \A l, m \in Labs : l # m => ttys[l] \cap ttys[m] = {}

\* Starting what is missing never doubles a console, unless an operation could
\* not see the one it was to stop; and the sweep is never about to kill a
\* console of a lab that runs, if no operation came between its scan and then.
ConsolesKept ==
  /\ \A l \in Labs \ missed : Cardinality(Alive(l)) <= 1
  /\ sweeper.at = "read" => \A l \in sweeper.calm \cap running : sweeper.seen[l] = {}

\* Whatever ends a console or its worker, a lab that stays up and is left alone
\* has one again, at the port its row says; and a reaped lab is rid of its own.
Served(l) == lab[l].port \in Alive(l)
UpAndIdle(l) == lab[l].status = "active" /\ lab[l].presence = "present" /\ intent[l] = "none"

ConsolesSettle ==
  \A l \in Labs :
    /\ UpAndIdle(l) ~> (~UpAndIdle(l) \/ Served(l))
    /\ (lab[l].status = "reaped") ~> (ttys[l] = {})
=============================================================================
