---------------------------- MODULE LabOperations ----------------------------
(***************************************************************************)
(* The lab-operation queue of Dotmac Academy and everything that races on  *)
(* it: web requests and the idle reaper enqueue intents, one lab worker    *)
(* process claims and executes them against the container engine, and the  *)
(* separate lab-reconcile timer requeues expired claims and repairs the    *)
(* difference between the database and the runtime.                        *)
(*                                                                         *)
(* A step of the model is one database transaction, or one engine call     *)
(* (which holds the host lock for its whole duration), so every point at   *)
(* which the program may be overtaken or killed is a state of the model.   *)
(***************************************************************************)
EXTENDS Naturals, FiniteSets

CONSTANTS
  Instances,      \* lab instance ids; the runtime name of a lab is derived from its id
  Workers,        \* worker process incarnations (host:epoch); each one starts at most once
  NoOne,          \* "no worker" / "no instance"
  StreamOf,       \* [Instances -> learner/activity pair the instance is launched for]
  TenantOf,       \* [Instances -> tenant]
  MaxAttempts,    \* MAX_ATTEMPTS_BY_KIND
  MaxLabs,        \* max_concurrent_labs
  TenantLabs,     \* max_concurrent_labs_per_tenant, or max_concurrent_labs when unset
  Budgets         \* bounds on the faults of each kind, one of which a behaviour has

Kinds == {"deploy", "destroy", "check"}
Faults == {"contention", "stall", "loss", "erase", "requests"}

ASSUME InstancesAssumption == IsFiniteSet(Instances)
ASSUME MaxAttemptsAssumption == MaxAttempts \in [Kinds -> Nat \ {0}]
ASSUME BudgetAssumption == Budgets \subseteq [Faults -> Nat]
ASSUME CapacityAssumption == MaxLabs \in Nat /\ TenantLabs \in Nat
ASSUME NoOneAssumption == NoOne \notin Workers \cup Instances

VARIABLES
  row,      \* [Instances -> the lab_instances row]
  op,       \* [Instances -> the newest lab_operations row of the instance]
  fails,    \* attempts of failed automatic operations since the last clean deploy
  runtime,  \* [Instances -> is the lab really running on the host]
  wk,       \* [Workers -> process state and the operation it executes]
  rec,      \* the lab-reconcile process
  intents,  \* requests whose guard has been read and whose enqueue has not happened
  budget    \* faults the environment may still inject

vars == <<row, op, fails, runtime, wk, rec, intents, budget>>

-----------------------------------------------------------------------------
(* Rows.                                                                   *)

LiveStatus == {"provisioning", "active", "resetting"}
Transient  == {"queued", "provisioning", "resetting"}
Statuses   == LiveStatus \cup {"queued", "error", "reaped"}
Presences  == {"absent", "present", "unknown"}
OpenStates == {"queued", "claimed"}
Origins    == {"user", "auto", "runtime_repair", "runtime_cleanup"}
OpIds      == 0..2     \* recycled: only equality with the id a worker still holds matters

Rows == [status : Statuses \cup {"none", "deleted"}, error : BOOLEAN,
         presence : Presences, consoles : BOOLEAN]
Ops == [id : OpIds, state : OpenStates \cup {"none", "failed", "succeeded"},
        kind : Kinds, origin : Origins, by : Workers \cup {NoOne},
        attempts : Nat, ready : BOOLEAN]

\* ck_lab_operations_conditional_runtime
Conditional(o) == /\ o.origin = "runtime_repair" => o.kind = "deploy"
                  /\ o.origin = "runtime_cleanup" => o.kind = "destroy"

NoRow == [status |-> "none", error |-> FALSE, presence |-> "absent", consoles |-> FALSE]
NoOp == [id |-> 0, state |-> "none", kind |-> "deploy", origin |-> "user",
         by |-> NoOne, attempts |-> 0, ready |-> TRUE]

Exists(i) == row[i].status \notin {"none", "deleted"}
IsOpen(i) == op[i].state \in OpenStates
\* Mutant: only proven runtimes are counted against the cap.
Counted_PresentOnly(i) == Exists(i) /\ row[i].presence = "present"

Counted(i) == Exists(i) /\ row[i].presence \in {"present", "unknown"}

-----------------------------------------------------------------------------
(* Worker-local state of run_claimed: the operation's fields and the       *)
(* instance snapshot taken on entry (was), the session's uncommitted view  *)
(* of the instance (mem) and how the engine work ended (res).              *)

Pcs == {"new", "loop", "drain", "start", "admit", "reserved", "kill", "killed",
        "deploy", "ifabsent", "confirm", "resync", "destroy", "ifpresent",
        "check", "settle", "dead"}

Jobs == [pc : Pcs, inst : Instances \cup {NoOne}, id : OpIds, kind : Kinds,
         origin : Origins, attempts : Nat, was : Rows, mem : Rows,
         res : {"none", "ok", "fail", "lock"}]

NoJob(pc) == [pc |-> pc, inst |-> NoOne, id |-> 0, kind |-> "deploy",
              origin |-> "user", attempts |-> 0, was |-> NoRow, mem |-> NoRow,
              res |-> "none"]

Up(w) == wk[w].pc \notin {"new", "dead"}
EnginePcs == {"start", "kill", "deploy", "ifabsent", "confirm", "resync",
              "destroy", "ifpresent", "check"}

\* The predicate every heartbeat and re-read of the claim is filtered by.
Holds(w) ==
  /\ wk[w].inst \in Instances
  /\ op[wk[w].inst].id = wk[w].id
  /\ op[wk[w].inst].state = "claimed"
  /\ op[wk[w].inst].by = w

\* The WHERE clause of _settle.
\* Mutant: settle by operation id alone.
SettleFence_ById(w) == wk[w].inst \in Instances /\ op[wk[w].inst].id = wk[w].id

SettleFence(w) == Holds(w)

FreshId(i) ==
  CHOOSE k \in OpIds : /\ k # op[i].id
                       /\ \A w \in Workers : wk[w].inst = i => k # wk[w].id

NewOp(i, kind, origin) ==
  [id |-> FreshId(i), state |-> "queued", kind |-> kind, origin |-> origin,
   by |-> NoOne, attempts |-> 0, ready |-> TRUE]

\* Mutant: the insert ignores the partial unique index.
Enqueue_NoConflict(i, kind, origin) == op' = [op EXCEPT ![i] = NewOp(i, kind, origin)]

\* One open operation per instance: an insert that conflicts changes nothing.
Enqueue(i, kind, origin) ==
  op' = IF IsOpen(i) THEN op ELSE [op EXCEPT ![i] = NewOp(i, kind, origin)]

Closed(o, state) == [NoOp EXCEPT !.id = o.id, !.state = state]

Spend(fault) == /\ budget[fault] > 0
                /\ budget' = [budget EXCEPT ![fault] = @ - 1]

-----------------------------------------------------------------------------
(* Escalation of automatic operations that keep failing.                   *)

Escalating(kind, origin) == \/ kind = "destroy" /\ origin # "user"
                            \/ kind = "deploy" /\ origin = "runtime_repair"

AtMost(a, b) == IF a < b THEN a ELSE b

FailsAfter(f, kind, origin, attempts) ==
  IF Escalating(kind, origin)
  THEN [f EXCEPT ![kind] = AtMost(@ + attempts, MaxAttempts[kind])]
  ELSE f

Escalate(r, f, kind, origin, attempts) ==
  IF Escalating(kind, origin) /\ f[kind] + attempts >= MaxAttempts[kind]
  THEN [r EXCEPT !.status = "error", !.consoles = FALSE, !.error = TRUE]
  ELSE r

-----------------------------------------------------------------------------
(* Recovery of a claim whose holder is gone or silent: the projection      *)
(* shared by lease expiry and by restart reclaim.                          *)

\* Mutant: off by one.
AtCeiling_OffByOne(i) == op[i].attempts > MaxAttempts[op[i].kind]

AtCeiling(i) == op[i].attempts >= MaxAttempts[op[i].kind]

\* Mutant: the claim columns are not cleared.
Requeued_KeepsClaim(o) == [o EXCEPT !.state = "queued", !.ready = TRUE]

Requeued(o) == [o EXCEPT !.state = "queued", !.by = NoOne, !.ready = TRUE]

RequeuedRow(r, kind) ==
  [r EXCEPT !.status = CASE @ = "provisioning" -> "queued"
                         [] @ = "resetting" -> "active"
                         [] OTHER -> @,
            !.presence = IF kind \in {"deploy", "destroy"} THEN "unknown" ELSE @]

CeilingRow(i) ==
  LET o == op[i]
      r == IF o.kind \in {"deploy", "destroy"}
           THEN [row[i] EXCEPT !.status = "active", !.error = TRUE, !.presence = "unknown"]
           ELSE row[i]
  IN  Escalate(r, fails[i], o.kind, o.origin, o.attempts)

RecoveredRow(i) == IF AtCeiling(i) THEN CeilingRow(i) ELSE RequeuedRow(row[i], op[i].kind)
RecoveredOp(i)  == IF AtCeiling(i) THEN Closed(op[i], "failed") ELSE Requeued(op[i])
RecoveredFails(i) ==
  IF AtCeiling(i) THEN FailsAfter(fails[i], op[i].kind, op[i].origin, op[i].attempts)
                  ELSE fails[i]

\* Rows of the pre-cutover sweep: transient, with no open operation.
\* Mutant: the sweep forgets rows whose reservation was committed.
Stranded_QueuedOnly(r, o) == r.status = "queued" /\ o.state \notin OpenStates

Stranded(r, o) == r.status \in Transient /\ o.state \notin OpenStates

\* reconcile_stuck for the expired claims E: recover them, then give every
\* stranded row a fresh automatic deploy.
ReconcileStuck(E) ==
  LET r == [i \in Instances |-> IF i \in E THEN RecoveredRow(i) ELSE row[i]]
      o == [i \in Instances |-> IF i \in E THEN RecoveredOp(i) ELSE op[i]]
      missing == {i \in Instances : Stranded(r[i], o[i])}
  IN  /\ row' = [i \in Instances |->
                   IF i \in missing
                   THEN [r[i] EXCEPT !.status = IF @ = "resetting" THEN "active" ELSE "queued",
                                     !.presence = "unknown"]
                   ELSE r[i]]
      /\ op' = [i \in Instances |-> IF i \in missing THEN NewOp(i, "deploy", "auto") ELSE o[i]]
      /\ fails' = [i \in Instances |-> IF i \in E THEN RecoveredFails(i) ELSE fails[i]]

\* A lease lapses when its holder is dead, or stalls between two heartbeats.
ClaimsOfDead == {i \in Instances : op[i].state = "claimed" /\ ~ Up(op[i].by)}
ClaimsOfLive == {i \in Instances : op[i].state = "claimed" /\ Up(op[i].by)}

LapsedClaims(E) ==
  \/ E \subseteq ClaimsOfDead /\ UNCHANGED budget
  \/ /\ E \subseteq ClaimsOfDead \cup ClaimsOfLive
     /\ E \cap ClaimsOfLive # {}
     /\ Spend("stall")

-----------------------------------------------------------------------------
(* The worker process.                                                     *)

SetPc(w, pc) == wk' = [wk EXCEPT ![w].pc = pc]
Drop(w) == wk' = [wk EXCEPT ![w] = NoJob("drain")]
End(w, res, mem) ==
  wk' = [wk EXCEPT ![w].pc = "settle", ![w].res = res, ![w].mem = mem]

\* worker_singleton_lock, held for the life of the process.
\* Mutant: no singleton lock.
SingletonFree_NoLock(w) == TRUE

SingletonFree(w) == \A v \in Workers : ~ Up(v)

\* Startup, under the process-lifetime singleton lock: reclaim every claim
\* of an earlier epoch, ceiling included, without refunding its attempt.
StartWorker(w) ==
  /\ wk[w].pc = "new"
  /\ SingletonFree(w)
  /\ LET E == {i \in Instances : op[i].state = "claimed" /\ op[i].by # w}
     IN  /\ row' = [i \in Instances |-> IF i \in E THEN RecoveredRow(i) ELSE row[i]]
         /\ op' = [i \in Instances |-> IF i \in E THEN RecoveredOp(i) ELSE op[i]]
         /\ fails' = [i \in Instances |-> IF i \in E THEN RecoveredFails(i) ELSE fails[i]]
  /\ wk' = [wk EXCEPT ![w] = NoJob("loop")]
  /\ UNCHANGED <<runtime, rec, intents, budget>>

\* The process is killed at any point; the last incarnation never is.
CrashWorker(w) ==
  /\ Up(w)
  /\ \E v \in Workers : wk[v].pc = "new"
  /\ wk' = [wk EXCEPT ![w] = NoJob("dead")]
  /\ UNCHANGED <<row, op, fails, runtime, rec, intents, budget>>

\* One poll of the loop. The console recovery that follows it re-creates dead
\* ttyd processes of active, present labs without an open operation; their
\* rows already carry consoles, so nothing the model distinguishes changes.
PollStuck(w) ==
  /\ wk[w].pc = "loop"
  /\ \E E \in SUBSET Instances : LapsedClaims(E) /\ ReconcileStuck(E)
  /\ SetPc(w, "drain")
  /\ UNCHANGED <<runtime, rec, intents>>

Rank(kind) == CASE kind = "destroy" -> 0 [] kind = "check" -> 1 [] OTHER -> 2
Ready(i) == op[i].state = "queued" /\ op[i].ready

\* claim_next, committed on its own, then the first reads of run_claimed.
Claim(w, i) ==
  /\ wk[w].pc = "drain"
  /\ Ready(i)
  /\ \A j \in Instances : Ready(j) => Rank(op[i].kind) <= Rank(op[j].kind)
  /\ op' = [op EXCEPT ![i].state = "claimed", ![i].by = w, ![i].attempts = @ + 1]
  /\ wk' = [wk EXCEPT ![w] =
       [pc |-> IF op[i].kind = "deploy" /\ op[i].origin # "runtime_repair"
               THEN "admit" ELSE "start",
        inst |-> i, id |-> op[i].id, kind |-> op[i].kind, origin |-> op[i].origin,
        attempts |-> op[i].attempts + 1, was |-> row[i], mem |-> row[i], res |-> "none"]]
  /\ UNCHANGED <<row, fails, runtime, rec, intents, budget>>

\* A retry delay runs out while the worker is busy with another lab.
RetryDelayOver(i) ==
  /\ op[i].state = "queued" /\ ~ op[i].ready
  /\ \E w \in Workers : wk[w].inst \in Instances \ {i}
  /\ op' = [op EXCEPT ![i].ready = TRUE]
  /\ UNCHANGED <<row, fails, runtime, wk, rec, intents, budget>>

\* The queue has no ready row: sleep, which outlasts every retry delay.
\* Mutant: deferred operations keep their delay for ever.
EndDrain_NeverRipens(w) ==
  /\ wk[w].pc = "drain"
  /\ \A i \in Instances : ~ Ready(i)
  /\ SetPc(w, "loop")
  /\ UNCHANGED <<row, op, fails, runtime, rec, intents, budget>>

EndDrain(w) ==
  /\ wk[w].pc = "drain"
  /\ \A i \in Instances : ~ Ready(i)
  /\ op' = [i \in Instances |-> [op[i] EXCEPT !.ready = TRUE]]
  /\ SetPc(w, "loop")
  /\ UNCHANGED <<row, fails, runtime, rec, intents, budget>>

\* A heartbeat, re-read or fenced settlement finds the claim gone, or an
\* unfenced write finds the row deleted: roll back and go on.
Stale(w) ==
  /\ \/ wk[w].pc \in {"start", "reserved", "killed"} /\ ~ Holds(w)
     \/ wk[w].pc = "settle" /\ ~ (IF wk[w].res = "lock" THEN Holds(w) ELSE SettleFence(w))
     \/ wk[w].pc = "admit" /\ ~ Exists(wk[w].inst)
  /\ Drop(w)
  /\ UNCHANGED <<row, op, fails, runtime, rec, intents, budget>>

\* What a destroy commits before it touches the engine.
\* Mutant: only the consoles are withdrawn.
MarkDestroying_ConsolesOnly(r) == [r EXCEPT !.consoles = FALSE]

MarkDestroying(r) == [r EXCEPT !.presence = "unknown", !.consoles = FALSE]

\* Conditional deploy, preliminary look; check and destroy, first heartbeat.
BeginWork(w) ==
  LET j == wk[w] IN
  /\ j.pc = "start" /\ Holds(w)
  /\ \/ /\ j.kind = "deploy"
        /\ SetPc(w, IF runtime[j.inst] THEN "resync" ELSE "admit") \/ End(w, "fail", j.mem)
        /\ UNCHANGED row
     \/ /\ j.kind = "destroy" /\ j.origin = "runtime_cleanup"
        /\ SetPc(w, "ifpresent")
        /\ UNCHANGED row
     \/ /\ j.kind = "destroy" /\ j.origin # "runtime_cleanup"
        /\ row' = [row EXCEPT ![j.inst] = MarkDestroying(@)]
        /\ SetPc(w, "destroy")
     \/ /\ j.kind = "check"
        /\ IF j.was.status = "active" /\ ~ j.was.error
           THEN SetPc(w, "check") ELSE End(w, "fail", j.mem)
        /\ UNCHANGED row
  /\ UNCHANGED <<op, fails, runtime, rec, intents, budget>>

\* Capacity admission under the advisory lock. Neither the deferral nor the
\* reservation is filtered by the claim: both are written by primary key.
Consuming(S) == Cardinality({i \in S : Counted(i)})

HasCapacity(w) ==
  LET i == wk[w].inst IN
  \/ wk[w].was.presence \in {"present", "unknown"}
  \/ /\ Consuming(Instances) < MaxLabs
     /\ Consuming({j \in Instances : TenantOf[j] = TenantOf[i]}) < TenantLabs

\* The session only writes attributes that differ from what it loaded.
Written(loaded, new, stored) == IF new = loaded THEN stored ELSE new

ReservedStatus(s) == IF s \in {"active", "resetting"} THEN "resetting" ELSE "provisioning"

Reserve(w) ==
  LET i == wk[w].inst IN
  /\ wk[w].pc = "admit" /\ Exists(i) /\ HasCapacity(w)
  /\ LET was == wk[w].was IN
       row' = [row EXCEPT
                 ![i].status = Written(was.status, ReservedStatus(was.status), @),
                 ![i].presence = Written(was.presence, "unknown", @)]
  /\ SetPc(w, "reserved")
  /\ UNCHANGED <<op, fails, runtime, rec, intents, budget>>

\* The same operation row goes back to the queue even if it was recovered
\* meanwhile; only another open row of the instance stops the write.
DeferForCapacity(w) ==
  LET i == wk[w].inst IN
  /\ wk[w].pc = "admit" /\ Exists(i) /\ ~ HasCapacity(w)
  /\ IF IsOpen(i) /\ op[i].id # wk[w].id
     THEN UNCHANGED <<row, op>>
     ELSE /\ row' = [row EXCEPT ![i].status = Written(wk[w].was.status, "queued", @)]
          /\ op' = [op EXCEPT ![i] = [id |-> wk[w].id, state |-> "queued", kind |-> wk[w].kind,
                      origin |-> wk[w].origin, by |-> NoOne,
                      attempts |-> wk[w].attempts - 1, ready |-> FALSE]]
  /\ Drop(w)
  /\ UNCHANGED <<fails, runtime, rec, intents, budget>>

\* Re-read the claim after the reservation commit and refresh the lease.
ConfirmReservation(w) ==
  LET j == wk[w] IN
  /\ j.pc = "reserved" /\ Holds(w)
  /\ wk' = [wk EXCEPT ![w].mem = row[j.inst],
                      ![w].pc = IF j.origin = "runtime_repair" THEN "ifabsent" ELSE "kill"]
  /\ UNCHANGED <<row, op, fails, runtime, rec, intents, budget>>

-----------------------------------------------------------------------------
(* Engine calls. A failed call may or may not have had its effect.         *)

\* Mutant: a reaped row keeps its console specs.
Destroyed_KeepsConsoles(m) == [m EXCEPT !.status = "reaped", !.presence = "absent"]

Destroyed(m) == [m EXCEPT !.status = "reaped", !.presence = "absent", !.consoles = FALSE]
Deployed(m) == [m EXCEPT !.status = "active", !.error = FALSE,
                         !.presence = "present", !.consoles = TRUE]

Engine(w, pc) == wk[w].pc = pc /\ UNCHANGED <<row, op, fails, rec, intents, budget>>
Stops(i) == runtime' = [runtime EXCEPT ![i] = FALSE]
Runs(i) == runtime' = [runtime EXCEPT ![i] = TRUE]

\* First half of _run_deploy: an unproven destroy keeps the row active.
KillOld(w) ==
  LET j == wk[w] IN
  /\ Engine(w, "kill")
  /\ \/ Stops(j.inst) /\ SetPc(w, "killed")
     \/ /\ Stops(j.inst) \/ UNCHANGED runtime
        /\ End(w, "fail", [j.mem EXCEPT !.status = "active", !.presence = "unknown", !.error = TRUE])

\* The heartbeat between the destroy and the deploy.
AfterDestroy(w) ==
  /\ wk[w].pc = "killed" /\ Holds(w)
  /\ SetPc(w, "deploy")
  /\ UNCHANGED <<row, op, fails, runtime, rec, intents, budget>>

\* provision: a topology error proves absence, a later error does not.
Provision(w) ==
  LET j == wk[w] IN
  /\ Engine(w, "deploy")
  /\ \/ /\ End(w, "fail", [j.mem EXCEPT !.status = "error", !.error = TRUE, !.presence = "absent"])
        /\ UNCHANGED runtime
     \/ Runs(j.inst) /\ End(w, "ok", Deployed(j.mem))
     \/ /\ Runs(j.inst) \/ UNCHANGED runtime
        /\ End(w, "fail", [j.mem EXCEPT !.status = "active", !.error = TRUE, !.presence = "unknown"])

\* provision_if_absent: observe and deploy under one host-lock acquisition.
ProvisionIfAbsent(w) ==
  LET j == wk[w] IN
  /\ Engine(w, "ifabsent")
  /\ \/ runtime[j.inst] /\ SetPc(w, "confirm") /\ UNCHANGED runtime
     \/ ~ runtime[j.inst] /\ Runs(j.inst) /\ End(w, "ok", Deployed(j.mem))
     \/ (Runs(j.inst) \/ UNCHANGED runtime) /\ End(w, "fail", j.mem)

\* _rebuild_consoles_from_live_inspection. No handle (even from a running
\* lab) leaves presence unknown; a transient status becomes an error.
\* Mutant: no handle is taken for a proven absence.
Unconfirmed_ClaimsAbsence(m, base) ==
  [m EXCEPT !.presence = "absent", !.status = "error", !.error = TRUE]

Unconfirmed(m, base) ==
  IF base.status \in Transient
  THEN [m EXCEPT !.presence = "unknown", !.status = "error", !.error = TRUE]
  ELSE [m EXCEPT !.presence = "unknown", !.status = base.status, !.error = base.error]

InspectAndRebuild(w, pc) ==
  LET j == wk[w] IN
  /\ Engine(w, pc)
  /\ UNCHANGED runtime
  /\ \/ runtime[j.inst] /\ End(w, "ok", Deployed(j.mem))
     \/ End(w, "ok", Unconfirmed(j.mem, j.was))
     \/ End(w, "fail", j.mem)

Confirm(w) == InspectAndRebuild(w, "confirm")
Resync(w) == InspectAndRebuild(w, "resync")

DestroyLab(w) ==
  LET j == wk[w] IN
  /\ Engine(w, "destroy")
  /\ \/ Stops(j.inst) /\ End(w, "ok", Destroyed(j.mem))
     \/ (Stops(j.inst) \/ UNCHANGED runtime) /\ End(w, "fail", j.mem)

\* destroy_if_present: nothing but presence changes when it is already gone.
DestroyIfPresent(w) ==
  LET j == wk[w] IN
  /\ Engine(w, "ifpresent")
  /\ \/ /\ ~ runtime[j.inst] /\ UNCHANGED runtime
        /\ End(w, "ok", [j.mem EXCEPT !.presence = "absent"])
     \/ runtime[j.inst] /\ Stops(j.inst) /\ End(w, "ok", Destroyed(j.mem))
     \/ (Stops(j.inst) \/ UNCHANGED runtime) /\ End(w, "fail", j.mem)

RunChecks(w) ==
  /\ Engine(w, "check")
  /\ UNCHANGED runtime
  /\ \E res \in {"ok", "fail"} : End(w, res, wk[w].mem)

\* Any engine call may instead lose the host lock to the reconciler.
LockBusy(w) ==
  /\ wk[w].pc \in EnginePcs
  /\ wk[w].pc = "start" => wk[w].kind = "deploy" /\ Holds(w)
  /\ rec.pc # "off"
  /\ Spend("contention")
  /\ End(w, "lock", wk[w].mem)
  /\ UNCHANGED <<row, op, fails, runtime, rec, intents>>

-----------------------------------------------------------------------------
(* Settlement: every write is filtered by the claim.                       *)

SettleOk(w) ==
  LET j == wk[w]
      i == j.inst IN
  /\ j.pc = "settle" /\ j.res = "ok" /\ SettleFence(w)
  /\ row' = IF j.kind = "check" THEN row ELSE [row EXCEPT ![i] = j.mem]
  /\ op' = [op EXCEPT ![i] = Closed(@, "succeeded")]
  /\ fails' = IF j.kind = "deploy" /\ j.mem.presence = "present"
              THEN [fails EXCEPT ![i] = [k \in {"deploy", "destroy"} |-> 0]]
              ELSE fails
  /\ Drop(w)
  /\ UNCHANGED <<runtime, rec, intents, budget>>

\* Mutant: a failed deploy keeps its reservation status.
FailedRow_KeepsStatus(j, r) ==
  IF j.kind = "check" THEN r
  ELSE [r EXCEPT !.status = j.mem.status, !.error = (@ \/ j.kind = "deploy"), !.presence = "unknown"]

FailedRow(j, r) ==
  CASE j.kind = "deploy" ->
         [r EXCEPT !.status = IF j.mem.status \in {"active", "resetting"} THEN "active" ELSE "error",
                   !.error = TRUE,
                   !.presence = IF j.mem.presence = "absent" THEN "absent" ELSE "unknown"]
    [] j.kind = "destroy" -> [r EXCEPT !.presence = "unknown"]
    [] OTHER -> r

SettleFailed(w) ==
  LET j == wk[w]
      i == j.inst IN
  /\ j.pc = "settle" /\ j.res = "fail" /\ SettleFence(w)
  /\ row' = [row EXCEPT ![i] = Escalate(FailedRow(j, @), fails[i], j.kind, j.origin, j.attempts)]
  /\ op' = [op EXCEPT ![i] = Closed(@, "failed")]
  /\ fails' = [fails EXCEPT ![i] = FailsAfter(@, j.kind, j.origin, j.attempts)]
  /\ Drop(w)
  /\ UNCHANGED <<runtime, rec, intents, budget>>

\* Host-lock contention: refund the attempt and requeue. Only an ordinary
\* deploy keeps its reservation, because it may already have destroyed.
SettleDeferred(w) ==
  LET j == wk[w]
      i == j.inst IN
  /\ j.pc = "settle" /\ j.res = "lock" /\ Holds(w)
  /\ row' = IF j.kind = "deploy" /\ j.origin # "runtime_repair" THEN row
            ELSE [row EXCEPT ![i].status = j.was.status, ![i].error = j.was.error,
                             ![i].presence = j.was.presence]
  /\ op' = [op EXCEPT ![i].state = "queued", ![i].by = NoOne, ![i].ready = FALSE,
                      ![i].attempts = @ - 1]
  /\ Drop(w)
  /\ UNCHANGED <<fails, runtime, rec, intents, budget>>

-----------------------------------------------------------------------------
(* The lab-reconcile process: one pass per timer tick.                     *)

NoPass == [pc |-> "off", up |-> {}, orphans |-> {}, cleanup |-> {}, missing |-> {}]
Passes == [pc : {"off", "inventory", "plan", "orphans", "queue"}, up : SUBSET Instances,
           orphans : SUBSET Instances, cleanup : SUBSET Instances, missing : SUBSET Instances]

NeedsCleanup(i) == Exists(i) /\ row[i].status \notin LiveStatus \cup {"error"} /\ ~ IsOpen(i)
\* Mutant: rows that carry an error are left to the learner.
NeedsRepair_SkipsErrors(i) == row[i].status \in LiveStatus /\ ~ IsOpen(i) /\ ~ row[i].error

NeedsRepair(i) == row[i].status \in LiveStatus /\ ~ IsOpen(i)
\* Mutant: a lab whose row is not live counts as rowless.
IsOrphan_NotLive(i) == row[i].status \notin LiveStatus

IsOrphan(i) == ~ Exists(i)
Running == {i \in Instances : runtime[i]}

RecStuck ==
  /\ rec.pc = "off"
  /\ \E E \in SUBSET Instances : LapsedClaims(E) /\ ReconcileStuck(E)
  /\ rec' = [NoPass EXCEPT !.pc = "inventory"]
  /\ UNCHANGED <<runtime, wk, intents>>

\* The inventory is taken before the rows are read.
RecInventory ==
  /\ rec.pc = "inventory"
  /\ rec' = [rec EXCEPT !.pc = "plan", !.up = Running]
  /\ UNCHANGED <<row, op, fails, runtime, wk, intents, budget>>

RecPlan ==
  /\ rec.pc = "plan"
  /\ rec' = [pc |-> "orphans", up |-> {},
             orphans |-> {i \in rec.up : IsOrphan(i)},
             cleanup |-> {i \in rec.up : NeedsCleanup(i)},
             missing |-> {i \in Instances \ rec.up : NeedsRepair(i)}]
  /\ UNCHANGED <<row, op, fails, runtime, wk, intents, budget>>

RecDestroyOrphan(i) ==
  /\ rec.pc = "orphans" /\ i \in rec.orphans
  /\ Stops(i)
  /\ rec' = [rec EXCEPT !.orphans = @ \ {i}]
  /\ UNCHANGED <<row, op, fails, wk, intents, budget>>

\* A candidate deleted since the plan was made fails its refresh, and the
\* pass with it.
PlanIntact == \A i \in rec.cleanup \cup rec.missing : Exists(i)
ToCleanUp(up) == {i \in rec.cleanup \cap up : PlanIntact /\ NeedsCleanup(i)}
ToRepair(up) == {i \in rec.missing \ up : PlanIntact /\ NeedsRepair(i)}

\* Phase 4: re-check each candidate against a fresh inventory, enqueue the
\* conditional operation and record the observation behind it.
QueueRepairs(up) ==
  LET clean == ToCleanUp(up)
      repair == ToRepair(up)
  IN  /\ op' = [i \in Instances |->
                  CASE i \in clean -> NewOp(i, "destroy", "runtime_cleanup")
                    [] i \in repair -> NewOp(i, "deploy", "runtime_repair")
                    [] OTHER -> op[i]]
      /\ row' = [i \in Instances |->
                  CASE i \in clean -> [row[i] EXCEPT !.presence = "present"]
                    [] i \in repair -> [row[i] EXCEPT !.presence = "absent"]
                    [] OTHER -> row[i]]
      /\ rec' = NoPass
      /\ UNCHANGED <<fails, runtime, wk, intents, budget>>

RecQueue ==
  \/ rec.pc = "orphans" /\ rec.orphans = {} /\ QueueRepairs(Running)
  \/ rec.pc = "queue" /\ QueueRepairs(rec.up)

\* Nothing slow stands between the fresh inventory and the enqueues; only a
\* stalled process lets engine work and settlements pass in between.
RecStall ==
  /\ rec.pc = "orphans" /\ rec.orphans = {}
  /\ Spend("stall")
  /\ rec' = [rec EXCEPT !.pc = "queue", !.up = Running]
  /\ UNCHANGED <<row, op, fails, runtime, wk, intents>>

\* Host-lock contention or an engine error abandons the pass; so does a kill.
RecAbandon ==
  /\ rec.pc # "off"
  /\ Spend("contention")
  /\ rec' = NoPass
  /\ UNCHANGED <<row, op, fails, runtime, wk, intents>>

-----------------------------------------------------------------------------
(* Web tier and idle reaper. A request reads the instance without a lock,  *)
(* decides, and enqueues in a later statement.                             *)

\* request_lab: the advisory lock of the stream makes it one step.
Launch(i) ==
  /\ row[i].status = "none"
  /\ ~ \E j \in Instances : /\ StreamOf[j] = StreamOf[i] /\ Exists(j)
                            /\ row[j].status # "reaped"
  /\ row' = [row EXCEPT ![i].status = "queued"]
  /\ Enqueue(i, "deploy", "user")
  /\ UNCHANGED <<fails, runtime, wk, rec, intents, budget>>

Accepts(i, request) ==
  CASE request = "reset" -> row[i].status \in {"active", "error"}
    [] request = "check" -> row[i].status = "active" /\ ~ row[i].error
    [] request = "reap" -> row[i].status = "active"

Requests == {"reset", "check", "reap"}

ReadRequest(i, request) ==
  /\ Accepts(i, request)
  /\ IF request = "reap" THEN UNCHANGED budget ELSE Spend("requests")
  /\ intents' = intents \cup {<<i, request>>}
  /\ UNCHANGED <<row, op, fails, runtime, wk, rec>>

EnqueueRequest(i, request) ==
  /\ <<i, request>> \in intents
  /\ intents' = intents \ {<<i, request>>}
  /\ IF Exists(i)
     THEN Enqueue(i, CASE request = "reset" -> "deploy" [] request = "check" -> "check"
                       [] request = "reap" -> "destroy",
                  IF request = "reap" THEN "auto" ELSE "user")
     ELSE UNCHANGED op
  /\ UNCHANGED <<row, fails, runtime, wk, rec, budget>>

-----------------------------------------------------------------------------
(* Environment.                                                            *)

\* A running lab dies outside the academy's control (host reboot, OOM).
LoseRuntime(i) ==
  /\ runtime[i]
  /\ Spend("loss")
  /\ Stops(i)
  /\ UNCHANGED <<row, op, fails, wk, rec, intents>>

\* The tenant is deleted; its instances and operations go by cascade.
EraseRow(i) ==
  /\ Exists(i)
  /\ Spend("erase")
  /\ row' = [row EXCEPT ![i] = [NoRow EXCEPT !.status = "deleted"]]
  /\ op' = [op EXCEPT ![i] = [NoOp EXCEPT !.id = op[i].id]]
  /\ fails' = [fails EXCEPT ![i] = [k \in {"deploy", "destroy"} |-> 0]]
  /\ UNCHANGED <<runtime, wk, rec, intents>>

-----------------------------------------------------------------------------

Init ==
  /\ row = [i \in Instances |-> NoRow]
  /\ op = [i \in Instances |-> NoOp]
  /\ fails = [i \in Instances |-> [k \in {"deploy", "destroy"} |-> 0]]
  /\ runtime = [i \in Instances |-> FALSE]
  /\ wk = [w \in Workers |-> NoJob("new")]
  /\ rec = NoPass
  /\ intents = {}
  /\ budget \in Budgets

WorkerStep(w) ==
  \/ StartWorker(w) \/ PollStuck(w) \/ (\E i \in Instances : Claim(w, i)) \/ EndDrain(w)
  \/ Stale(w) \/ BeginWork(w) \/ Reserve(w) \/ DeferForCapacity(w)
  \/ ConfirmReservation(w) \/ KillOld(w) \/ AfterDestroy(w) \/ Provision(w)
  \/ ProvisionIfAbsent(w) \/ Confirm(w) \/ Resync(w) \/ DestroyLab(w)
  \/ DestroyIfPresent(w) \/ RunChecks(w) \/ LockBusy(w)
  \/ SettleOk(w) \/ SettleFailed(w) \/ SettleDeferred(w)

RecStep ==
  \/ RecStuck \/ RecInventory \/ RecPlan \/ (\E i \in Instances : RecDestroyOrphan(i))
  \/ RecQueue \/ RecStall \/ RecAbandon

RequestStep(i) ==
  \/ Launch(i)
  \/ \E r \in Requests : ReadRequest(i, r) \/ EnqueueRequest(i, r)

Next ==
  \/ \E w \in Workers : WorkerStep(w) \/ CrashWorker(w)
  \/ RecStep
  \/ \E i \in Instances : RequestStep(i) \/ RetryDelayOver(i) \/ LoseRuntime(i) \/ EraseRow(i)

Spec == Init /\ [][Next]_vars

-----------------------------------------------------------------------------
(* Fairness. systemd restarts the worker (Restart=always) and a timer runs *)
(* lab-reconcile every minute, so both processes keep taking steps; an     *)
(* enqueue whose guard was read follows in the same request. Faults,       *)
(* launches and new requests are never owed.                               *)

WorkerProgress(w) ==
  \/ StartWorker(w) \/ PollStuck(w) \/ (\E i \in Instances : Claim(w, i)) \/ EndDrain(w)
  \/ Stale(w) \/ BeginWork(w) \/ Reserve(w) \/ DeferForCapacity(w)
  \/ ConfirmReservation(w) \/ KillOld(w) \/ AfterDestroy(w) \/ Provision(w)
  \/ ProvisionIfAbsent(w) \/ Confirm(w) \/ Resync(w) \/ DestroyLab(w)
  \/ DestroyIfPresent(w) \/ RunChecks(w)
  \/ SettleOk(w) \/ SettleFailed(w) \/ SettleDeferred(w)

RecProgress ==
  \/ RecStuck \/ RecInventory \/ RecPlan \/ (\E i \in Instances : RecDestroyOrphan(i))
  \/ RecQueue

Fairness ==
  /\ WF_vars(\E w \in Workers : WorkerProgress(w))
  /\ WF_vars(RecProgress)
  /\ \A i \in Instances, r \in Requests : WF_vars(EnqueueRequest(i, r))

FairSpec == Spec /\ Fairness

-----------------------------------------------------------------------------
(* The queue seen as a lease queue: one slot per instance.                 *)

SlotOf(o) ==
  CASE o.state = "queued" -> [state |-> "waiting", class |-> o.kind, by |-> NoOne, tries |-> o.attempts]
    [] o.state = "claimed" -> [state |-> "held", class |-> o.kind, by |-> o.by, tries |-> o.attempts]
    [] OTHER -> [state |-> "idle"]

Lease == INSTANCE LeaseQueue WITH
  Items <- Instances, Holders <- Workers, Nobody <- NoOne, Classes <- Kinds,
  Limit <- MaxAttempts, job <- [i \in Instances |-> SlotOf(op[i])]

-----------------------------------------------------------------------------
(* Properties.                                                             *)

\* The operation table is a lease queue: no operation is open twice, skips
\* the queue, is taken beyond its ceiling or leaves the queue unclaimed.
ImplementsLeaseQueue == Lease!Spec

\* Type invariant, with the table's CHECK constraint on conditional
\* operations and the claim columns filled exactly while an operation is
\* claimed.
TypeOK ==
  /\ row \in [Instances -> Rows]
  /\ op \in [Instances -> Ops]
  /\ \A i \in Instances : Conditional(op[i]) /\ (op[i].by # NoOne <=> op[i].state = "claimed")
  /\ fails \in [Instances -> [{"deploy", "destroy"} -> Nat]]
  /\ runtime \in [Instances -> BOOLEAN]
  /\ wk \in [Workers -> Jobs]
  /\ rec \in Passes
  /\ intents \subseteq Instances \X Requests
  /\ budget \in [Faults -> Nat]

\* A learner is shown consoles only for a lab that is really up
\* (_console_live), unless it died outside the academy's control.
LabReallyUp ==
  \A i \in Instances :
    /\ row[i].status = "active" /\ ~ row[i].error /\ row[i].presence = "present"
    /\ \A b \in Budgets : budget["loss"] >= b["loss"]
    => runtime[i]

\* No row is left waiting for work nobody will do: a queued, provisioning or
\* resetting instance always has an open operation.
NoStrandedRow ==
  \A i \in Instances : row[i].status \in Transient => IsOpen(i)

\* Nothing of a reaped lab is left behind once its last operation closed:
\* its addresses and console ports are free for other learners.
ReapedIsGone ==
  \A i \in Instances :
    row[i].status = "reaped" /\ ~ IsOpen(i) => ~ runtime[i] /\ ~ row[i].consoles

\* However often a worker dies or stalls, no operation is executed more
\* often than its kind's ceiling.
AttemptsBounded ==
  \A i \in Instances : op[i].attempts <= MaxAttempts[op[i].kind]

\* One worker process at a time, and it is the only holder of a live claim.
OneHolder ==
  \A v, w \in Workers : wk[v].inst # NoOne /\ Up(w) => v = w

\* Claims are sound, across crashes, reclaims and refunds: one holder, and no
\* execution beyond the ceiling.
ClaimsSound == OneHolder /\ AttemptsBounded

\* Capacity admission counts rows whose presence is present or unknown:
\* "absent" must be a proven absence, unless an open operation is about to
\* observe the lab again. No crash, requeue or failed engine call may leave
\* a running lab invisible to the cap.
AbsentIsProven ==
  \A i \in Instances : Exists(i) /\ row[i].presence = "absent" /\ runtime[i] => IsOpen(i)

\* What the row of an instance says agrees with its queue and its host: the
\* four parts above, which each break on their own.
RowTruthful == LabReallyUp /\ NoStrandedRow /\ ReapedIsGone /\ AbsentIsProven

\* The number of running labs never exceeds the configured cap.
CapacityHeld ==
  Cardinality({i \in Instances : Exists(i) /\ runtime[i]}) <= MaxLabs

\* Once its engine work has ended, a worker whose claim was taken back in
\* the meantime changes neither instances nor operations.
FencedSettlement ==
  [][\A w \in Workers :
       wk[w].pc = "settle" /\ ~ Holds(w) /\ wk'[w] # wk[w] => UNCHANGED <<row, op, fails>>]_vars

\* The whole promise of the module docstring: a worker whose lease has been
\* reclaimed publishes nothing at all.
StaleWorkerSilent ==
  [][\A w \in Workers :
       wk[w].inst # NoOne /\ ~ Holds(w) /\ wk'[w] # wk[w] => UNCHANGED <<row, op, fails>>]_vars

\* The reconciler only ever destroys labs that have no row.
OnlyOrphansDestroyed ==
  [][\A i \in Instances : rec' # rec /\ runtime'[i] # runtime[i] => ~ Exists(i)]_vars

\* Destroys of idle labs that keep failing are given up in the end.
ReapsEnd ==
  \A i \in Instances : <>[](op[i].kind = "destroy" => op[i].origin # "auto")

\* A reaped instance stays reaped.
ReapedIsFinal ==
  [][\A i \in Instances : row[i].status = "reaped" => row'[i].status \in {"reaped", "deleted"}]_vars

\* Every intent is answered: it leaves the queue for good, even though
\* workers die, lose the host lock and fail in the engine.
IntentsEnd == \A i \in Instances : IsOpen(i) ~> ~ IsOpen(i)

\* No row stays in a transient status for ever.
TransientEnds ==
  \A i \in Instances : row[i].status \in Transient ~> row[i].status \notin Transient

\* An instance counted against the cap while its lab is gone is noticed:
\* it is repaired, released or handed to an operator as an error.
PhantomEnds ==
  \A i \in Instances :
    row[i].status = "active" /\ ~ runtime[i] ~> row[i].status # "active" \/ runtime[i]

\* Under fairness the three hold together: what was asked for is answered,
\* what is gone is noticed, and nothing stays in between.
LabSettles == IntentsEnd /\ PhantomEnds /\ TransientEnds
=============================================================================
