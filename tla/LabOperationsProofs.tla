------------------------- MODULE LabOperationsProofs -------------------------
(***************************************************************************)
(* Proofs about LabOperations that hold for every number of instances and  *)
(* worker incarnations, every ceiling and every budget of faults. They     *)
(* come in six parts: the invariant of claims and workers, with what       *)
(* follows of types, attempts and holders; the fence of a settlement; the  *)
(* truth of the instance rows, and the refinement of the lease queue, both *)
(* for behaviours in which no live worker stalls past its lease; that only *)
(* orphans are destroyed unasked, for all behaviours; and the cap, for a   *)
(* worker that is never restarted and labs that are never reset.           *)
(***************************************************************************)
EXTENDS LabOperations, FiniteSetTheorems, TLAPS

IdlePcs == {"new", "dead", "loop", "drain"}

\* The attempts charged to an operation depend on the state it is in:
\* requeueing and deferral are only sound because a claim was charged.
OpOK(o) ==
  /\ o \in Ops
  /\ Conditional(o)
  /\ o.by # NoOne <=> o.state = "claimed"
  /\ o.attempts <= MaxAttempts[o.kind]
  /\ o.state = "queued" => o.attempts < MaxAttempts[o.kind]
  /\ o.state = "claimed" => o.attempts >= 1

\* A worker has an operation in hand exactly between its claim and its
\* settlement, and remembers an attempt count a claim could have charged.
JobOK(j) ==
  /\ j \in Jobs
  /\ j.inst = NoOne <=> j.pc \in IdlePcs
  /\ j.inst # NoOne => /\ j.attempts >= 1
                       /\ j.attempts <= MaxAttempts[j.kind]
                       /\ Conditional(j)

\* The singleton lock excludes every other incarnation.
OneUp == \A v, w \in Workers : Up(v) /\ Up(w) => v = w

FailCounts == [{"deploy", "destroy"} -> Nat]

RowsOK == row \in [Instances -> Rows]
OpsOK == op \in [Instances -> Ops] /\ \A i \in Instances : OpOK(op[i])
FailsOK == fails \in [Instances -> FailCounts]
JobsOK == wk \in [Workers -> Jobs] /\ (\A w \in Workers : JobOK(wk[w])) /\ OneUp
RestOK == /\ runtime \in [Instances -> BOOLEAN]
          /\ rec \in Passes
          /\ intents \subseteq Instances \X Requests
          /\ budget \in [Faults -> Nat]

IInv == RowsOK /\ OpsOK /\ FailsOK /\ JobsOK /\ RestOK

-----------------------------------------------------------------------------
(* Identifiers.                                                            *)

\* At most one worker still remembers an operation of an instance, so of
\* three recycled identifiers one is always free.
LEMMA FreshIdType ==
  ASSUME IInv, NEW i \in Instances
  PROVE  FreshId(i) \in OpIds
<1>. DEFINE Fresh(k) == k # op[i].id /\ \A w \in Workers : wk[w].inst = i => k # wk[w].id
<1>1. op[i].id \in OpIds /\ \A w \in Workers : wk[w].id \in OpIds
  BY DEF IInv, OpsOK, JobsOK, Ops, Jobs
<1>2. \A v, w \in Workers : wk[v].inst = i /\ wk[w].inst = i => v = w
  BY NoOneAssumption DEF IInv, JobsOK, JobOK, OneUp, Up, IdlePcs
<1>3. \E k \in OpIds : Fresh(k)
  <2>1. CASE \E w \in Workers : wk[w].inst = i
    <3>1. PICK w \in Workers : wk[w].inst = i  BY <2>1
    <3>2. \A v \in Workers : wk[v].inst = i => v = w  BY <1>2, <3>1
    <3>3. PICK k \in OpIds : k # op[i].id /\ k # wk[w].id  BY <1>1 DEF OpIds
    <3>. QED  BY <3>2, <3>3
  <2>2. CASE ~ \E w \in Workers : wk[w].inst = i
    <3>1. PICK k \in OpIds : k # op[i].id  BY <1>1 DEF OpIds
    <3>. QED  BY <2>2, <3>1
  <2>. QED  BY <2>1, <2>2
<1>. HIDE DEF Fresh
<1>4. (CHOOSE k \in OpIds : Fresh(k)) \in OpIds  BY <1>3
<1>. QED  BY <1>4 DEF FreshId, Fresh

LEMMA NewOpOK ==
  ASSUME IInv, NEW i \in Instances, NEW kind \in Kinds, NEW origin \in Origins,
         origin = "runtime_repair" => kind = "deploy",
         origin = "runtime_cleanup" => kind = "destroy"
  PROVE  OpOK(NewOp(i, kind, origin))
<1>1. FreshId(i) \in OpIds  BY FreshIdType
<1>2. MaxAttempts[kind] \in Nat \ {0}  BY MaxAttemptsAssumption
<1>. QED  BY <1>1, <1>2 DEF NewOp, OpOK, Ops, OpenStates, Conditional

LEMMA ClosedOK ==
  ASSUME NEW o, OpOK(o), NEW state \in {"failed", "succeeded"}
  PROVE  OpOK(Closed(o, state))
<1>. DEFINE c == Closed(o, state)
<1>1. NoOp \in Ops  BY DEF NoOp, Ops, OpIds, OpenStates, Kinds, Origins
<1>2. o.id \in OpIds  BY DEF OpOK, Ops
<1>3. c \in Ops  BY <1>1, <1>2 DEF Closed, Ops
<1>4. /\ c.state = state
      /\ c.kind = "deploy" /\ c.origin = "user" /\ c.by = NoOne /\ c.attempts = 0
  BY <1>1 DEF Closed, NoOp, Ops
<1>5. 0 <= MaxAttempts[c.kind]  BY <1>4, MaxAttemptsAssumption DEF Kinds
<1>. QED  BY <1>3, <1>4, <1>5 DEF OpOK, Conditional

LEMMA RequeuedOK ==
  ASSUME NEW o, OpOK(o), o.attempts < MaxAttempts[o.kind]
  PROVE  OpOK(Requeued(o))
BY DEF OpOK, Ops, Requeued, Conditional, OpenStates

LEMMA EnqueueOK ==
  ASSUME IInv, NEW i \in Instances, NEW kind \in Kinds, NEW origin \in {"user", "auto"},
         Enqueue(i, kind, origin)
  PROVE  OpsOK'
<1>1. OpOK(NewOp(i, kind, origin))  BY NewOpOK DEF Origins
<1>2. NewOp(i, kind, origin) \in Ops  BY <1>1 DEF OpOK
<1>. QED  BY <1>1, <1>2 DEF Enqueue, IInv, OpsOK

-----------------------------------------------------------------------------
(* Escalation and recovery.                                                *)

LEMMA EscalateType ==
  ASSUME NEW r \in Rows, NEW f, NEW kind, NEW origin, NEW attempts
  PROVE  Escalate(r, f, kind, origin, attempts) \in Rows
BY DEF Escalate, Rows, Statuses, LiveStatus

LEMMA FailsAfterType ==
  ASSUME NEW f \in FailCounts, NEW kind \in Kinds, NEW origin, NEW attempts \in Nat
  PROVE  FailsAfter(f, kind, origin, attempts) \in FailCounts
<1>1. CASE Escalating(kind, origin)
  <2>1. kind \in {"deploy", "destroy"}  BY <1>1 DEF Escalating
  <2>2. f[kind] \in Nat /\ MaxAttempts[kind] \in Nat
    BY <2>1, MaxAttemptsAssumption DEF FailCounts
  <2>3. AtMost(f[kind] + attempts, MaxAttempts[kind]) \in Nat  BY <2>2 DEF AtMost
  <2>. QED  BY <1>1, <2>1, <2>3 DEF FailsAfter, FailCounts
<1>2. CASE ~ Escalating(kind, origin)  BY <1>2 DEF FailsAfter
<1>. QED  BY <1>1, <1>2

LEMMA RequeuedRowType ==
  ASSUME NEW r \in Rows, NEW kind
  PROVE  RequeuedRow(r, kind) \in Rows
<1>1. r.status \in Statuses \cup {"none", "deleted"} /\ r.presence \in Presences  BY DEF Rows
<1>. DEFINE s == CASE r.status = "provisioning" -> "queued"
                   [] r.status = "resetting" -> "active"
                   [] OTHER -> r.status
            p == IF kind \in {"deploy", "destroy"} THEN "unknown" ELSE r.presence
<1>2. s \in Statuses \cup {"none", "deleted"}  BY <1>1 DEF Statuses, LiveStatus
<1>3. p \in Presences  BY <1>1 DEF Presences
<1>4. RequeuedRow(r, kind) = [r EXCEPT !.status = s, !.presence = p]  BY DEF RequeuedRow
<1>. HIDE DEF s, p
<1>. QED  BY <1>2, <1>3, <1>4 DEF Rows

\* What lease expiry and restart reclaim make of one claimed operation.
LEMMA RecoveredOK ==
  ASSUME IInv, NEW i \in Instances
  PROVE  /\ RecoveredRow(i) \in Rows
         /\ RecoveredFails(i) \in FailCounts
         /\ OpOK(RecoveredOp(i))
<1>1. OpOK(op[i]) /\ row[i] \in Rows /\ fails[i] \in FailCounts
  BY DEF IInv, OpsOK, RowsOK, FailsOK
<1>2. op[i].kind \in Kinds /\ op[i].attempts \in Nat  BY <1>1 DEF OpOK, Ops
<1>3. MaxAttempts[op[i].kind] \in Nat  BY <1>2, MaxAttemptsAssumption
<1>4. CeilingRow(i) \in Rows
  <2>. DEFINE r == IF op[i].kind \in {"deploy", "destroy"}
                   THEN [row[i] EXCEPT !.status = "active", !.error = TRUE, !.presence = "unknown"]
                   ELSE row[i]
  <2>1. r \in Rows  BY <1>1 DEF Rows, Statuses, LiveStatus, Presences
  <2>. HIDE DEF r
  <2>2. Escalate(r, fails[i], op[i].kind, op[i].origin, op[i].attempts) \in Rows
    BY <2>1, EscalateType
  <2>. QED  BY <2>2 DEF CeilingRow, r
<1>5. RequeuedRow(row[i], op[i].kind) \in Rows  BY <1>1, RequeuedRowType
<1>6. FailsAfter(fails[i], op[i].kind, op[i].origin, op[i].attempts) \in FailCounts
  BY <1>1, <1>2, FailsAfterType
<1>7. OpOK(RecoveredOp(i))
  <2>1. CASE AtCeiling(i)
    BY <1>1, <2>1, ClosedOK DEF RecoveredOp
  <2>2. CASE ~ AtCeiling(i)
    <3>1. op[i].attempts < MaxAttempts[op[i].kind]  BY <1>2, <1>3, <2>2 DEF AtCeiling
    <3>. QED  BY <1>1, <2>2, <3>1, RequeuedOK DEF RecoveredOp
  <2>. QED  BY <2>1, <2>2
<1>. QED  BY <1>1, <1>4, <1>5, <1>6, <1>7 DEF RecoveredRow, RecoveredFails

LEMMA ReconcileStuckOK ==
  ASSUME IInv, NEW E \in SUBSET Instances, ReconcileStuck(E)
  PROVE  RowsOK' /\ OpsOK' /\ FailsOK'
<1>. DEFINE r == [i \in Instances |-> IF i \in E THEN RecoveredRow(i) ELSE row[i]]
            o == [i \in Instances |-> IF i \in E THEN RecoveredOp(i) ELSE op[i]]
            missing == {i \in Instances : Stranded(r[i], o[i])}
            rr(i) == [r[i] EXCEPT !.status = IF @ = "resetting" THEN "active" ELSE "queued",
                                  !.presence = "unknown"]
<1>1. \A i \in Instances : r[i] \in Rows  BY RecoveredOK DEF IInv, RowsOK
<1>2. \A i \in Instances : OpOK(o[i])  BY RecoveredOK DEF IInv, OpsOK
<1>3. \A i \in Instances : OpOK(NewOp(i, "deploy", "auto"))
  BY NewOpOK DEF Kinds, Origins
<1>4. /\ row' = [i \in Instances |-> IF i \in missing THEN rr(i) ELSE r[i]]
      /\ op' = [i \in Instances |-> IF i \in missing THEN NewOp(i, "deploy", "auto") ELSE o[i]]
      /\ fails' = [i \in Instances |-> IF i \in E THEN RecoveredFails(i) ELSE fails[i]]
  BY DEF ReconcileStuck
<1>. HIDE DEF r, o, missing
<1>5. \A i \in Instances : rr(i) \in Rows
  BY <1>1 DEF Rows, Statuses, LiveStatus, Presences
<1>. HIDE DEF rr
<1>6. RowsOK'  BY <1>1, <1>4, <1>5 DEF RowsOK
<1>7. OpsOK'  BY <1>2, <1>3, <1>4 DEF OpsOK, OpOK
<1>8. FailsOK'
  <2>1. \A i \in Instances : RecoveredFails(i) \in FailCounts /\ fails[i] \in FailCounts
    BY RecoveredOK DEF IInv, FailsOK
  <2>. QED  BY <1>4, <2>1 DEF FailsOK
<1>. QED  BY <1>6, <1>7, <1>8

LEMMA LapsedClaimsBudget ==
  ASSUME IInv, NEW E, LapsedClaims(E)
  PROVE  budget' \in [Faults -> Nat]
BY DEF LapsedClaims, Spend, IInv, RestOK, Faults

-----------------------------------------------------------------------------
(* How a step moves the worker that takes it.                              *)

LEMMA JobMoves ==
  ASSUME IInv, NEW w \in Workers, NEW j, JobOK(j),
         Up(w) \/ j.pc = "dead", wk' = [wk EXCEPT ![w] = j]
  PROVE  JobsOK'
<1>1. wk \in [Workers -> Jobs] /\ (\A v \in Workers : JobOK(wk[v])) /\ OneUp
  BY DEF IInv, JobsOK
<1>2. j \in Jobs  BY DEF JobOK
<1>3. wk' \in [Workers -> Jobs]  BY <1>1, <1>2
<1>4. wk'[w] = j /\ \A v \in Workers \ {w} : wk'[v] = wk[v]  BY <1>1
<1>5. \A v \in Workers : JobOK(wk'[v])  BY <1>1, <1>4
<1>6. OneUp'
  <2>1. \A v \in Workers : Up(v)' => Up(v) \/ (v = w /\ j.pc # "dead")  BY <1>4 DEF Up
  <2>2. \A v \in Workers : Up(v)' => Up(v)  BY <2>1
  <2>. QED  BY <1>1, <2>2 DEF OneUp
<1>. QED  BY <1>3, <1>5, <1>6 DEF JobsOK, JobOK

LEMMA NoJobOK ==
  ASSUME NEW pc \in IdlePcs
  PROVE  JobOK(NoJob(pc)) /\ NoJob(pc).pc = pc
<1>. DEFINE j == NoJob(pc)
<1>1. j = [pc |-> pc, inst |-> NoOne, id |-> 0, kind |-> "deploy", origin |-> "user",
           attempts |-> 0, was |-> NoRow, mem |-> NoRow, res |-> "none"]
  BY DEF NoJob
<1>2. NoRow \in Rows  BY DEF NoRow, Rows, Statuses, LiveStatus, Presences
<1>3. j \in Jobs
  BY <1>1, <1>2 DEF Jobs, Pcs, IdlePcs, OpIds, Kinds, Origins
<1>. QED  BY <1>1, <1>3 DEF JobOK

\* A worker in the middle of an operation moves on to another such point.
LEMMA SetPcOK ==
  ASSUME IInv, NEW w \in Workers, wk[w].pc \notin IdlePcs,
         NEW pc \in Pcs \ IdlePcs, SetPc(w, pc)
  PROVE  JobsOK'
<1>. DEFINE j == [wk[w] EXCEPT !.pc = pc]
<1>1. JobOK(wk[w])  BY DEF IInv, JobsOK
<1>2. JobOK(j)  BY <1>1 DEF JobOK, Jobs, Conditional
<1>3. Up(w)  BY DEF Up, IdlePcs
<1>4. wk' = [wk EXCEPT ![w] = j]  BY DEF SetPc
<1>. HIDE DEF j
<1>. QED  BY <1>2, <1>3, <1>4, JobMoves

LEMMA EndOK ==
  ASSUME IInv, NEW w \in Workers, wk[w].pc \notin IdlePcs,
         NEW res \in {"ok", "fail", "lock"}, NEW mem \in Rows, End(w, res, mem)
  PROVE  JobsOK'
<1>. DEFINE j == [wk[w] EXCEPT !.pc = "settle", !.res = res, !.mem = mem]
<1>1. JobOK(wk[w])  BY DEF IInv, JobsOK
<1>2. JobOK(j)  BY <1>1 DEF JobOK, Jobs, Conditional, Pcs, IdlePcs
<1>3. Up(w)  BY DEF Up, IdlePcs
<1>4. wk' = [wk EXCEPT ![w] = j]  BY DEF End
<1>. HIDE DEF j
<1>. QED  BY <1>2, <1>3, <1>4, JobMoves

LEMMA DropOK ==
  ASSUME IInv, NEW w \in Workers, Up(w), Drop(w)
  PROVE  JobsOK'
BY NoJobOK, JobMoves DEF Drop, IdlePcs

\* What a worker in the middle of an operation knows.
LEMMA JobFacts ==
  ASSUME IInv, NEW w \in Workers, wk[w].pc \notin IdlePcs
  PROVE  /\ Up(w)
         /\ wk[w].inst \in Instances
         /\ wk[w].kind \in Kinds /\ wk[w].origin \in Origins /\ Conditional(wk[w])
         /\ wk[w].id \in OpIds
         /\ wk[w].attempts \in Nat /\ wk[w].attempts >= 1
         /\ wk[w].attempts <= MaxAttempts[wk[w].kind]
         /\ wk[w].was \in Rows /\ wk[w].mem \in Rows
<1>1. JobOK(wk[w])  BY DEF IInv, JobsOK
<1>. QED  BY <1>1 DEF JobOK, Jobs, Up, IdlePcs

-----------------------------------------------------------------------------
(* Every action preserves the invariant: the worker outside engine calls.  *)

LEMMA StartWorkerStep ==
  ASSUME IInv, NEW w \in Workers, StartWorker(w)
  PROVE  IInv'
<1>. DEFINE E == {i \in Instances : op[i].state = "claimed" /\ op[i].by # w}
<1>1. /\ row' = [i \in Instances |-> IF i \in E THEN RecoveredRow(i) ELSE row[i]]
      /\ op' = [i \in Instances |-> IF i \in E THEN RecoveredOp(i) ELSE op[i]]
      /\ fails' = [i \in Instances |-> IF i \in E THEN RecoveredFails(i) ELSE fails[i]]
      /\ wk' = [wk EXCEPT ![w] = NoJob("loop")]
      /\ SingletonFree(w)
      /\ UNCHANGED <<runtime, rec, intents, budget>>
  BY DEF StartWorker
<1>. HIDE DEF E
<1>2. RowsOK'
  <2>1. \A i \in Instances : RecoveredRow(i) \in Rows /\ row[i] \in Rows
    BY RecoveredOK DEF IInv, RowsOK
  <2>. QED  BY <1>1, <2>1 DEF RowsOK
<1>3. OpsOK'
  <2>1. \A i \in Instances : OpOK(RecoveredOp(i)) /\ OpOK(op[i])
    BY RecoveredOK DEF IInv, OpsOK
  <2>. QED  BY <1>1, <2>1 DEF OpsOK, OpOK
<1>4. FailsOK'
  <2>1. \A i \in Instances : RecoveredFails(i) \in FailCounts /\ fails[i] \in FailCounts
    BY RecoveredOK DEF IInv, FailsOK
  <2>. QED  BY <1>1, <2>1 DEF FailsOK
<1>5. JobsOK'
  <2>1. wk \in [Workers -> Jobs] /\ (\A v \in Workers : JobOK(wk[v]))
    BY DEF IInv, JobsOK
  <2>2. JobOK(NoJob("loop"))  BY NoJobOK DEF IdlePcs
  <2>3. wk'[w] = NoJob("loop") /\ \A v \in Workers \ {w} : wk'[v] = wk[v]
    BY <1>1, <2>1
  <2>4. wk' \in [Workers -> Jobs]  BY <1>1, <2>1, <2>2 DEF JobOK
  <2>5. \A v \in Workers : JobOK(wk'[v])  BY <2>1, <2>2, <2>3
  <2>6. OneUp'  BY <1>1, <2>3 DEF OneUp, Up, SingletonFree
  <2>. QED  BY <2>4, <2>5, <2>6 DEF JobsOK, JobOK
<1>6. RestOK'  BY <1>1 DEF IInv, RestOK
<1>. QED  BY <1>2, <1>3, <1>4, <1>5, <1>6 DEF IInv

LEMMA CrashWorkerStep ==
  ASSUME IInv, NEW w \in Workers, CrashWorker(w)
  PROVE  IInv'
<1>1. JobsOK'  BY NoJobOK, JobMoves DEF CrashWorker, IdlePcs
<1>2. RowsOK' /\ OpsOK' /\ FailsOK' /\ RestOK'
  BY DEF CrashWorker, IInv, RowsOK, OpsOK, OpOK, FailsOK, RestOK
<1>. QED  BY <1>1, <1>2 DEF IInv

\* An idle worker that changes only its program counter.
LEMMA IdleMove ==
  ASSUME IInv, NEW w \in Workers, wk[w].pc \in {"loop", "drain"},
         NEW pc \in {"loop", "drain"}, SetPc(w, pc)
  PROVE  JobsOK'
<1>. DEFINE j == [wk[w] EXCEPT !.pc = pc]
<1>1. JobOK(wk[w])  BY DEF IInv, JobsOK
<1>2. JobOK(j)  BY <1>1 DEF JobOK, Jobs, Pcs, IdlePcs
<1>3. Up(w)  BY DEF Up
<1>4. wk' = [wk EXCEPT ![w] = j]  BY DEF SetPc
<1>. HIDE DEF j
<1>. QED  BY <1>2, <1>3, <1>4, JobMoves

LEMMA PollStuckStep ==
  ASSUME IInv, NEW w \in Workers, PollStuck(w)
  PROVE  IInv'
<1>1. PICK E \in SUBSET Instances : LapsedClaims(E) /\ ReconcileStuck(E)  BY DEF PollStuck
<1>2. RowsOK' /\ OpsOK' /\ FailsOK'  BY <1>1, ReconcileStuckOK
<1>3. JobsOK'  BY IdleMove DEF PollStuck
<1>4. RestOK'
  <2>1. budget' \in [Faults -> Nat]  BY <1>1, LapsedClaimsBudget
  <2>. QED  BY <2>1 DEF PollStuck, IInv, RestOK
<1>. QED  BY <1>2, <1>3, <1>4 DEF IInv

LEMMA ClaimStep ==
  ASSUME IInv, NEW w \in Workers, NEW i \in Instances, Claim(w, i)
  PROVE  IInv'
<1>. DEFINE o == [op[i] EXCEPT !.state = "claimed", !.by = w, !.attempts = @ + 1]
            j == [pc |-> IF op[i].kind = "deploy" /\ op[i].origin # "runtime_repair"
                         THEN "admit" ELSE "start",
                  inst |-> i, id |-> op[i].id, kind |-> op[i].kind, origin |-> op[i].origin,
                  attempts |-> op[i].attempts + 1, was |-> row[i], mem |-> row[i], res |-> "none"]
<1>1. OpOK(op[i]) /\ op[i].state = "queued" /\ row[i] \in Rows
  BY DEF Claim, Ready, IInv, OpsOK, RowsOK
<1>2. op[i].kind \in Kinds /\ op[i].attempts \in Nat  BY <1>1 DEF OpOK, Ops
<1>3. MaxAttempts[op[i].kind] \in Nat  BY <1>2, MaxAttemptsAssumption
<1>4. OpOK(o)
  <2>1. op[i] \in Ops /\ Conditional(op[i]) /\ op[i].attempts < MaxAttempts[op[i].kind]
    BY <1>1 DEF OpOK
  <2>2. o \in Ops
    <3>1. [op[i] EXCEPT !.state = "claimed", !.by = w] \in Ops  BY <2>1 DEF Ops, OpenStates
    <3>2. op[i].attempts + 1 \in Nat  BY <1>2
    <3>. QED  BY <3>1, <3>2 DEF Ops
  <2>3. /\ o.state = "claimed" /\ o.by = w /\ o.attempts = op[i].attempts + 1
        /\ o.kind = op[i].kind /\ o.origin = op[i].origin
    BY <2>1 DEF Ops
  <2>4. Conditional(o)  BY <2>1, <2>3 DEF Conditional
  <2>5. o.by # NoOne  BY <2>3, NoOneAssumption
  <2>6. o.attempts <= MaxAttempts[o.kind] /\ o.attempts >= 1  BY <1>2, <1>3, <2>1, <2>3
  <2>. QED  BY <2>2, <2>3, <2>4, <2>5, <2>6 DEF OpOK
<1>5. JobOK(j)
  <2>1. j \in Jobs  BY <1>1, <1>2 DEF OpOK, Ops, Jobs, Pcs
  <2>. QED
    BY <1>1, <1>2, <1>3, <2>1, NoOneAssumption DEF OpOK, JobOK, Conditional, IdlePcs
<1>6. op' = [op EXCEPT ![i] = o] /\ wk' = [wk EXCEPT ![w] = j]
  <2>1. op' = [op EXCEPT ![i] = o]  BY DEF Claim
  <2>2. wk' = [wk EXCEPT ![w] = j]  BY Zenon DEF Claim
  <2>. QED  BY <2>1, <2>2
<1>. HIDE DEF o, j
<1>7. OpsOK'  BY <1>4, <1>6 DEF IInv, OpsOK, OpOK
<1>8. JobsOK'
  <2>1. Up(w)  BY DEF Claim, Up
  <2>. QED  BY <1>5, <1>6, <2>1, JobMoves
<1>9. RowsOK' /\ FailsOK' /\ RestOK'
  BY DEF Claim, IInv, RowsOK, FailsOK, RestOK
<1>. QED  BY <1>7, <1>8, <1>9 DEF IInv

LEMMA RetryDelayOverStep ==
  ASSUME IInv, NEW i \in Instances, RetryDelayOver(i)
  PROVE  IInv'
<1>. DEFINE o == [op[i] EXCEPT !.ready = TRUE]
<1>1. OpOK(o)  BY DEF IInv, OpsOK, OpOK, Ops, Conditional
<1>2. op' = [op EXCEPT ![i] = o]  BY DEF RetryDelayOver
<1>. HIDE DEF o
<1>3. OpsOK'  BY <1>1, <1>2 DEF IInv, OpsOK, OpOK
<1>4. RowsOK' /\ FailsOK' /\ JobsOK' /\ RestOK'
  BY DEF RetryDelayOver, IInv, RowsOK, FailsOK, JobsOK, JobOK, OneUp, Up, RestOK
<1>. QED  BY <1>3, <1>4 DEF IInv

LEMMA EndDrainStep ==
  ASSUME IInv, NEW w \in Workers, EndDrain(w)
  PROVE  IInv'
<1>. DEFINE o(i) == [op[i] EXCEPT !.ready = TRUE]
<1>1. \A i \in Instances : OpOK(o(i))  BY DEF IInv, OpsOK, OpOK, Ops, Conditional
<1>2. op' = [i \in Instances |-> o(i)]  BY DEF EndDrain
<1>. HIDE DEF o
<1>3. OpsOK'  BY <1>1, <1>2 DEF OpsOK, OpOK
<1>4. JobsOK'  BY IdleMove DEF EndDrain
<1>5. RowsOK' /\ FailsOK' /\ RestOK'  BY DEF EndDrain, IInv, RowsOK, FailsOK, RestOK
<1>. QED  BY <1>3, <1>4, <1>5 DEF IInv

LEMMA StaleStep ==
  ASSUME IInv, NEW w \in Workers, Stale(w)
  PROVE  IInv'
<1>1. JobsOK'
  <2>1. Up(w)  BY DEF Stale, Up
  <2>. QED  BY <2>1, DropOK DEF Stale
<1>2. RowsOK' /\ OpsOK' /\ FailsOK' /\ RestOK'
  BY DEF Stale, IInv, RowsOK, OpsOK, OpOK, FailsOK, RestOK
<1>. QED  BY <1>1, <1>2 DEF IInv

-----------------------------------------------------------------------------
(* The worker inside an operation.                                         *)

LEMMA RowChanges ==
  ASSUME NEW r \in Rows
  PROVE  /\ MarkDestroying(r) \in Rows
         /\ Destroyed(r) \in Rows
         /\ Deployed(r) \in Rows
         /\ \A base \in Rows : Unconfirmed(r, base) \in Rows
         /\ \A s \in {"active", "error"}, p \in Presences :
              [r EXCEPT !.status = s, !.error = TRUE, !.presence = p] \in Rows
<1>1. MarkDestroying(r) \in Rows /\ Destroyed(r) \in Rows /\ Deployed(r) \in Rows
  BY DEF MarkDestroying, Destroyed, Deployed, Rows, Statuses, LiveStatus, Presences
<1>2. ASSUME NEW base \in Rows
      PROVE  Unconfirmed(r, base) \in Rows
  <2>1. CASE base.status \in Transient
    BY <2>1 DEF Unconfirmed, Rows, Statuses, LiveStatus, Presences
  <2>2. CASE base.status \notin Transient
    BY <2>2 DEF Unconfirmed, Rows, Presences
  <2>. QED  BY <2>1, <2>2
<1>3. ASSUME NEW s \in {"active", "error"}, NEW p \in Presences
      PROVE  [r EXCEPT !.status = s, !.error = TRUE, !.presence = p] \in Rows
  BY DEF Rows, Statuses, LiveStatus
<1>. QED  BY <1>1, <1>2, <1>3

LEMMA BeginWorkStep ==
  ASSUME IInv, NEW w \in Workers, BeginWork(w)
  PROVE  IInv'
<1>1. wk[w].pc \notin IdlePcs  BY DEF BeginWork, IdlePcs
<1>2. wk[w].inst \in Instances /\ wk[w].mem \in Rows  BY <1>1, JobFacts
<1>3. JobsOK'
  <2>1. ASSUME NEW pc \in {"resync", "admit", "ifpresent", "destroy", "check"}, SetPc(w, pc)
        PROVE  JobsOK'
    <3>1. pc \in Pcs \ IdlePcs  BY DEF Pcs, IdlePcs
    <3>. QED  BY <1>1, <2>1, <3>1, SetPcOK
  <2>2. ASSUME End(w, "fail", wk[w].mem)
        PROVE  JobsOK'
    BY <1>1, <1>2, <2>2, EndOK
  <2>. QED  BY <2>1, <2>2 DEF BeginWork
<1>4. RowsOK'
  <2>1. row \in [Instances -> Rows]  BY DEF IInv, RowsOK
  <2>2. MarkDestroying(row[wk[w].inst]) \in Rows  BY <1>2, <2>1, RowChanges
  <2>3. row' = row \/ row' = [row EXCEPT ![wk[w].inst] = MarkDestroying(row[wk[w].inst])]
    BY DEF BeginWork
  <2>. QED  BY <2>1, <2>2, <2>3 DEF RowsOK
<1>5. OpsOK' /\ FailsOK' /\ RestOK'
  BY DEF BeginWork, IInv, OpsOK, OpOK, FailsOK, RestOK
<1>. QED  BY <1>3, <1>4, <1>5 DEF IInv

LEMMA ReserveStep ==
  ASSUME IInv, NEW w \in Workers, Reserve(w)
  PROVE  IInv'
<1>1. wk[w].pc \notin IdlePcs  BY DEF Reserve, IdlePcs
<1>2. wk[w].inst \in Instances /\ wk[w].was \in Rows  BY <1>1, JobFacts
<1>. DEFINE i == wk[w].inst
            s == Written(wk[w].was.status, ReservedStatus(wk[w].was.status), row[i].status)
            p == Written(wk[w].was.presence, "unknown", row[i].presence)
<1>3. RowsOK'
  <2>1. row \in [Instances -> Rows] /\ row[i] \in Rows  BY <1>2 DEF IInv, RowsOK
  <2>2. s \in Statuses \cup {"none", "deleted"} /\ p \in Presences
    BY <2>1 DEF Written, ReservedStatus, Rows, Statuses, LiveStatus, Presences
  <2>3. row' = [row EXCEPT ![i].status = s, ![i].presence = p]  BY DEF Reserve
  <2>. HIDE DEF s, p, i
  <2>4. [row[i] EXCEPT !.status = s, !.presence = p] \in Rows  BY <2>1, <2>2 DEF Rows
  <2>5. row' = [row EXCEPT ![i] = [row[i] EXCEPT !.status = s, !.presence = p]]
    BY <2>1, <2>3
  <2>. QED  BY <2>1, <2>4, <2>5 DEF RowsOK
<1>4. JobsOK'
  <2>1. "reserved" \in Pcs \ IdlePcs  BY DEF Pcs, IdlePcs
  <2>. QED  BY <1>1, <2>1, SetPcOK DEF Reserve
<1>5. OpsOK' /\ FailsOK' /\ RestOK'
  BY DEF Reserve, IInv, OpsOK, OpOK, FailsOK, RestOK
<1>. QED  BY <1>3, <1>4, <1>5 DEF IInv

\* The write is not fenced, so what keeps the attempt count in range is the
\* count the worker remembers, not the count in the table.
LEMMA DeferForCapacityStep ==
  ASSUME IInv, NEW w \in Workers, DeferForCapacity(w)
  PROVE  IInv'
<1>1. wk[w].pc \notin IdlePcs  BY DEF DeferForCapacity, IdlePcs
<1>. DEFINE j == wk[w]
            i == j.inst
            o == [id |-> j.id, state |-> "queued", kind |-> j.kind, origin |-> j.origin,
                  by |-> NoOne, attempts |-> j.attempts - 1, ready |-> FALSE]
            s == Written(j.was.status, "queued", row[i].status)
<1>2. /\ i \in Instances /\ j.kind \in Kinds /\ j.origin \in Origins /\ Conditional(j)
      /\ j.id \in OpIds /\ j.attempts \in Nat /\ j.attempts >= 1
      /\ j.attempts <= MaxAttempts[j.kind]
  BY <1>1, JobFacts
<1>3. OpOK(o)
  <2>1. MaxAttempts[j.kind] \in Nat  BY <1>2, MaxAttemptsAssumption
  <2>2. j.attempts - 1 \in Nat /\ j.attempts - 1 < MaxAttempts[j.kind]
    BY <1>2, <2>1
  <2>3. o \in Ops  BY <1>2, <2>2 DEF Ops, OpenStates
  <2>. QED  BY <1>2, <2>1, <2>2, <2>3 DEF OpOK, Conditional
<1>4. \/ UNCHANGED <<row, op>>
      \/ row' = [row EXCEPT ![i].status = s] /\ op' = [op EXCEPT ![i] = o]
  BY DEF DeferForCapacity
<1>5. Drop(w) /\ UNCHANGED <<fails, runtime, rec, intents, budget>>  BY DEF DeferForCapacity
<1>6. row \in [Instances -> Rows] /\ row[i] \in Rows  BY <1>2 DEF IInv, RowsOK
<1>7. s \in Statuses \cup {"none", "deleted"}  BY <1>6 DEF Written, Rows, Statuses
<1>8. Up(w)  BY <1>1, JobFacts
<1>. HIDE DEF i, j, o, s
<1>9. RowsOK'
  <2>1. [row[i] EXCEPT !.status = s] \in Rows  BY <1>6, <1>7 DEF Rows
  <2>. QED  BY <1>4, <1>6, <2>1 DEF RowsOK
<1>10. OpsOK'  BY <1>3, <1>4 DEF IInv, OpsOK, OpOK
<1>11. JobsOK'  BY <1>5, <1>8, DropOK
<1>12. FailsOK' /\ RestOK'  BY <1>5 DEF IInv, FailsOK, RestOK
<1>. QED  BY <1>9, <1>10, <1>11, <1>12 DEF IInv

LEMMA ConfirmReservationStep ==
  ASSUME IInv, NEW w \in Workers, ConfirmReservation(w)
  PROVE  IInv'
<1>1. wk[w].pc \notin IdlePcs  BY DEF ConfirmReservation, IdlePcs
<1>. DEFINE pc == IF wk[w].origin = "runtime_repair" THEN "ifabsent" ELSE "kill"
            j == [wk[w] EXCEPT !.mem = row[wk[w].inst], !.pc = pc]
<1>2. JobOK(wk[w]) /\ Up(w) /\ row[wk[w].inst] \in Rows
  BY <1>1, JobFacts DEF IInv, JobsOK, RowsOK
<1>3. pc \in Pcs \ IdlePcs  BY DEF Pcs, IdlePcs
<1>4. wk' = [wk EXCEPT ![w] = j]  BY DEF ConfirmReservation
<1>. HIDE DEF pc
<1>5. JobOK(j)  BY <1>1, <1>2, <1>3 DEF JobOK, Jobs, Conditional
<1>. HIDE DEF j
<1>6. JobsOK'  BY <1>2, <1>4, <1>5, JobMoves
<1>7. RowsOK' /\ OpsOK' /\ FailsOK' /\ RestOK'
  BY DEF ConfirmReservation, IInv, RowsOK, OpsOK, OpOK, FailsOK, RestOK
<1>. QED  BY <1>6, <1>7 DEF IInv

-----------------------------------------------------------------------------
(* Engine calls: only the runtime and the calling worker change.           *)

LEMMA EngineStep ==
  ASSUME IInv, JobsOK', UNCHANGED <<row, op, fails, rec, intents, budget>>,
         \/ UNCHANGED runtime
         \/ \E i \in Instances : Stops(i) \/ Runs(i)
  PROVE  IInv'
<1>1. runtime' \in [Instances -> BOOLEAN]  BY DEF Stops, Runs, IInv, RestOK
<1>2. RowsOK' /\ OpsOK' /\ FailsOK' /\ RestOK'
  BY <1>1 DEF IInv, RowsOK, OpsOK, OpOK, FailsOK, RestOK
<1>. QED  BY <1>2 DEF IInv

LEMMA KillOldStep ==
  ASSUME IInv, NEW w \in Workers, KillOld(w)
  PROVE  IInv'
<1>1. wk[w].pc \notin IdlePcs  BY DEF KillOld, Engine, IdlePcs
<1>2. wk[w].inst \in Instances /\ wk[w].mem \in Rows  BY <1>1, JobFacts
<1>. DEFINE m == [wk[w].mem EXCEPT !.status = "active", !.presence = "unknown", !.error = TRUE]
<1>3. m \in Rows  BY <1>2 DEF Rows, Statuses, LiveStatus, Presences
<1>4. SetPc(w, "killed") \/ End(w, "fail", m)  BY DEF KillOld
<1>. HIDE DEF m
<1>5. JobsOK'
  <2>1. "killed" \in Pcs \ IdlePcs  BY DEF Pcs, IdlePcs
  <2>. QED  BY <1>1, <1>3, <1>4, <2>1, SetPcOK, EndOK
<1>. QED  BY <1>2, <1>5, EngineStep DEF KillOld, Engine

LEMMA AfterDestroyStep ==
  ASSUME IInv, NEW w \in Workers, AfterDestroy(w)
  PROVE  IInv'
<1>1. wk[w].pc \notin IdlePcs /\ "deploy" \in Pcs \ IdlePcs
  BY DEF AfterDestroy, IdlePcs, Pcs
<1>2. JobsOK'  BY <1>1, SetPcOK DEF AfterDestroy
<1>. QED  BY <1>2, EngineStep DEF AfterDestroy

LEMMA ProvisionStep ==
  ASSUME IInv, NEW w \in Workers, Provision(w)
  PROVE  IInv'
<1>1. wk[w].pc \notin IdlePcs  BY DEF Provision, Engine, IdlePcs
<1>2. wk[w].inst \in Instances /\ wk[w].mem \in Rows  BY <1>1, JobFacts
<1>. DEFINE a == [wk[w].mem EXCEPT !.status = "error", !.error = TRUE, !.presence = "absent"]
            u == [wk[w].mem EXCEPT !.status = "active", !.error = TRUE, !.presence = "unknown"]
<1>3. a \in Rows /\ u \in Rows /\ Deployed(wk[w].mem) \in Rows
  BY <1>2, RowChanges DEF Presences
<1>4. End(w, "fail", a) \/ End(w, "ok", Deployed(wk[w].mem)) \/ End(w, "fail", u)
  BY DEF Provision
<1>. HIDE DEF a, u
<1>5. JobsOK'  BY <1>1, <1>3, <1>4, EndOK
<1>. QED  BY <1>2, <1>5, EngineStep DEF Provision, Engine

LEMMA ProvisionIfAbsentStep ==
  ASSUME IInv, NEW w \in Workers, ProvisionIfAbsent(w)
  PROVE  IInv'
<1>1. wk[w].pc \notin IdlePcs /\ "confirm" \in Pcs \ IdlePcs
  BY DEF ProvisionIfAbsent, Engine, IdlePcs, Pcs
<1>2. wk[w].inst \in Instances /\ wk[w].mem \in Rows /\ Deployed(wk[w].mem) \in Rows
  BY <1>1, JobFacts, RowChanges
<1>3. SetPc(w, "confirm") \/ End(w, "ok", Deployed(wk[w].mem)) \/ End(w, "fail", wk[w].mem)
  BY DEF ProvisionIfAbsent
<1>4. JobsOK'  BY <1>1, <1>2, <1>3, SetPcOK, EndOK
<1>. QED  BY <1>2, <1>4, EngineStep DEF ProvisionIfAbsent, Engine

LEMMA InspectStep ==
  ASSUME IInv, NEW w \in Workers, NEW pc \in {"confirm", "resync"}, InspectAndRebuild(w, pc)
  PROVE  IInv'
<1>1. wk[w].pc \notin IdlePcs  BY DEF InspectAndRebuild, Engine, IdlePcs
<1>. DEFINE m == wk[w].mem
            u == Unconfirmed(m, wk[w].was)
<1>2. m \in Rows /\ Deployed(m) \in Rows /\ u \in Rows  BY <1>1, JobFacts, RowChanges
<1>3. End(w, "ok", Deployed(m)) \/ End(w, "ok", u) \/ End(w, "fail", m)
  BY DEF InspectAndRebuild
<1>. HIDE DEF u
<1>4. JobsOK'  BY <1>1, <1>2, <1>3, EndOK
<1>. QED  BY <1>4, EngineStep DEF InspectAndRebuild, Engine

LEMMA DestroyStep ==
  ASSUME IInv, NEW w \in Workers, DestroyLab(w) \/ DestroyIfPresent(w)
  PROVE  IInv'
<1>1. wk[w].pc \notin IdlePcs  BY DEF DestroyLab, DestroyIfPresent, Engine, IdlePcs
<1>. DEFINE m == wk[w].mem
            g == [m EXCEPT !.presence = "absent"]
<1>2. wk[w].inst \in Instances /\ m \in Rows  BY <1>1, JobFacts
<1>3. Destroyed(m) \in Rows /\ g \in Rows
  <2>. HIDE DEF m
  <2>1. Destroyed(m) \in Rows  BY <1>2 DEF Destroyed, Rows, Presences, Statuses
  <2>2. g \in Rows  BY <1>2 DEF Rows, Presences
  <2>. QED  BY <2>1, <2>2
<1>4. End(w, "ok", Destroyed(m)) \/ End(w, "ok", g) \/ End(w, "fail", m)
  BY DEF DestroyLab, DestroyIfPresent
<1>. HIDE DEF g
<1>5. JobsOK'  BY <1>1, <1>2, <1>3, <1>4, EndOK
<1>. QED  BY <1>2, <1>5, EngineStep DEF DestroyLab, DestroyIfPresent, Engine

LEMMA RunChecksStep ==
  ASSUME IInv, NEW w \in Workers, RunChecks(w)
  PROVE  IInv'
<1>1. wk[w].pc \notin IdlePcs  BY DEF RunChecks, Engine, IdlePcs
<1>2. wk[w].mem \in Rows  BY <1>1, JobFacts
<1>3. JobsOK'  BY <1>1, <1>2, EndOK DEF RunChecks
<1>. QED  BY <1>3, EngineStep DEF RunChecks, Engine

LEMMA SpendType ==
  ASSUME IInv, NEW fault \in Faults, Spend(fault)
  PROVE  budget' \in [Faults -> Nat]
BY DEF Spend, IInv, RestOK

LEMMA LockBusyStep ==
  ASSUME IInv, NEW w \in Workers, LockBusy(w)
  PROVE  IInv'
<1>1. wk[w].pc \notin IdlePcs  BY DEF LockBusy, EnginePcs, IdlePcs
<1>2. wk[w].mem \in Rows  BY <1>1, JobFacts
<1>3. JobsOK'  BY <1>1, <1>2, EndOK DEF LockBusy
<1>4. budget' \in [Faults -> Nat]  BY SpendType DEF LockBusy, Faults
<1>5. RowsOK' /\ OpsOK' /\ FailsOK' /\ RestOK'
  BY <1>4 DEF LockBusy, IInv, RowsOK, OpsOK, OpOK, FailsOK, RestOK
<1>. QED  BY <1>3, <1>5 DEF IInv

-----------------------------------------------------------------------------
(* Settlement.                                                             *)

LEMMA SettleOkStep ==
  ASSUME IInv, NEW w \in Workers, SettleOk(w)
  PROVE  IInv'
<1>1. wk[w].pc \notin IdlePcs  BY DEF SettleOk, IdlePcs
<1>. DEFINE i == wk[w].inst
            zero == [k \in {"deploy", "destroy"} |-> 0]
<1>2. i \in Instances /\ wk[w].mem \in Rows /\ Up(w)  BY <1>1, JobFacts
<1>3. /\ row' = row \/ row' = [row EXCEPT ![i] = wk[w].mem]
      /\ op' = [op EXCEPT ![i] = Closed(op[i], "succeeded")]
      /\ fails' = fails \/ fails' = [fails EXCEPT ![i] = zero]
      /\ Drop(w) /\ UNCHANGED <<runtime, rec, intents, budget>>
  BY DEF SettleOk
<1>4. OpOK(Closed(op[i], "succeeded"))  BY <1>2, ClosedOK DEF IInv, OpsOK
<1>5. zero \in FailCounts  BY DEF FailCounts
<1>. HIDE DEF i, zero
<1>6. RowsOK'  BY <1>2, <1>3 DEF IInv, RowsOK
<1>7. OpsOK'  BY <1>3, <1>4 DEF IInv, OpsOK, OpOK
<1>8. FailsOK'  BY <1>3, <1>5 DEF IInv, FailsOK
<1>9. JobsOK' /\ RestOK'  BY <1>2, <1>3, DropOK DEF IInv, RestOK
<1>. QED  BY <1>6, <1>7, <1>8, <1>9 DEF IInv

LEMMA FailedRowType ==
  ASSUME NEW j \in Jobs, NEW r \in Rows
  PROVE  FailedRow(j, r) \in Rows
<1>. DEFINE s == IF j.mem.status \in {"active", "resetting"} THEN "active" ELSE "error"
            p == IF j.mem.presence = "absent" THEN "absent" ELSE "unknown"
<1>1. s \in {"active", "error"} /\ p \in Presences  BY DEF Presences
<1>2. FailedRow(j, r) = CASE j.kind = "deploy" ->
                               [r EXCEPT !.status = s, !.error = TRUE, !.presence = p]
                          [] j.kind = "destroy" -> [r EXCEPT !.presence = "unknown"]
                          [] OTHER -> r
  BY DEF FailedRow
<1>. HIDE DEF s, p
<1>3. [r EXCEPT !.status = s, !.error = TRUE, !.presence = p] \in Rows  BY <1>1, RowChanges
<1>4. [r EXCEPT !.presence = "unknown"] \in Rows  BY DEF Rows, Presences
<1>. QED  BY <1>2, <1>3, <1>4

LEMMA SettleFailedStep ==
  ASSUME IInv, NEW w \in Workers, SettleFailed(w)
  PROVE  IInv'
<1>1. wk[w].pc \notin IdlePcs  BY DEF SettleFailed, IdlePcs
<1>. DEFINE j == wk[w]
            i == j.inst
            r == Escalate(FailedRow(j, row[i]), fails[i], j.kind, j.origin, j.attempts)
            f == FailsAfter(fails[i], j.kind, j.origin, j.attempts)
<1>2. /\ i \in Instances /\ Up(w) /\ j.kind \in Kinds /\ j.attempts \in Nat
  BY <1>1, JobFacts
<1>3. /\ row' = [row EXCEPT ![i] = r]
      /\ op' = [op EXCEPT ![i] = Closed(op[i], "failed")]
      /\ fails' = [fails EXCEPT ![i] = f]
      /\ Drop(w) /\ UNCHANGED <<runtime, rec, intents, budget>>
  BY DEF SettleFailed
<1>4. j \in Jobs /\ row[i] \in Rows /\ fails[i] \in FailCounts
  BY <1>2 DEF IInv, JobsOK, RowsOK, FailsOK
<1>5. r \in Rows  BY <1>4, FailedRowType, EscalateType
<1>6. f \in FailCounts  BY <1>2, <1>4, FailsAfterType
<1>7. OpOK(Closed(op[i], "failed"))  BY <1>2, ClosedOK DEF IInv, OpsOK
<1>. HIDE DEF j, i, r, f
<1>8. RowsOK'  BY <1>3, <1>5 DEF IInv, RowsOK
<1>9. OpsOK'  BY <1>3, <1>7 DEF IInv, OpsOK, OpOK
<1>10. FailsOK'  BY <1>3, <1>6 DEF IInv, FailsOK
<1>11. JobsOK' /\ RestOK'  BY <1>2, <1>3, DropOK DEF IInv, RestOK
<1>. QED  BY <1>8, <1>9, <1>10, <1>11 DEF IInv

\* The refund never makes a count negative: the claim charged it.
LEMMA SettleDeferredStep ==
  ASSUME IInv, NEW w \in Workers, SettleDeferred(w)
  PROVE  IInv'
<1>1. wk[w].pc \notin IdlePcs  BY DEF SettleDeferred, IdlePcs
<1>. DEFINE j == wk[w]
            i == j.inst
            o == [op[i] EXCEPT !.state = "queued", !.by = NoOne, !.ready = FALSE,
                               !.attempts = op[i].attempts - 1]
            r == [row[i] EXCEPT !.status = j.was.status, !.error = j.was.error,
                                !.presence = j.was.presence]
<1>2. i \in Instances /\ j.was \in Rows /\ Up(w)  BY <1>1, JobFacts
<1>3. /\ row' = row \/ row' = [row EXCEPT ![i].status = j.was.status, ![i].error = j.was.error,
                                          ![i].presence = j.was.presence]
      /\ op' = [op EXCEPT ![i].state = "queued", ![i].by = NoOne, ![i].ready = FALSE,
                          ![i].attempts = @ - 1]
      /\ Drop(w) /\ UNCHANGED <<fails, runtime, rec, intents, budget>>
  BY DEF SettleDeferred
<1>4. OpOK(op[i]) /\ op[i].state = "claimed" /\ row[i] \in Rows
  BY <1>2 DEF SettleDeferred, Holds, IInv, OpsOK, RowsOK
<1>5. OpOK(o)
  <2>1. op[i] \in Ops /\ Conditional(op[i]) /\ op[i].attempts >= 1
        /\ op[i].attempts <= MaxAttempts[op[i].kind]
    BY <1>4 DEF OpOK
  <2>2. op[i].attempts \in Nat /\ op[i].kind \in Kinds  BY <2>1 DEF Ops
  <2>3. MaxAttempts[op[i].kind] \in Nat  BY <2>2, MaxAttemptsAssumption
  <2>4. /\ op[i].attempts - 1 \in Nat
        /\ op[i].attempts - 1 < MaxAttempts[op[i].kind]
        /\ op[i].attempts - 1 <= MaxAttempts[op[i].kind]
    BY <2>1, <2>2, <2>3
  <2>5. [op[i] EXCEPT !.state = "queued", !.by = NoOne, !.ready = FALSE] \in Ops
    BY <2>1 DEF Ops, OpenStates
  <2>6. o \in Ops  BY <2>4, <2>5 DEF Ops
  <2>7. /\ o.state = "queued" /\ o.by = NoOne /\ o.attempts = op[i].attempts - 1
        /\ o.kind = op[i].kind /\ o.origin = op[i].origin
    BY <2>1 DEF Ops
  <2>8. Conditional(o)  BY <2>1, <2>7 DEF Conditional
  <2>. QED  BY <2>4, <2>6, <2>7, <2>8 DEF OpOK
<1>6. r \in Rows  BY <1>2, <1>4 DEF Rows
<1>7. op' = [op EXCEPT ![i] = o]  BY <1>3
<1>8. row' = row \/ row' = [row EXCEPT ![i] = r]  BY <1>3
<1>. HIDE DEF j, i, o, r
<1>9. RowsOK'  BY <1>6, <1>8 DEF IInv, RowsOK
<1>10. OpsOK'  BY <1>5, <1>7 DEF IInv, OpsOK, OpOK
<1>11. FailsOK' /\ JobsOK' /\ RestOK'  BY <1>2, <1>3, DropOK DEF IInv, FailsOK, RestOK
<1>. QED  BY <1>9, <1>10, <1>11 DEF IInv

-----------------------------------------------------------------------------
(* The reconciler, requests and the environment.                           *)

LEMMA RecStuckStep ==
  ASSUME IInv, RecStuck
  PROVE  IInv'
<1>1. PICK E \in SUBSET Instances : LapsedClaims(E) /\ ReconcileStuck(E)  BY DEF RecStuck
<1>2. RowsOK' /\ OpsOK' /\ FailsOK'  BY <1>1, ReconcileStuckOK
<1>3. budget' \in [Faults -> Nat]  BY <1>1, LapsedClaimsBudget
<1>4. rec' \in Passes  BY DEF RecStuck, NoPass, Passes
<1>5. JobsOK' /\ RestOK'
  BY <1>3, <1>4 DEF RecStuck, IInv, JobsOK, JobOK, OneUp, Up, RestOK
<1>. QED  BY <1>2, <1>5 DEF IInv

\* A step of the pass that leaves rows, operations and workers alone.
LEMMA RecQuietStep ==
  ASSUME IInv, UNCHANGED <<row, op, fails, wk, intents>>, rec' \in Passes,
         budget' \in [Faults -> Nat], runtime' \in [Instances -> BOOLEAN]
  PROVE  IInv'
BY DEF IInv, RowsOK, OpsOK, OpOK, FailsOK, JobsOK, JobOK, OneUp, Up, RestOK

LEMMA RecPassStep ==
  ASSUME IInv, RecInventory \/ RecPlan \/ (\E i \in Instances : RecDestroyOrphan(i))
               \/ RecStall \/ RecAbandon
  PROVE  IInv'
<1>1. /\ rec \in Passes /\ runtime \in [Instances -> BOOLEAN]
      /\ budget \in [Faults -> Nat]
  BY DEF IInv, RestOK
<1>2. CASE RecInventory
  BY <1>1, <1>2, RecQuietStep DEF RecInventory, Passes, Running
<1>3. CASE RecPlan
  BY <1>1, <1>3, RecQuietStep DEF RecPlan, Passes
<1>4. CASE \E i \in Instances : RecDestroyOrphan(i)
  <2>1. PICK i \in Instances : RecDestroyOrphan(i)  BY <1>4
  <2>2. rec' \in Passes  BY <1>1, <2>1 DEF RecDestroyOrphan, Passes
  <2>3. runtime' \in [Instances -> BOOLEAN]  BY <1>1, <2>1 DEF RecDestroyOrphan, Stops
  <2>. QED  BY <1>1, <2>1, <2>2, <2>3, RecQuietStep DEF RecDestroyOrphan
<1>5. CASE RecStall
  <2>1. budget' \in [Faults -> Nat]  BY <1>5, SpendType DEF RecStall, Faults
  <2>2. rec' \in Passes  BY <1>1, <1>5 DEF RecStall, Passes, Running
  <2>. QED  BY <1>1, <1>5, <2>1, <2>2, RecQuietStep DEF RecStall
<1>6. CASE RecAbandon
  <2>1. budget' \in [Faults -> Nat]  BY <1>6, SpendType DEF RecAbandon, Faults
  <2>2. rec' \in Passes  BY <1>6 DEF RecAbandon, NoPass, Passes
  <2>. QED  BY <1>1, <1>6, <2>1, <2>2, RecQuietStep DEF RecAbandon
<1>. QED  BY <1>2, <1>3, <1>4, <1>5, <1>6

LEMMA RecQueueStep ==
  ASSUME IInv, RecQueue
  PROVE  IInv'
<1>1. PICK up : QueueRepairs(up)  BY DEF RecQueue
<1>. DEFINE clean == ToCleanUp(up)
            repair == ToRepair(up)
            o(i) == CASE i \in clean -> NewOp(i, "destroy", "runtime_cleanup")
                      [] i \in repair -> NewOp(i, "deploy", "runtime_repair")
                      [] OTHER -> op[i]
            r(i) == CASE i \in clean -> [row[i] EXCEPT !.presence = "present"]
                      [] i \in repair -> [row[i] EXCEPT !.presence = "absent"]
                      [] OTHER -> row[i]
<1>2. /\ op' = [i \in Instances |-> o(i)]
      /\ row' = [i \in Instances |-> r(i)]
      /\ rec' = NoPass
      /\ UNCHANGED <<fails, runtime, wk, intents, budget>>
  BY <1>1 DEF QueueRepairs
<1>. HIDE DEF clean, repair
<1>3. \A i \in Instances : OpOK(o(i))
  <2>. SUFFICES ASSUME NEW i \in Instances PROVE OpOK(o(i))  OBVIOUS
  <2>1. OpOK(NewOp(i, "destroy", "runtime_cleanup")) /\ OpOK(NewOp(i, "deploy", "runtime_repair"))
    BY NewOpOK DEF Kinds, Origins
  <2>. QED  BY <2>1 DEF IInv, OpsOK
<1>4. \A i \in Instances : r(i) \in Rows  BY DEF IInv, RowsOK, Rows, Presences
<1>. HIDE DEF o, r
<1>5. RowsOK' /\ OpsOK'  BY <1>2, <1>3, <1>4 DEF RowsOK, OpsOK, OpOK
<1>6. FailsOK' /\ JobsOK'  BY <1>2 DEF IInv, FailsOK, JobsOK, JobOK, OneUp, Up
<1>7. RestOK'  BY <1>2 DEF IInv, RestOK, NoPass, Passes
<1>. QED  BY <1>5, <1>6, <1>7 DEF IInv

LEMMA LaunchStep ==
  ASSUME IInv, NEW i \in Instances, Launch(i)
  PROVE  IInv'
<1>1. RowsOK'
  <2>1. [row[i] EXCEPT !.status = "queued"] \in Rows
    BY DEF IInv, RowsOK, Rows, Statuses
  <2>. QED  BY <2>1 DEF Launch, IInv, RowsOK
<1>2. OpsOK'  BY EnqueueOK DEF Launch, Kinds
<1>3. FailsOK' /\ JobsOK' /\ RestOK'
  BY DEF Launch, IInv, FailsOK, JobsOK, JobOK, OneUp, Up, RestOK
<1>. QED  BY <1>1, <1>2, <1>3 DEF IInv

LEMMA ReadRequestStep ==
  ASSUME IInv, NEW i \in Instances, NEW request \in Requests, ReadRequest(i, request)
  PROVE  IInv'
<1>1. budget' \in [Faults -> Nat]
  BY SpendType DEF ReadRequest, Faults, IInv, RestOK
<1>2. intents' \subseteq Instances \X Requests  BY DEF ReadRequest, IInv, RestOK
<1>3. RowsOK' /\ OpsOK' /\ FailsOK' /\ JobsOK' /\ RestOK'
  BY <1>1, <1>2
  DEF ReadRequest, IInv, RowsOK, OpsOK, OpOK, FailsOK, JobsOK, JobOK, OneUp, Up, RestOK
<1>. QED  BY <1>3 DEF IInv

LEMMA EnqueueRequestStep ==
  ASSUME IInv, NEW i \in Instances, NEW request \in Requests, EnqueueRequest(i, request)
  PROVE  IInv'
<1>. DEFINE kind == CASE request = "reset" -> "deploy" [] request = "check" -> "check"
                      [] request = "reap" -> "destroy"
            origin == IF request = "reap" THEN "auto" ELSE "user"
<1>1. kind \in Kinds /\ origin \in {"user", "auto"}  BY DEF Requests, Kinds
<1>2. Enqueue(i, kind, origin) \/ UNCHANGED op  BY DEF EnqueueRequest
<1>. HIDE DEF kind, origin
<1>3. OpsOK'  BY <1>1, <1>2, EnqueueOK DEF IInv, OpsOK, OpOK
<1>4. RowsOK' /\ FailsOK' /\ JobsOK' /\ RestOK'
  BY DEF EnqueueRequest, IInv, RowsOK, FailsOK, JobsOK, JobOK, OneUp, Up, RestOK
<1>. QED  BY <1>3, <1>4 DEF IInv

LEMMA LoseRuntimeStep ==
  ASSUME IInv, NEW i \in Instances, LoseRuntime(i)
  PROVE  IInv'
<1>1. budget' \in [Faults -> Nat]  BY SpendType DEF LoseRuntime, Faults
<1>2. runtime' \in [Instances -> BOOLEAN]  BY DEF LoseRuntime, Stops, IInv, RestOK
<1>. QED  BY <1>1, <1>2, RecQuietStep DEF LoseRuntime, IInv, RestOK

LEMMA EraseRowStep ==
  ASSUME IInv, NEW i \in Instances, EraseRow(i)
  PROVE  IInv'
<1>. DEFINE r == [NoRow EXCEPT !.status = "deleted"]
            o == [NoOp EXCEPT !.id = op[i].id]
            zero == [k \in {"deploy", "destroy"} |-> 0]
<1>1. r \in Rows  BY DEF NoRow, Rows, Presences
<1>2. OpOK(o)
  <2>1. NoOp \in Ops  BY DEF NoOp, Ops, OpIds, OpenStates, Kinds, Origins
  <2>2. op[i].id \in OpIds  BY DEF IInv, OpsOK, Ops
  <2>3. o \in Ops  BY <2>1, <2>2 DEF Ops
  <2>4. /\ o.state = "none" /\ o.kind = "deploy" /\ o.origin = "user"
        /\ o.by = NoOne /\ o.attempts = 0
    BY <2>1 DEF NoOp, Ops
  <2>5. 0 <= MaxAttempts[o.kind]  BY <2>4, MaxAttemptsAssumption DEF Kinds
  <2>. QED  BY <2>3, <2>4, <2>5 DEF OpOK, Conditional
<1>3. zero \in FailCounts  BY DEF FailCounts
<1>4. /\ row' = [row EXCEPT ![i] = r] /\ op' = [op EXCEPT ![i] = o]
      /\ fails' = [fails EXCEPT ![i] = zero]
  BY DEF EraseRow
<1>5. budget' \in [Faults -> Nat]  BY SpendType DEF EraseRow, Faults
<1>. HIDE DEF r, o, zero
<1>6. RowsOK' /\ OpsOK' /\ FailsOK'
  BY <1>1, <1>2, <1>3, <1>4 DEF IInv, RowsOK, OpsOK, OpOK, FailsOK
<1>7. JobsOK' /\ RestOK'
  BY <1>5 DEF EraseRow, IInv, JobsOK, JobOK, OneUp, Up, RestOK
<1>. QED  BY <1>6, <1>7 DEF IInv

-----------------------------------------------------------------------------
(* The invariant holds for ever.                                           *)

LEMMA InitIInv == Init => IInv
<1>. SUFFICES ASSUME Init PROVE IInv  OBVIOUS
<1>1. RowsOK  BY DEF Init, NoRow, RowsOK, Rows, Presences
<1>2. OpsOK
  <2>1. NoOp \in Ops  BY DEF NoOp, Ops, OpIds, OpenStates, Kinds, Origins
  <2>2. 0 <= MaxAttempts["deploy"]  BY MaxAttemptsAssumption DEF Kinds
  <2>3. OpOK(NoOp)  BY <2>1, <2>2 DEF OpOK, NoOp, Conditional
  <2>. HIDE DEF NoOp
  <2>. QED  BY <2>1, <2>3 DEF Init, OpsOK
<1>3. FailsOK  BY DEF Init, FailsOK, FailCounts
<1>4. JobsOK
  <2>1. JobOK(NoJob("new")) /\ NoJob("new").pc = "new"  BY NoJobOK DEF IdlePcs
  <2>2. \A w \in Workers : wk[w] = NoJob("new")  BY DEF Init
  <2>3. OneUp  BY <2>1, <2>2 DEF OneUp, Up
  <2>4. wk \in [Workers -> Jobs]  BY <2>1 DEF Init, JobOK
  <2>. QED  BY <2>1, <2>2, <2>3, <2>4 DEF JobsOK
<1>5. RestOK  BY BudgetAssumption DEF Init, RestOK, NoPass, Passes
<1>. QED  BY <1>1, <1>2, <1>3, <1>4, <1>5 DEF IInv

LEMMA WorkerStepIInv ==
  ASSUME IInv, NEW w \in Workers, WorkerStep(w)
  PROVE  IInv'
BY StartWorkerStep, PollStuckStep, ClaimStep, EndDrainStep, StaleStep, BeginWorkStep,
   ReserveStep, DeferForCapacityStep, ConfirmReservationStep, KillOldStep, AfterDestroyStep,
   ProvisionStep, ProvisionIfAbsentStep, InspectStep, DestroyStep, RunChecksStep,
   LockBusyStep, SettleOkStep, SettleFailedStep, SettleDeferredStep
DEF WorkerStep, Confirm, Resync

LEMMA NextIInv == IInv /\ [Next]_vars => IInv'
<1>. SUFFICES ASSUME IInv, [Next]_vars PROVE IInv'  OBVIOUS
<1>1. ASSUME NEW w \in Workers, WorkerStep(w) \/ CrashWorker(w)
      PROVE  IInv'
  BY <1>1, WorkerStepIInv, CrashWorkerStep
<1>2. CASE RecStep
  BY <1>2, RecStuckStep, RecPassStep, RecQueueStep DEF RecStep
<1>3. ASSUME NEW i \in Instances,
             RequestStep(i) \/ RetryDelayOver(i) \/ LoseRuntime(i) \/ EraseRow(i)
      PROVE  IInv'
  BY <1>3, LaunchStep, ReadRequestStep, EnqueueRequestStep, RetryDelayOverStep,
     LoseRuntimeStep, EraseRowStep
  DEF RequestStep
<1>4. CASE UNCHANGED vars
  BY <1>4 DEF vars, IInv, RowsOK, OpsOK, OpOK, FailsOK, JobsOK, JobOK, OneUp, Up, RestOK
<1>. QED  BY <1>1, <1>2, <1>3, <1>4 DEF Next

\* Operations, claims, workers and the singleton lock agree with one another, whatever
\* crashes, stalls and refunds occur.
THEOREM Invariance == Spec => []IInv
BY InitIInv, NextIInv, PTL DEF Spec

\* Every table column, worker snapshot and pass list stays in its range, the
\* CHECK constraint on conditional operations holds, and the claim columns
\* are filled exactly while an operation is claimed.
THEOREM TypeCorrect == Spec => []TypeOK
<1>1. IInv => TypeOK
  BY DEF IInv, TypeOK, RowsOK, OpsOK, OpOK, FailsOK, FailCounts, JobsOK, RestOK
<1>. QED  BY <1>1, Invariance, PTL

\* No operation is executed more often than its ceiling, whatever the number
\* of crashes, stalls, deferrals and refunds.
THEOREM AttemptsNeverExceedCeiling == Spec => []AttemptsBounded
<1>1. IInv => AttemptsBounded  BY DEF IInv, OpsOK, OpOK, AttemptsBounded
<1>. QED  BY <1>1, Invariance, PTL

\* The singleton lock makes the running worker the only one with work.
THEOREM OneHolderAlways == Spec => []OneHolder
<1>1. IInv => OneHolder
  BY DEF IInv, JobsOK, JobOK, OneUp, OneHolder, Up, IdlePcs
<1>. QED  BY <1>1, Invariance, PTL

\* Both, as the runs check them: no crash, reclaim or refund gives a claim two
\* holders or an operation one execution too many.
THEOREM ClaimsSoundAlways == Spec => []ClaimsSound
<1>1. OneHolder /\ AttemptsBounded => ClaimsSound  BY DEF ClaimsSound
<1>. QED  BY <1>1, OneHolderAlways, AttemptsNeverExceedCeiling, PTL

-----------------------------------------------------------------------------
(* Fencing of settlements.                                                 *)

LEMMA OtherJobsKept ==
  ASSUME IInv, NEW v \in Workers, WorkerStep(v) \/ CrashWorker(v), NEW w \in Workers \ {v}
  PROVE  wk'[w] = wk[w]
<1>1. wk \in [Workers -> Jobs]  BY DEF IInv, JobsOK
<1>2. ASSUME NEW pc, SetPc(v, pc) PROVE wk'[w] = wk[w]  BY <1>1, <1>2 DEF SetPc
<1>3. ASSUME NEW res, NEW mem, End(v, res, mem) PROVE wk'[w] = wk[w]  BY <1>1, <1>3 DEF End
<1>4. ASSUME Drop(v) PROVE wk'[w] = wk[w]  BY <1>1, <1>4 DEF Drop
<1>5. CASE StartWorker(v) \/ CrashWorker(v)
  BY <1>1, <1>5 DEF StartWorker, CrashWorker
<1>6. CASE \E i \in Instances : Claim(v, i)  BY <1>1, <1>6, Zenon DEF Claim
<1>7. CASE ConfirmReservation(v)  BY <1>1, <1>7 DEF ConfirmReservation
<1>8. CASE PollStuck(v) \/ EndDrain(v) \/ Reserve(v) \/ AfterDestroy(v)
  BY <1>2, <1>8 DEF PollStuck, EndDrain, Reserve, AfterDestroy
<1>9. CASE Stale(v) \/ DeferForCapacity(v) \/ SettleOk(v) \/ SettleFailed(v) \/ SettleDeferred(v)
  BY <1>4, <1>9 DEF Stale, DeferForCapacity, SettleOk, SettleFailed, SettleDeferred
<1>10. CASE BeginWork(v)  BY <1>2, <1>3, <1>10 DEF BeginWork
<1>11. CASE KillOld(v) \/ Provision(v) \/ ProvisionIfAbsent(v)
  BY <1>2, <1>3, <1>11 DEF KillOld, Provision, ProvisionIfAbsent
<1>12. CASE Confirm(v) \/ Resync(v) \/ DestroyLab(v) \/ DestroyIfPresent(v) \/ RunChecks(v)
            \/ LockBusy(v)
  BY <1>3, <1>12
  DEF Confirm, Resync, InspectAndRebuild, DestroyLab, DestroyIfPresent, RunChecks, LockBusy
<1>. QED
  BY <1>5, <1>6, <1>7, <1>8, <1>9, <1>10, <1>11, <1>12 DEF WorkerStep

LEMMA FencedStep ==
  ASSUME IInv, [Next]_vars, NEW w \in Workers,
         wk[w].pc = "settle", ~ Holds(w), wk'[w] # wk[w]
  PROVE  UNCHANGED <<row, op, fails>>
<1>1. PICK v \in Workers : WorkerStep(v) \/ CrashWorker(v)
  <2>1. ASSUME RecStep PROVE wk' = wk
    BY <2>1 DEF RecStep, RecStuck, RecInventory, RecPlan, RecDestroyOrphan, RecQueue,
       QueueRepairs, RecStall, RecAbandon
  <2>2. ASSUME NEW i \in Instances,
               RequestStep(i) \/ RetryDelayOver(i) \/ LoseRuntime(i) \/ EraseRow(i)
        PROVE  wk' = wk
    BY <2>2 DEF RequestStep, Launch, ReadRequest, EnqueueRequest, RetryDelayOver,
       LoseRuntime, EraseRow
  <2>. QED  BY <2>1, <2>2 DEF Next, vars
<1>2. v = w  BY <1>1, OtherJobsKept
<1>3. CASE CrashWorker(w)  BY <1>3 DEF CrashWorker
<1>4. CASE WorkerStep(w)
  <2>1. Stale(w)
    BY <1>4
    DEF WorkerStep, StartWorker, PollStuck, Claim, EndDrain, BeginWork, Reserve,
        DeferForCapacity, ConfirmReservation, KillOld, AfterDestroy, Provision,
        ProvisionIfAbsent, Confirm, Resync, InspectAndRebuild, DestroyLab,
        DestroyIfPresent, RunChecks, Engine, LockBusy, EnginePcs, SettleOk, SettleFailed,
        SettleDeferred, SettleFence
  <2>. QED  BY <2>1 DEF Stale
<1>. QED  BY <1>1, <1>2, <1>3, <1>4

\* A worker that has ended its engine work and lost its claim in the meantime
\* discards what it was about to write.
THEOREM SettlementsFenced == Spec => FencedSettlement
<1>1. IInv /\ [Next]_vars =>
        \A w \in Workers :
          wk[w].pc = "settle" /\ ~ Holds(w) /\ wk'[w] # wk[w] => UNCHANGED <<row, op, fails>>
  BY FencedStep
<1>. QED  BY <1>1, Invariance, PTL DEF Spec, FencedSettlement

-----------------------------------------------------------------------------
(* Rows that tell the truth, in behaviours without stalls.                 *)

StallFree == \A b \in Budgets : b["stall"] = 0

\* No lab has died outside the academy's control.
Intact == \A b \in Budgets : budget["loss"] >= b["loss"]

Gone == {"none", "deleted"}

\* What a row says of its lab.
RowTrue(r, up, intact) ==
  /\ r.presence = "absent" => ~ up
  /\ r.status = "reaped" => ~ up /\ ~ r.consoles
  /\ r.status = "active" /\ ~ r.error /\ r.presence = "present" /\ intact => up

\* How row, operation and lab of an instance fit together.
Entry(r, o, up, intact) ==
  /\ o.state # "none" => r.status \notin Gone
  /\ r.status = "none" => ~ up
  /\ r.status \notin Gone => RowTrue(r, up, intact)
  /\ r.status \in Transient => o.state \in OpenStates /\ o.kind = "deploy"
  /\ o.state \in OpenStates =>
       /\ o.origin # "runtime_cleanup"
       /\ o.origin = "runtime_repair" => r.status # "reaped"

EntriesTrue == \A i \in Instances : Entry(row[i], op[i], runtime[i], Intact)

\* A claim belongs to an incarnation that has started, has no other claim and,
\* while it is up, works on this one.
ClaimsTrue ==
  \A i \in Instances :
    op[i].state = "claimed" =>
      /\ wk[op[i].by].pc # "new"
      /\ Up(op[i].by) => wk[op[i].by].inst = i
      /\ \A k \in Instances : op[k].state = "claimed" /\ op[k].by = op[i].by => k = i

Matches(j, o, w) ==
  /\ o.state = "claimed" /\ o.by = w /\ o.id = j.id
  /\ o.kind = j.kind /\ o.origin = j.origin /\ o.attempts = j.attempts

DeployPcs == {"admit", "reserved", "kill", "killed", "deploy", "ifabsent", "confirm", "resync"}
HeldPcs == {"reserved", "kill", "killed", "deploy", "ifabsent", "confirm"}

Ordinary(j) == j.kind = "deploy" /\ j.origin # "runtime_repair"

\* Where a job may be, by its kind and origin.
PcFits(j) ==
  /\ j.pc \in DeployPcs => j.kind = "deploy"
  /\ j.pc \in {"start", "ifabsent", "confirm", "resync"} => ~ Ordinary(j)
  /\ j.pc \in {"kill", "killed", "deploy"} => j.origin # "runtime_repair"
  /\ j.pc \in {"destroy", "ifpresent"} => j.kind = "destroy"
  /\ j.pc = "ifpresent" => j.origin = "runtime_cleanup"
  /\ j.pc = "check" => j.kind = "check"
  /\ j.pc = "settle" <=> j.res # "none"

\* What a job remembers of its row.
Remembers(j, r, up, intact) ==
  /\ j.was.status \notin Gone
  /\ j.kind # "deploy" => r.status = j.was.status
  /\ j.origin = "runtime_repair" => j.was.status # "reaped"
  /\ j.pc \in {"start", "admit"} => r = j.was
  /\ ~ Ordinary(j) /\ j.res \in {"none", "lock"} => RowTrue(j.was, up, intact)
  /\ j.res = "none" /\ j.pc \notin HeldPcs => j.mem = j.was

\* What its reservation and its engine calls have established.
Established(j, r, up, intact) ==
  /\ j.pc = "destroy" => r.presence = "unknown"
  /\ j.pc \in HeldPcs => r.presence = "unknown" /\ r.status \in Transient
  /\ j.pc \in HeldPcs \ {"reserved"} => j.mem.presence = "unknown" /\ j.mem.status \in Transient
  /\ j.pc \in {"killed", "deploy"} => ~ up
  /\ j.res = "ok" /\ j.kind # "check" =>
       RowTrue(j.mem, up, intact) /\ j.mem.status \notin Transient \cup Gone
  /\ j.res = "fail" /\ j.kind = "deploy" /\ j.mem.presence = "absent" => ~ up

Working(j, r, up, intact) ==
  PcFits(j) /\ Remembers(j, r, up, intact) /\ Established(j, r, up, intact)

JobTrue(j, w, r, o, up, intact) ==
  /\ r.status # "none"
  /\ r.status # "deleted" => Matches(j, o, w) /\ Working(j, r, up, intact)

JobsTrue ==
  \A w \in Workers :
    wk[w].inst # NoOne =>
      JobTrue(wk[w], w, row[wk[w].inst], op[wk[w].inst], runtime[wk[w].inst], Intact)

\* The reconciler knows labs that have had a row, and as orphans those that
\* have lost it.
PassTrue ==
  /\ rec.pc # "queue"
  /\ \A i \in rec.up : row[i].status # "none"
  /\ \A i \in rec.orphans : row[i].status = "deleted"

BudgetTrue ==
  /\ budget["stall"] = 0
  /\ \E b \in Budgets : budget["loss"] <= b["loss"]

TruthInv == IInv /\ EntriesTrue /\ ClaimsTrue /\ JobsTrue /\ PassTrue /\ BudgetTrue

-----------------------------------------------------------------------------
(* Frames.                                                                 *)

LEMMA EntryKept ==
  ASSUME NEW r, NEW o, NEW up, NEW x, NEW y, Entry(r, o, up, x), y => x
  PROVE  Entry(r, o, up, y)
BY DEF Entry, RowTrue

LEMMA WorkingKept ==
  ASSUME NEW j, NEW r, NEW up, NEW x, NEW y, Working(j, r, up, x), y => x
  PROVE  Working(j, r, up, y)
BY DEF Working, PcFits, Remembers, Established, RowTrue

\* Engine faults other than a loss leave the stall and loss budgets alone.
BudgetKept == budget'["loss"] = budget["loss"] /\ budget'["stall"] = budget["stall"]

LEMMA IntactKept ==
  ASSUME BudgetTrue, BudgetKept
  PROVE  BudgetTrue' /\ (Intact' <=> Intact)
BY DEF BudgetTrue, BudgetKept, Intact

\* What the singleton lock gives the acting worker.
LEMMA OthersIdle ==
  ASSUME IInv, NEW w \in Workers, Up(w), NEW v \in Workers \ {w}
  PROVE  wk[v].inst = NoOne
BY DEF IInv, JobsOK, JobOK, OneUp, Up, IdlePcs

LEMMA IdleJob ==
  ASSUME IInv, NEW w \in Workers, wk[w].pc \in IdlePcs
  PROVE  wk[w].inst = NoOne
BY DEF IInv, JobsOK, JobOK

LEMMA RowKnown ==
  ASSUME IInv, NEW i \in Instances
  PROVE  /\ row[i] \in Rows /\ op[i] \in Ops
         /\ op[i].state = "claimed" => op[i].by \in Workers
BY DEF IInv, RowsOK, OpsOK, OpOK, Ops

\* A step that takes no worker's job and touches no instance that is worked on.
LEMMA JobsKept ==
  ASSUME JobsTrue, wk' = wk, Intact' => Intact,
         \A w \in Workers : wk[w].inst # NoOne =>
           /\ row'[wk[w].inst] = row[wk[w].inst]
           /\ op'[wk[w].inst] = op[wk[w].inst]
           /\ runtime'[wk[w].inst] = runtime[wk[w].inst]
  PROVE  JobsTrue'
<1>. SUFFICES ASSUME NEW w \in Workers, wk[w].inst # NoOne
              PROVE  JobTrue(wk[w], w, row[wk[w].inst], op[wk[w].inst],
                             runtime[wk[w].inst], Intact')
  BY DEF JobsTrue
<1>1. JobTrue(wk[w], w, row[wk[w].inst], op[wk[w].inst], runtime[wk[w].inst], Intact)
  BY DEF JobsTrue
<1>. QED  BY <1>1, WorkingKept DEF JobTrue

LEMMA ClaimsKept ==
  ASSUME IInv, ClaimsTrue, wk' = wk,
         \A i \in Instances : op'[i].state = "claimed" =>
           op[i].state = "claimed" /\ op'[i].by = op[i].by
  PROVE  ClaimsTrue'
BY DEF ClaimsTrue, Up

\* The acting worker's claim moves with its job.
LEMMA WorkerClaims ==
  ASSUME IInv, ClaimsTrue, NEW w \in Workers, Up(w), NEW j,
         wk' = [wk EXCEPT ![w] = j], j.pc # "new",
         \A i \in Instances : op'[i].state = "claimed" =>
           op[i].state = "claimed" /\ op'[i].by = op[i].by,
         \A i \in Instances : op'[i].state = "claimed" /\ op'[i].by = w =>
           j.inst = i \/ j.pc = "dead"
  PROVE  ClaimsTrue'
<1>1. wk \in [Workers -> Jobs]  BY DEF IInv, JobsOK
<1>2. wk'[w] = j /\ \A v \in Workers \ {w} : wk'[v] = wk[v]  BY <1>1
<1>. SUFFICES ASSUME NEW i \in Instances, op'[i].state = "claimed"
              PROVE  /\ wk'[op'[i].by].pc # "new"
                     /\ Up(op[i].by)' => wk'[op'[i].by].inst = i
                     /\ \A k \in Instances :
                          op'[k].state = "claimed" /\ op'[k].by = op'[i].by => k = i
  BY DEF ClaimsTrue, Up
<1>3. op[i].state = "claimed" /\ op'[i].by = op[i].by /\ op[i].by \in Workers
  BY RowKnown
<1>4. \A k \in Instances : op'[k].state = "claimed" /\ op'[k].by = op'[i].by => k = i
  BY <1>3 DEF ClaimsTrue
<1>5. CASE op[i].by = w
  BY <1>2, <1>3, <1>4, <1>5 DEF Up
<1>6. CASE op[i].by # w
  BY <1>2, <1>3, <1>4, <1>6 DEF ClaimsTrue, Up
<1>. QED  BY <1>5, <1>6

LEMMA FreeClaims ==
  ASSUME IInv, ClaimsTrue, NEW w \in Workers, Up(w), NEW j,
         wk' = [wk EXCEPT ![w] = j], j.pc # "new",
         \A i \in Instances : op[i].state = "claimed" => op[i].by # w,
         \A i \in Instances : op'[i].state = "claimed" =>
           op[i].state = "claimed" /\ op'[i].by = op[i].by
  PROVE  ClaimsTrue'
<1>1. \A i \in Instances : op'[i].state = "claimed" => op'[i].by # w  OBVIOUS
<1>. QED  BY <1>1, WorkerClaims

\* A worker without a job holds no claim.
LEMMA IdleClaims ==
  ASSUME IInv, ClaimsTrue, NEW w \in Workers, wk[w].pc \in {"loop", "drain"}, NEW j,
         wk' = [wk EXCEPT ![w] = j], j.pc # "new",
         \A i \in Instances : op'[i].state = "claimed" =>
           op[i].state = "claimed" /\ op'[i].by = op[i].by
  PROVE  ClaimsTrue'
<1>1. Up(w) /\ wk[w].inst = NoOne  BY IdleJob DEF Up, IdlePcs
<1>2. \A i \in Instances : op[i].state = "claimed" => op[i].by # w
  BY <1>1, NoOneAssumption DEF ClaimsTrue
<1>. QED  BY <1>1, <1>2, FreeClaims

\* Only the acting worker has a job.
LEMMA WorkerJobs ==
  ASSUME IInv, NEW w \in Workers, Up(w), NEW j, wk' = [wk EXCEPT ![w] = j],
         j.inst # NoOne =>
           JobTrue(j, w, row'[j.inst], op'[j.inst], runtime'[j.inst], Intact')
  PROVE  JobsTrue'
<1>1. wk \in [Workers -> Jobs]  BY DEF IInv, JobsOK
<1>2. wk'[w] = j /\ \A v \in Workers \ {w} : wk'[v].inst = NoOne  BY <1>1, OthersIdle
<1>. QED  BY <1>2 DEF JobsTrue

-----------------------------------------------------------------------------
(* Recovery keeps rows true.                                               *)

\* Neither a requeue nor a ceiling makes a row say more than is known.
LEMMA RecoveredTrue ==
  ASSUME IInv, NEW i \in Instances, op[i].state = "claimed",
         NEW x, Entry(row[i], op[i], runtime[i], x)
  PROVE  /\ Entry(RecoveredRow(i), RecoveredOp(i), runtime[i], x)
         /\ RecoveredRow(i).status \notin Gone
         /\ RecoveredOp(i).state # "claimed"
<1>1. row[i] \in Rows /\ op[i] \in Ops  BY RowKnown
<1>2. op[i].state \in OpenStates /\ row[i].status \notin Gone
  BY DEF Entry, OpenStates
<1>3. CASE ~ AtCeiling(i)
  <2>. DEFINE r == RequeuedRow(row[i], op[i].kind)
              o == Requeued(op[i])
  <2>1. RecoveredRow(i) = r /\ RecoveredOp(i) = o
    BY <1>3 DEF RecoveredRow, RecoveredOp
  <2>2. /\ r.status = CASE row[i].status = "provisioning" -> "queued"
                        [] row[i].status = "resetting" -> "active"
                        [] OTHER -> row[i].status
        /\ r.presence = IF op[i].kind \in {"deploy", "destroy"} THEN "unknown"
                                                                ELSE row[i].presence
        /\ r.consoles = row[i].consoles /\ r.error = row[i].error
    BY <1>1 DEF RequeuedRow, Rows
  <2>3. /\ o.state = "queued" /\ o.kind = op[i].kind /\ o.origin = op[i].origin
    BY <1>1 DEF Requeued, Ops
  <2>4. op[i].kind \in Kinds  BY <1>1 DEF Ops
  <2>. HIDE DEF r, o
  <2>5. r.status \notin Gone  BY <1>2, <2>2 DEF Gone
  <2>6. RowTrue(r, runtime[i], x)
    <3>1. RowTrue(row[i], runtime[i], x)  BY <1>2 DEF Entry
    <3>2. CASE op[i].kind \in {"deploy", "destroy"}
      BY <2>2, <3>1, <3>2 DEF RowTrue
    <3>3. CASE op[i].kind = "check"
      <4>1. row[i].status \notin Transient  BY <3>3 DEF Entry
      <4>. QED  BY <2>2, <3>1, <3>3, <4>1 DEF RowTrue, Transient
    <3>. QED  BY <2>4, <3>2, <3>3 DEF Kinds
  <2>7. r.status \in Transient => o.kind = "deploy"
    BY <2>2, <2>3 DEF Entry, Transient
  <2>8. o.origin # "runtime_cleanup" /\ (o.origin = "runtime_repair" => r.status # "reaped")
    BY <1>2, <2>2, <2>3 DEF Entry
  <2>9. o.state \in OpenStates /\ o.state # "claimed"  BY <2>3 DEF OpenStates
  <2>. QED  BY <2>1, <2>5, <2>6, <2>7, <2>8, <2>9 DEF Entry, Gone
<1>4. CASE AtCeiling(i)
  <2>. DEFINE a == [row[i] EXCEPT !.status = "active", !.error = TRUE, !.presence = "unknown"]
              s == IF op[i].kind \in {"deploy", "destroy"} THEN a ELSE row[i]
              r == CeilingRow(i)
              o == Closed(op[i], "failed")
  <2>1. RecoveredRow(i) = r /\ RecoveredOp(i) = o
    BY <1>4 DEF RecoveredRow, RecoveredOp
  <2>2. o.state = "failed"  BY DEF Closed, NoOp
  <2>3. r = s \/ r = [s EXCEPT !.status = "error", !.consoles = FALSE, !.error = TRUE]
    BY DEF CeilingRow, Escalate
  <2>4. op[i].kind \notin {"deploy", "destroy"} => r = s
    BY DEF CeilingRow, Escalate, Escalating
  <2>5. /\ a.status = "active" /\ a.error = TRUE /\ a.presence = "unknown"
        /\ s \in Rows
    BY <1>1 DEF Rows, Statuses, LiveStatus, Presences
  <2>. HIDE DEF a, r, o
  <2>6. CASE op[i].kind \in {"deploy", "destroy"}
    <3>1. s = a  BY <2>6
    <3>2. /\ r.status \in {"active", "error"} /\ r.error = TRUE /\ r.presence = "unknown"
      BY <2>3, <2>5, <3>1 DEF Rows
    <3>. QED  BY <2>1, <2>2, <3>2 DEF Entry, RowTrue, Gone, Transient, OpenStates
  <2>7. CASE op[i].kind \notin {"deploy", "destroy"}
    <3>1. r = row[i]  BY <2>4, <2>7
    <3>2. row[i].status \notin Transient  BY <2>7 DEF Entry
    <3>. QED  BY <1>2, <2>1, <2>2, <3>1, <3>2 DEF Entry, OpenStates
  <2>. QED  BY <2>6, <2>7
<1>. QED  BY <1>3, <1>4

\* Without stalls only claims of dead incarnations lapse, and the sweep for
\* stranded rows finds none.
LEMMA SweepTrue ==
  ASSUME TruthInv, NEW E \in SUBSET Instances, LapsedClaims(E), ReconcileStuck(E),
         UNCHANGED runtime
  PROVE  /\ BudgetKept
         /\ EntriesTrue'
         /\ E \subseteq ClaimsOfDead
         /\ \A i \in Instances :
              /\ i \notin E => row'[i] = row[i] /\ op'[i] = op[i]
              /\ i \in E => row'[i].status \notin Gone /\ op'[i] = RecoveredOp(i)
              /\ op'[i].state = "claimed" => i \notin E
<1>1. BudgetTrue /\ IInv  BY DEF TruthInv
<1>2. E \subseteq ClaimsOfDead /\ UNCHANGED budget
  BY <1>1 DEF LapsedClaims, Spend, BudgetTrue
<1>3. BudgetKept /\ (Intact' <=> Intact)
  BY <1>1, <1>2, IntactKept DEF BudgetKept
<1>. DEFINE r == [i \in Instances |-> IF i \in E THEN RecoveredRow(i) ELSE row[i]]
            o == [i \in Instances |-> IF i \in E THEN RecoveredOp(i) ELSE op[i]]
            missing == {i \in Instances : Stranded(r[i], o[i])}
<1>4. \A i \in Instances : i \in E => op[i].state = "claimed"  BY <1>2 DEF ClaimsOfDead
<1>5. \A i \in Instances : Entry(row[i], op[i], runtime[i], Intact)
  BY DEF TruthInv, EntriesTrue
<1>6. \A i \in Instances : Entry(r[i], o[i], runtime[i], Intact)
  BY <1>1, <1>4, <1>5, RecoveredTrue
<1>7. \A i \in Instances : i \in E => r[i].status \notin Gone /\ o[i].state # "claimed"
  BY <1>1, <1>4, <1>5, RecoveredTrue
<1>8. missing = {}
  <2>. SUFFICES ASSUME NEW i \in Instances, Stranded(r[i], o[i]) PROVE FALSE  OBVIOUS
  <2>. HIDE DEF r, o
  <2>. QED  BY <1>6 DEF Entry, Stranded
<1>9. \A i \in Instances : row'[i] = r[i] /\ op'[i] = o[i]
  <2>1. /\ row' = [i \in Instances |->
                     IF i \in missing
                     THEN [r[i] EXCEPT !.status = IF @ = "resetting" THEN "active" ELSE "queued",
                                       !.presence = "unknown"]
                     ELSE r[i]]
        /\ op' = [i \in Instances |-> IF i \in missing THEN NewOp(i, "deploy", "auto") ELSE o[i]]
    BY DEF ReconcileStuck
  <2>. HIDE DEF r, o, missing
  <2>. QED  BY <1>8, <2>1
<1>10. EntriesTrue'
  <2>. HIDE DEF r, o
  <2>. QED  BY <1>3, <1>6, <1>9, EntryKept DEF EntriesTrue
<1>11. \A i \in Instances : (i \in E => o[i] = RecoveredOp(i))
                            /\ (i \notin E => r[i] = row[i] /\ o[i] = op[i])
  OBVIOUS
<1>. HIDE DEF r, o
<1>. QED  BY <1>2, <1>3, <1>7, <1>9, <1>10, <1>11

\* What the reconciler remembers stays true while rows only come, or go for good.
LEMMA PassKept ==
  ASSUME PassTrue, UNCHANGED rec, IInv,
         \A i \in Instances :
           /\ row[i].status # "none" => row'[i].status # "none"
           /\ row[i].status = "deleted" => row'[i].status = "deleted"
  PROVE  PassTrue'
BY DEF PassTrue, IInv, RestOK, Passes

LEMMA StartWorkerTrue ==
  ASSUME TruthInv, IInv', NEW w \in Workers, StartWorker(w)
  PROVE  TruthInv'
<1>. DEFINE E == {i \in Instances : op[i].state = "claimed" /\ op[i].by # w}
<1>1. /\ row' = [i \in Instances |-> IF i \in E THEN RecoveredRow(i) ELSE row[i]]
      /\ op' = [i \in Instances |-> IF i \in E THEN RecoveredOp(i) ELSE op[i]]
      /\ wk' = [wk EXCEPT ![w] = NoJob("loop")]
      /\ SingletonFree(w) /\ wk[w].pc = "new"
      /\ UNCHANGED <<runtime, rec, intents, budget>>
  BY DEF StartWorker
<1>2. IInv /\ BudgetTrue  BY DEF TruthInv
<1>3. \A i \in Instances : Entry(row[i], op[i], runtime[i], Intact)
  BY DEF TruthInv, EntriesTrue
<1>4. E = {i \in Instances : op[i].state = "claimed"}
  BY <1>1 DEF TruthInv, ClaimsTrue
<1>. HIDE DEF E
<1>5. BudgetTrue' /\ (Intact' <=> Intact)  BY <1>1, <1>2, IntactKept DEF BudgetKept
<1>6. \A i \in Instances :
        /\ Entry(row'[i], op'[i], runtime'[i], Intact)
        /\ op'[i].state # "claimed"
        /\ i \in E => row'[i].status \notin Gone /\ row[i].status \notin Gone
        /\ i \notin E => row'[i] = row[i]
  <2>. SUFFICES ASSUME NEW i \in Instances
                PROVE  /\ Entry(row'[i], op'[i], runtime'[i], Intact)
                       /\ op'[i].state # "claimed"
                       /\ i \in E => row'[i].status \notin Gone /\ row[i].status \notin Gone
                       /\ i \notin E => row'[i] = row[i]
    OBVIOUS
  <2>1. CASE i \in E
    <3>1. op[i].state = "claimed"  BY <1>4, <2>1
    <3>2. row[i].status \notin Gone  BY <1>3, <3>1 DEF Entry
    <3>3. row'[i] = RecoveredRow(i) /\ op'[i] = RecoveredOp(i) /\ runtime'[i] = runtime[i]
      BY <1>1, <2>1
    <3>. QED  BY <1>2, <1>3, <2>1, <3>1, <3>2, <3>3, RecoveredTrue
  <2>2. CASE i \notin E
    <3>1. row'[i] = row[i] /\ op'[i] = op[i] /\ runtime'[i] = runtime[i]  BY <1>1, <2>2
    <3>. QED  BY <1>3, <1>4, <2>2, <3>1
  <2>. QED  BY <2>1, <2>2
<1>7. EntriesTrue'  BY <1>5, <1>6, EntryKept DEF EntriesTrue
<1>8. ClaimsTrue'  BY <1>6 DEF ClaimsTrue
<1>9. JobsTrue'
  <2>1. NoJob("loop").inst = NoOne  BY DEF NoJob
  <2>2. wk \in [Workers -> Jobs]  BY <1>2 DEF IInv, JobsOK
  <2>3. \A v \in Workers : wk'[v] = IF v = w THEN NoJob("loop") ELSE wk[v]  BY <1>1, <2>2
  <2>4. \A v \in Workers : wk[v].inst = NoOne
    BY <1>1, <1>2 DEF SingletonFree, IInv, JobsOK, JobOK, Up, IdlePcs
  <2>. QED  BY <2>1, <2>3, <2>4 DEF JobsTrue
<1>10. PassTrue'
  BY <1>1, <1>2, <1>6, PassKept DEF TruthInv, Gone
<1>. QED  BY <1>5, <1>7, <1>8, <1>9, <1>10 DEF TruthInv

LEMMA CrashWorkerTrue ==
  ASSUME TruthInv, IInv', NEW w \in Workers, CrashWorker(w)
  PROVE  TruthInv'
<1>1. /\ Up(w) /\ wk' = [wk EXCEPT ![w] = NoJob("dead")]
      /\ UNCHANGED <<row, op, fails, runtime, rec, intents, budget>>
  BY DEF CrashWorker
<1>2. NoJob("dead").pc = "dead" /\ NoJob("dead").inst = NoOne  BY DEF NoJob
<1>3. ClaimsTrue'
  BY <1>1, <1>2, WorkerClaims DEF TruthInv
<1>4. JobsTrue'  BY <1>1, <1>2, WorkerJobs DEF TruthInv
<1>5. EntriesTrue' /\ PassTrue' /\ BudgetTrue'
  BY <1>1 DEF TruthInv, EntriesTrue, PassTrue, BudgetTrue, Intact
<1>. QED  BY <1>3, <1>4, <1>5 DEF TruthInv

\* The sweep, whoever runs it: an idle worker or the reconciler.
LEMMA SweepPass ==
  ASSUME TruthInv, NEW E \in SUBSET Instances, LapsedClaims(E), ReconcileStuck(E),
         UNCHANGED runtime
  PROVE  \A i \in Instances : /\ row[i].status # "none" => row'[i].status # "none"
                              /\ row[i].status = "deleted" => row'[i].status = "deleted"
<1>. SUFFICES ASSUME NEW i \in Instances
              PROVE  /\ row[i].status # "none" => row'[i].status # "none"
                     /\ row[i].status = "deleted" => row'[i].status = "deleted"
  OBVIOUS
<1>1. CASE i \in E
  <2>1. op[i].state = "claimed"  BY <1>1, SweepTrue DEF ClaimsOfDead
  <2>2. row[i].status # "deleted"  BY <2>1 DEF TruthInv, EntriesTrue, Entry, Gone
  <2>3. row'[i].status # "none"  BY <1>1, SweepTrue DEF Gone
  <2>. QED  BY <2>2, <2>3
<1>2. CASE i \notin E
  <2>1. row'[i] = row[i]  BY <1>2, SweepTrue
  <2>. QED  BY <2>1
<1>. QED  BY <1>1, <1>2

LEMMA PollStuckTrue ==
  ASSUME TruthInv, IInv', NEW w \in Workers, PollStuck(w)
  PROVE  TruthInv'
<1>1. PICK E \in SUBSET Instances : LapsedClaims(E) /\ ReconcileStuck(E)  BY DEF PollStuck
<1>. DEFINE j == [wk[w] EXCEPT !.pc = "drain"]
<1>2. /\ wk[w].pc = "loop" /\ wk' = [wk EXCEPT ![w] = j]
      /\ UNCHANGED <<runtime, rec, intents>>
  BY DEF PollStuck, SetPc
<1>3. IInv /\ BudgetTrue /\ PassTrue /\ ClaimsTrue  BY DEF TruthInv
<1>4. Up(w) /\ wk[w].inst = NoOne  BY <1>2, <1>3, IdleJob DEF Up, IdlePcs
<1>5. wk[w] \in Jobs  BY <1>3 DEF IInv, JobsOK
<1>6. j.pc = "drain" /\ j.inst = NoOne  BY <1>4, <1>5 DEF Jobs
<1>. HIDE DEF j
<1>7. EntriesTrue' /\ BudgetKept  BY <1>1, <1>2, SweepTrue
<1>8. BudgetTrue'  BY <1>3, <1>7, IntactKept
<1>9. \A i \in Instances : op'[i].state = "claimed" =>
        op[i].state = "claimed" /\ op'[i].by = op[i].by
  <2>. SUFFICES ASSUME NEW i \in Instances, op'[i].state = "claimed"
                PROVE  op[i].state = "claimed" /\ op'[i].by = op[i].by
    OBVIOUS
  <2>1. op'[i] = op[i]  BY <1>1, <1>2, SweepTrue
  <2>. QED  BY <2>1
<1>10. ClaimsTrue'
  <2>1. j.pc # "new"  BY <1>6
  <2>. QED  BY <1>2, <1>3, <1>9, <2>1, IdleClaims
<1>11. JobsTrue'  BY <1>2, <1>3, <1>4, <1>6, WorkerJobs
<1>12. PassTrue'  BY <1>1, <1>2, <1>3, SweepPass, PassKept
<1>. QED  BY <1>7, <1>8, <1>10, <1>11, <1>12 DEF TruthInv

LEMMA RecStuckTrue ==
  ASSUME TruthInv, IInv', RecStuck
  PROVE  TruthInv'
<1>1. PICK E \in SUBSET Instances : LapsedClaims(E) /\ ReconcileStuck(E)  BY DEF RecStuck
<1>2. rec' = [NoPass EXCEPT !.pc = "inventory"] /\ UNCHANGED <<runtime, wk, intents>>
  BY DEF RecStuck
<1>3. IInv /\ BudgetTrue /\ JobsTrue /\ ClaimsTrue  BY DEF TruthInv
<1>4. EntriesTrue' /\ BudgetKept /\ E \subseteq ClaimsOfDead  BY <1>1, <1>2, SweepTrue
<1>5. BudgetTrue' /\ (Intact' <=> Intact)  BY <1>3, <1>4, IntactKept
<1>6. ClaimsTrue'  BY <1>1, <1>2, <1>3, SweepTrue, ClaimsKept
<1>7. ASSUME NEW w \in Workers, wk[w].inst # NoOne
      PROVE  wk[w].inst \in Instances \ E
  <2>. DEFINE i == wk[w].inst
  <2>1. Up(w) /\ i \in Instances
    BY <1>3, <1>7, NoOneAssumption DEF IInv, JobsOK, JobOK, Jobs, Up, IdlePcs
  <2>2. CASE row[i].status \in Gone
    BY <1>4, <2>1, <2>2 DEF TruthInv, EntriesTrue, Entry, ClaimsOfDead
  <2>3. CASE row[i].status \notin Gone
    <3>1. op[i].by = w  BY <1>3, <1>7, <2>3 DEF JobsTrue, JobTrue, Matches, Gone
    <3>. QED  BY <1>4, <2>1, <3>1 DEF ClaimsOfDead
  <2>. QED  BY <2>2, <2>3
<1>8. JobsTrue'
  <2>1. \A w \in Workers : wk[w].inst # NoOne =>
          /\ row'[wk[w].inst] = row[wk[w].inst]
          /\ op'[wk[w].inst] = op[wk[w].inst]
    BY <1>1, <1>2, <1>7, SweepTrue
  <2>. QED  BY <1>2, <1>3, <1>5, <2>1, JobsKept
<1>9. PassTrue'  BY <1>2 DEF PassTrue, NoPass
<1>. QED  BY <1>4, <1>5, <1>6, <1>8, <1>9 DEF TruthInv

\* Steps that only make delayed operations ready.
LEMMA ReadyTrue ==
  ASSUME TruthInv, UNCHANGED <<row, runtime, rec, budget>>,
         \A i \in Instances :
           /\ op'[i].state = op[i].state /\ op'[i].kind = op[i].kind
           /\ op'[i].origin = op[i].origin /\ op'[i].by = op[i].by
           /\ op'[i].id = op[i].id /\ op'[i].attempts = op[i].attempts
  PROVE  EntriesTrue' /\ PassTrue' /\ BudgetTrue' /\ (Intact' <=> Intact)
<1>1. PassTrue' /\ BudgetTrue' /\ (Intact' <=> Intact)
  BY DEF TruthInv, PassTrue, BudgetTrue, Intact
<1>. SUFFICES ASSUME NEW i \in Instances
              PROVE  Entry(row'[i], op'[i], runtime'[i], Intact')
  BY <1>1 DEF EntriesTrue
<1>2. Entry(row[i], op[i], runtime[i], Intact)  BY DEF TruthInv, EntriesTrue
<1>3. Entry(row[i], op'[i], runtime[i], Intact)  BY <1>2 DEF Entry
<1>. QED  BY <1>1, <1>3, EntryKept

LEMMA RetryDelayOverTrue ==
  ASSUME TruthInv, IInv', NEW i \in Instances, RetryDelayOver(i)
  PROVE  TruthInv'
<1>1. /\ op' = [op EXCEPT ![i] = [op[i] EXCEPT !.ready = TRUE]] /\ op[i].state = "queued"
      /\ UNCHANGED <<row, fails, runtime, wk, rec, intents, budget>>
  BY DEF RetryDelayOver
<1>2. IInv /\ ClaimsTrue /\ JobsTrue  BY DEF TruthInv
<1>3. op \in [Instances -> Ops] /\ op[i] \in Ops  BY <1>2 DEF IInv, OpsOK
<1>4. \A k \in Instances :
        /\ op'[k].state = op[k].state /\ op'[k].kind = op[k].kind
        /\ op'[k].origin = op[k].origin /\ op'[k].by = op[k].by
        /\ op'[k].id = op[k].id /\ op'[k].attempts = op[k].attempts
  <2>. SUFFICES ASSUME NEW k \in Instances
                PROVE  /\ op'[k].state = op[k].state /\ op'[k].kind = op[k].kind
                       /\ op'[k].origin = op[k].origin /\ op'[k].by = op[k].by
                       /\ op'[k].id = op[k].id /\ op'[k].attempts = op[k].attempts
    OBVIOUS
  <2>1. CASE k = i  BY <1>1, <1>3, <2>1 DEF Ops
  <2>2. CASE k # i  BY <1>1, <1>3, <2>2
  <2>. QED  BY <2>1, <2>2
<1>5. EntriesTrue' /\ PassTrue' /\ BudgetTrue' /\ (Intact' <=> Intact)
  BY <1>1, <1>4, ReadyTrue
<1>6. ClaimsTrue'  BY <1>1, <1>2, <1>4, ClaimsKept
<1>7. JobsTrue'
  <2>. SUFFICES ASSUME NEW w \in Workers, wk[w].inst # NoOne
                PROVE  JobTrue(wk[w], w, row[wk[w].inst], op'[wk[w].inst],
                               runtime[wk[w].inst], Intact')
    BY <1>1 DEF JobsTrue
  <2>1. JobTrue(wk[w], w, row[wk[w].inst], op[wk[w].inst], runtime[wk[w].inst], Intact)
    BY <1>2 DEF JobsTrue
  <2>2. wk[w].inst \in Instances  BY <1>2, NoOneAssumption DEF IInv, JobsOK, Jobs
  <2>. QED  BY <1>4, <1>5, <2>1, <2>2, WorkingKept DEF JobTrue, Matches
<1>. QED  BY <1>5, <1>6, <1>7 DEF TruthInv

LEMMA EndDrainTrue ==
  ASSUME TruthInv, IInv', NEW w \in Workers, EndDrain(w)
  PROVE  TruthInv'
<1>. DEFINE j == [wk[w] EXCEPT !.pc = "loop"]
            o(i) == [op[i] EXCEPT !.ready = TRUE]
<1>1. /\ op' = [i \in Instances |-> o(i)] /\ wk[w].pc = "drain"
      /\ wk' = [wk EXCEPT ![w] = j]
      /\ UNCHANGED <<row, fails, runtime, rec, intents, budget>>
  BY DEF EndDrain, SetPc
<1>2. IInv /\ ClaimsTrue /\ JobsTrue  BY DEF TruthInv
<1>3. Up(w) /\ wk[w].inst = NoOne  BY <1>1, <1>2, IdleJob DEF Up, IdlePcs
<1>4. wk[w] \in Jobs  BY <1>2 DEF IInv, JobsOK
<1>5. j.pc = "loop" /\ j.inst = NoOne  BY <1>3, <1>4 DEF Jobs
<1>6. \A k \in Instances :
        /\ op'[k].state = op[k].state /\ op'[k].kind = op[k].kind
        /\ op'[k].origin = op[k].origin /\ op'[k].by = op[k].by
        /\ op'[k].id = op[k].id /\ op'[k].attempts = op[k].attempts
  <2>. SUFFICES ASSUME NEW k \in Instances
                PROVE  /\ op'[k].state = op[k].state /\ op'[k].kind = op[k].kind
                       /\ op'[k].origin = op[k].origin /\ op'[k].by = op[k].by
                       /\ op'[k].id = op[k].id /\ op'[k].attempts = op[k].attempts
    OBVIOUS
  <2>1. op[k] \in Ops  BY <1>2, RowKnown
  <2>2. op'[k] = o(k)  BY <1>1
  <2>. QED  BY <2>1, <2>2 DEF Ops
<1>. HIDE DEF j, o
<1>7. EntriesTrue' /\ PassTrue' /\ BudgetTrue'  BY <1>1, <1>6, ReadyTrue
<1>8. \A i \in Instances : op'[i].state = "claimed" =>
        op[i].state = "claimed" /\ op'[i].by = op[i].by
  BY <1>6
<1>9. ClaimsTrue'
  <2>1. j.pc # "new"  BY <1>5
  <2>. QED  BY <1>1, <1>2, <1>8, <2>1, IdleClaims
<1>10. JobsTrue'  BY <1>1, <1>2, <1>3, <1>5, WorkerJobs
<1>. QED  BY <1>7, <1>9, <1>10 DEF TruthInv

\* The snapshot a claim takes is the row, which tells the truth.
LEMMA ClaimTrue ==
  ASSUME TruthInv, IInv', NEW w \in Workers, NEW i \in Instances, Claim(w, i)
  PROVE  TruthInv'
<1>. DEFINE o == [op[i] EXCEPT !.state = "claimed", !.by = w, !.attempts = @ + 1]
            pc == IF op[i].kind = "deploy" /\ op[i].origin # "runtime_repair"
                  THEN "admit" ELSE "start"
            j == [pc |-> pc, inst |-> i, id |-> op[i].id, kind |-> op[i].kind,
                  origin |-> op[i].origin, attempts |-> op[i].attempts + 1,
                  was |-> row[i], mem |-> row[i], res |-> "none"]
<1>1. wk[w].pc = "drain" /\ op[i].state = "queued"  BY DEF Claim, Ready
<1>2. op' = [op EXCEPT ![i] = o] /\ UNCHANGED <<row, fails, runtime, rec, intents, budget>>
  BY DEF Claim
<1>3. wk' = [wk EXCEPT ![w] = j]  BY Zenon DEF Claim
<1>4. IInv /\ ClaimsTrue /\ PassTrue /\ BudgetTrue /\ op[i] \in Ops /\ row[i] \in Rows
  BY RowKnown DEF TruthInv
<1>5. Up(w) /\ wk[w].inst = NoOne  BY <1>1, <1>4, IdleJob DEF Up, IdlePcs
<1>6. /\ o.state = "claimed" /\ o.by = w /\ o.kind = op[i].kind /\ o.origin = op[i].origin
      /\ o.id = op[i].id /\ o.attempts = op[i].attempts + 1
  BY <1>4 DEF Ops
<1>7. /\ j.pc = pc /\ j.inst = i /\ j.id = op[i].id /\ j.kind = op[i].kind
      /\ j.origin = op[i].origin /\ j.attempts = op[i].attempts + 1
      /\ j.was = row[i] /\ j.mem = row[i] /\ j.res = "none"
  OBVIOUS
<1>8. pc \in {"admit", "start"} /\ (pc = "admit" <=> Ordinary(op[i]))
  BY DEF Ordinary
<1>. HIDE DEF o, pc, j
<1>9. Intact' = Intact /\ BudgetTrue' /\ PassTrue'
  BY <1>2, <1>4 DEF Intact, BudgetTrue, PassTrue
<1>10. Entry(row[i], op[i], runtime[i], Intact)  BY DEF TruthInv, EntriesTrue
<1>11. row[i].status \notin Gone /\ RowTrue(row[i], runtime[i], Intact)
       /\ (op[i].origin = "runtime_repair" => row[i].status # "reaped")
       /\ op[i].origin # "runtime_cleanup"
  BY <1>1, <1>10 DEF Entry, OpenStates
<1>12. EntriesTrue'
  <2>1. Entry(row[i], o, runtime[i], Intact)
    BY <1>1, <1>6, <1>10 DEF Entry, OpenStates
  <2>2. op'[i] = o /\ \A k \in Instances \ {i} : op'[k] = op[k]  BY <1>2, <1>4 DEF IInv, OpsOK
  <2>. QED  BY <1>2, <1>9, <2>1, <2>2 DEF TruthInv, EntriesTrue
<1>13. ClaimsTrue'
  <2>1. op'[i] = o /\ \A k \in Instances \ {i} : op'[k] = op[k]  BY <1>2, <1>4 DEF IInv, OpsOK
  <2>2. wk'[w] = j /\ \A v \in Workers \ {w} : wk'[v] = wk[v]
    BY <1>3, <1>4 DEF IInv, JobsOK
  <2>3. \A k \in Instances : op[k].state = "claimed" => op[k].by # w /\ op[k].by \in Workers
    BY <1>4, <1>5, NoOneAssumption, RowKnown DEF ClaimsTrue
  <2>. SUFFICES ASSUME NEW k \in Instances, op'[k].state = "claimed"
                PROVE  /\ wk'[op'[k].by].pc # "new"
                       /\ Up(op[k].by)' => wk'[op'[k].by].inst = k
                       /\ \A l \in Instances :
                            op'[l].state = "claimed" /\ op'[l].by = op'[k].by => l = k
    BY DEF ClaimsTrue, Up
  <2>4. CASE k = i
    <3>1. j.pc # "new"  BY <1>7, <1>8
    <3>. QED  BY <1>6, <1>7, <2>1, <2>2, <2>3, <2>4, <3>1
  <2>5. CASE k # i
    <3>1. op'[k] = op[k] /\ op[k].by # w /\ op[k].by \in Workers
      BY <2>1, <2>3, <2>5
    <3>. QED  BY <1>4, <1>6, <2>1, <2>2, <2>5, <3>1 DEF ClaimsTrue, Up
  <2>. QED  BY <2>4, <2>5
<1>14. JobsTrue'
  <2>1. op'[i] = o  BY <1>2, <1>4 DEF IInv, OpsOK
  <2>2. Matches(j, o, w)  BY <1>6, <1>7 DEF Matches
  <2>3. PcFits(j)  BY <1>7, <1>8 DEF PcFits, DeployPcs, Ordinary
  <2>4. Remembers(j, row[i], runtime[i], Intact)
    BY <1>7, <1>11 DEF Remembers
  <2>5. Established(j, row[i], runtime[i], Intact)
    BY <1>7, <1>8 DEF Established, HeldPcs
  <2>6. JobTrue(j, w, row[i], o, runtime[i], Intact)
    BY <1>11, <2>2, <2>3, <2>4, <2>5 DEF JobTrue, Working, Gone
  <2>. QED  BY <1>2, <1>3, <1>4, <1>5, <1>7, <1>9, <2>1, <2>6, WorkerJobs
<1>. QED  BY <1>9, <1>12, <1>13, <1>14 DEF TruthInv

-----------------------------------------------------------------------------
(* Steps of a worker with a job in hand.                                   *)

LEMMA JobKnown ==
  ASSUME TruthInv, NEW w \in Workers, wk[w].pc \notin IdlePcs
  PROVE  /\ Up(w) /\ wk[w].inst \in Instances /\ wk[w].inst # NoOne
         /\ wk[w] \in Jobs /\ wk[w].was \in Rows /\ wk[w].mem \in Rows
         /\ row[wk[w].inst] \in Rows /\ op[wk[w].inst] \in Ops
         /\ row[wk[w].inst].status # "none"
         /\ Entry(row[wk[w].inst], op[wk[w].inst], runtime[wk[w].inst], Intact)
         /\ row[wk[w].inst].status # "deleted" =>
              /\ Exists(wk[w].inst) /\ Holds(w)
              /\ RowTrue(row[wk[w].inst], runtime[wk[w].inst], Intact)
              /\ Matches(wk[w], op[wk[w].inst], w)
              /\ Working(wk[w], row[wk[w].inst], runtime[wk[w].inst], Intact)
         /\ row[wk[w].inst].status = "deleted" =>
              op[wk[w].inst].state = "none" /\ ~ Holds(w) /\ ~ Exists(wk[w].inst)
<1>1. IInv /\ wk[w] \in Jobs  BY DEF TruthInv, IInv, JobsOK
<1>2. Up(w) /\ wk[w].inst \in Instances  BY <1>1, JobFacts
<1>3. wk[w].inst # NoOne  BY <1>2, NoOneAssumption
<1>4. JobTrue(wk[w], w, row[wk[w].inst], op[wk[w].inst], runtime[wk[w].inst], Intact)
  BY <1>3 DEF TruthInv, JobsTrue
<1>5. Entry(row[wk[w].inst], op[wk[w].inst], runtime[wk[w].inst], Intact)
  BY <1>2 DEF TruthInv, EntriesTrue
<1>6. wk[w].was \in Rows /\ wk[w].mem \in Rows  BY <1>1 DEF Jobs
<1>7. row[wk[w].inst] \in Rows /\ op[wk[w].inst] \in Ops  BY <1>1, <1>2, RowKnown
<1>8. CASE row[wk[w].inst].status # "deleted"
  <2>1. Exists(wk[w].inst) /\ row[wk[w].inst].status \notin Gone
    BY <1>4, <1>8 DEF JobTrue, Exists, Gone
  <2>2. Matches(wk[w], op[wk[w].inst], w)
        /\ Working(wk[w], row[wk[w].inst], runtime[wk[w].inst], Intact)
    BY <1>4, <1>8 DEF JobTrue
  <2>3. Holds(w)  BY <1>2, <2>2 DEF Holds, Matches
  <2>4. RowTrue(row[wk[w].inst], runtime[wk[w].inst], Intact)  BY <1>5, <2>1 DEF Entry
  <2>. QED  BY <1>1, <1>2, <1>3, <1>4, <1>5, <1>6, <1>7, <1>8, <2>1, <2>2, <2>3, <2>4 DEF JobTrue
<1>9. CASE row[wk[w].inst].status = "deleted"
  <2>1. op[wk[w].inst].state = "none"  BY <1>5, <1>9 DEF Entry, Gone
  <2>. QED  BY <1>1, <1>2, <1>3, <1>5, <1>6, <1>7, <1>9, <2>1 DEF Holds, Exists
<1>. QED  BY <1>8, <1>9

\* A job whose row was deleted under it can do no more harm.
LEMMA DeletedStep ==
  ASSUME TruthInv, IInv', NEW w \in Workers, wk[w].pc \notin IdlePcs,
         row[wk[w].inst].status = "deleted", UNCHANGED <<row, op, rec>>, BudgetKept,
         \A k \in Instances : k # wk[w].inst => runtime'[k] = runtime[k],
         NEW j, wk' = [wk EXCEPT ![w] = j], j.inst \in {wk[w].inst, NoOne}, j.pc # "new"
  PROVE  TruthInv'
<1>1. IInv /\ ClaimsTrue /\ BudgetTrue /\ PassTrue  BY DEF TruthInv
<1>2. Up(w) /\ op[wk[w].inst].state = "none" /\ wk[w].inst \in Instances  BY JobKnown
<1>3. BudgetTrue' /\ (Intact' <=> Intact)  BY <1>1, IntactKept
<1>4. EntriesTrue'
  <2>. SUFFICES ASSUME NEW k \in Instances
                PROVE  Entry(row'[k], op'[k], runtime'[k], Intact')
    BY DEF EntriesTrue
  <2>1. Entry(row[k], op[k], runtime[k], Intact)  BY DEF TruthInv, EntriesTrue
  <2>2. CASE k = wk[w].inst
    BY <1>2, <2>2 DEF Entry, Gone, Transient, OpenStates
  <2>3. CASE k # wk[w].inst
    BY <1>3, <2>1, <2>3, EntryKept
  <2>. QED  BY <2>2, <2>3
<1>5. ClaimsTrue'
  <2>1. \A k \in Instances : op[k].state = "claimed" => op[k].by # w
    BY <1>1, <1>2 DEF ClaimsTrue
  <2>2. \A k \in Instances : op'[k].state = "claimed" =>
          op[k].state = "claimed" /\ op'[k].by = op[k].by
    OBVIOUS
  <2>. QED  BY <1>1, <1>2, <2>1, <2>2, FreeClaims
<1>6. JobsTrue'
  <2>1. JobTrue(j, w, row[wk[w].inst], op[wk[w].inst], runtime'[wk[w].inst], Intact')
    BY DEF JobTrue
  <2>. QED  BY <1>1, <1>2, <2>1, WorkerJobs
<1>7. PassTrue'  BY <1>1, PassKept
<1>. QED  BY <1>3, <1>4, <1>5, <1>6, <1>7 DEF TruthInv

\* A job whose row stands: what the step owes is the entry of its instance and
\* the state of the job.
LEMMA HeldStep ==
  ASSUME TruthInv, IInv', NEW w \in Workers, wk[w].pc \notin IdlePcs,
         row[wk[w].inst].status # "deleted", UNCHANGED rec, BudgetKept,
         \A k \in Instances : k # wk[w].inst =>
           row'[k] = row[k] /\ op'[k] = op[k] /\ runtime'[k] = runtime[k],
         row'[wk[w].inst].status \notin Gone,
         op'[wk[w].inst].state = "claimed" => op'[wk[w].inst].by = w,
         Entry(row'[wk[w].inst], op'[wk[w].inst], runtime'[wk[w].inst], Intact),
         NEW j, wk' = [wk EXCEPT ![w] = j], j.pc # "new",
         \/ j.inst = NoOne /\ op'[wk[w].inst].state # "claimed"
         \/ /\ j.inst = wk[w].inst
            /\ Matches(j, op'[wk[w].inst], w)
            /\ Working(j, row'[wk[w].inst], runtime'[wk[w].inst], Intact)
  PROVE  TruthInv'
<1>1. IInv /\ ClaimsTrue /\ BudgetTrue /\ PassTrue  BY DEF TruthInv
<1>2. Up(w) /\ wk[w].inst \in Instances /\ wk[w].inst # NoOne
      /\ Matches(wk[w], op[wk[w].inst], w) /\ row[wk[w].inst].status # "none"
  BY JobKnown
<1>3. BudgetTrue' /\ (Intact' <=> Intact)  BY <1>1, IntactKept
<1>4. EntriesTrue'
  <2>. SUFFICES ASSUME NEW k \in Instances
                PROVE  Entry(row'[k], op'[k], runtime'[k], Intact')
    BY DEF EntriesTrue
  <2>1. Entry(row[k], op[k], runtime[k], Intact)  BY DEF TruthInv, EntriesTrue
  <2>2. CASE k = wk[w].inst  BY <1>3, <2>2, EntryKept
  <2>3. CASE k # wk[w].inst  BY <1>3, <2>1, <2>3, EntryKept
  <2>. QED  BY <2>2, <2>3
<1>5. ClaimsTrue'
  <2>1. ASSUME NEW k \in Instances, op'[k].state = "claimed"
        PROVE  op[k].state = "claimed" /\ op'[k].by = op[k].by
    <3>1. CASE k = wk[w].inst  BY <1>2, <2>1, <3>1 DEF Matches
    <3>2. CASE k # wk[w].inst
      <4>1. op'[k] = op[k]  BY <3>2
      <4>. QED  BY <2>1, <4>1
    <3>. QED  BY <3>1, <3>2
  <2>2. ASSUME NEW k \in Instances, op'[k].state = "claimed", op'[k].by = w
        PROVE  j.inst = k
    <3>1. op[k].state = "claimed" /\ op[k].by = w  BY <2>1, <2>2
    <3>2. wk[w].inst = k  BY <1>1, <1>2, <3>1 DEF ClaimsTrue
    <3>. QED  BY <2>2, <3>2
  <2>3. \A k \in Instances : op'[k].state = "claimed" =>
          op[k].state = "claimed" /\ op'[k].by = op[k].by
    BY <2>1
  <2>4. \A k \in Instances : op'[k].state = "claimed" /\ op'[k].by = w =>
          j.inst = k \/ j.pc = "dead"
    BY <2>2
  <2>. QED  BY <1>1, <1>2, <2>3, <2>4, WorkerClaims
<1>6. JobsTrue'
  <2>1. j.inst # NoOne =>
          JobTrue(j, w, row'[j.inst], op'[j.inst], runtime'[j.inst], Intact')
    <3>. SUFFICES ASSUME j.inst # NoOne
                  PROVE  JobTrue(j, w, row'[j.inst], op'[j.inst], runtime'[j.inst], Intact')
      OBVIOUS
    <3>1. j.inst = wk[w].inst  OBVIOUS
    <3>2. Working(j, row'[j.inst], runtime'[j.inst], Intact')  BY <1>3, <3>1, WorkingKept
    <3>. QED  BY <3>1, <3>2 DEF JobTrue, Gone
  <2>. QED  BY <1>1, <1>2, <2>1, WorkerJobs
<1>7. PassTrue'
  <2>1. \A k \in Instances : /\ row[k].status # "none" => row'[k].status # "none"
                             /\ row[k].status = "deleted" => row'[k].status = "deleted"
    BY DEF Gone
  <2>. QED  BY <1>1, <2>1, PassKept
<1>. QED  BY <1>3, <1>4, <1>5, <1>6, <1>7 DEF TruthInv

\* The parts of a job that only a claim sets.
SameJob(j, k) == /\ j.inst = k.inst /\ j.id = k.id /\ j.kind = k.kind /\ j.origin = k.origin
                 /\ j.attempts = k.attempts /\ j.was = k.was

LEMMA SetPcJob ==
  ASSUME IInv, NEW w \in Workers, NEW pc, SetPc(w, pc)
  PROVE  \E j : /\ wk' = [wk EXCEPT ![w] = j] /\ SameJob(j, wk[w])
                /\ j.pc = pc /\ j.res = wk[w].res /\ j.mem = wk[w].mem
<1>. DEFINE j == [wk[w] EXCEPT !.pc = pc]
<1>1. wk[w] \in Jobs  BY DEF IInv, JobsOK
<1>2. SameJob(j, wk[w]) /\ j.pc = pc /\ j.res = wk[w].res /\ j.mem = wk[w].mem
  BY <1>1 DEF SameJob, Jobs
<1>3. wk' = [wk EXCEPT ![w] = j]  BY DEF SetPc
<1>. HIDE DEF j
<1>. QED  BY <1>2, <1>3

LEMMA EndJob ==
  ASSUME IInv, NEW w \in Workers, NEW res, NEW mem, End(w, res, mem)
  PROVE  \E j : /\ wk' = [wk EXCEPT ![w] = j] /\ SameJob(j, wk[w])
                /\ j.pc = "settle" /\ j.res = res /\ j.mem = mem
<1>. DEFINE j == [wk[w] EXCEPT !.pc = "settle", !.res = res, !.mem = mem]
<1>1. wk[w] \in Jobs  BY DEF IInv, JobsOK
<1>2. SameJob(j, wk[w]) /\ j.pc = "settle" /\ j.res = res /\ j.mem = mem
  BY <1>1 DEF SameJob, Jobs
<1>3. wk' = [wk EXCEPT ![w] = j]  BY DEF End
<1>. HIDE DEF j
<1>. QED  BY <1>2, <1>3

\* A step that leaves rows and operations alone: what it owes is the truth of
\* the row about the lab, and of the job.
LEMMA QuietStep ==
  ASSUME TruthInv, IInv', NEW w \in Workers, wk[w].pc \notin IdlePcs,
         UNCHANGED <<row, op, rec>>, BudgetKept,
         \A k \in Instances : k # wk[w].inst => runtime'[k] = runtime[k],
         NEW j, wk' = [wk EXCEPT ![w] = j], SameJob(j, wk[w]), j.pc # "new",
         row[wk[w].inst].status # "deleted" =>
           /\ RowTrue(row[wk[w].inst], runtime'[wk[w].inst], Intact)
           /\ Working(j, row[wk[w].inst], runtime'[wk[w].inst], Intact)
  PROVE  TruthInv'
<1>1. CASE row[wk[w].inst].status = "deleted"
  <2>1. j.inst \in {wk[w].inst, NoOne}  BY DEF SameJob
  <2>. QED  BY <1>1, <2>1, DeletedStep
<1>2. CASE row[wk[w].inst].status # "deleted"
  <2>1. /\ Matches(wk[w], op[wk[w].inst], w)
        /\ Entry(row[wk[w].inst], op[wk[w].inst], runtime[wk[w].inst], Intact)
        /\ row[wk[w].inst].status # "none"
    BY <1>2, JobKnown
  <2>2. Matches(j, op[wk[w].inst], w) /\ j.inst = wk[w].inst
    BY <2>1 DEF Matches, SameJob
  <2>3. Entry(row[wk[w].inst], op[wk[w].inst], runtime'[wk[w].inst], Intact)
    BY <1>2, <2>1 DEF Entry, Gone
  <2>4. row'[wk[w].inst].status \notin Gone  BY <1>2, <2>1 DEF Gone
  <2>5. op'[wk[w].inst].state = "claimed" => op'[wk[w].inst].by = w  BY <2>1 DEF Matches
  <2>. QED  BY <1>2, <2>2, <2>3, <2>4, <2>5, HeldStep
<1>. QED  BY <1>1, <1>2

LEMMA DropJob ==
  ASSUME NEW w, Drop(w)
  PROVE  \E j : wk' = [wk EXCEPT ![w] = j] /\ j.inst = NoOne /\ j.pc = "drain"
<1>1. NoJob("drain").inst = NoOne /\ NoJob("drain").pc = "drain"  BY DEF NoJob
<1>. QED  BY <1>1 DEF Drop

-----------------------------------------------------------------------------
(* The engine calls.                                                       *)

LEMMA RowFields ==
  ASSUME NEW m \in Rows
  PROVE  /\ Destroyed(m).status = "reaped" /\ Destroyed(m).presence = "absent"
         /\ ~ Destroyed(m).consoles
         /\ Deployed(m).status = "active" /\ Deployed(m).presence = "present"
         /\ MarkDestroying(m).status = m.status /\ MarkDestroying(m).presence = "unknown"
         /\ ~ MarkDestroying(m).consoles
<1>1. Destroyed(m).status = "reaped" /\ Destroyed(m).presence = "absent"
      /\ Destroyed(m).consoles = FALSE
  BY DEF Destroyed, Rows
<1>2. Deployed(m).status = "active" /\ Deployed(m).presence = "present"
  BY DEF Deployed, Rows
<1>3. MarkDestroying(m).status = m.status /\ MarkDestroying(m).presence = "unknown"
      /\ MarkDestroying(m).consoles = FALSE
  BY DEF MarkDestroying, Rows
<1>. QED  BY <1>1, <1>2, <1>3

LEMMA UnconfirmedFields ==
  ASSUME NEW m \in Rows, NEW base \in Rows, NEW u, u = Unconfirmed(m, base)
  PROVE  /\ u.presence = "unknown"
         /\ u.status = IF base.status \in Transient THEN "error" ELSE base.status
<1>1. CASE base.status \in Transient
  BY <1>1 DEF Unconfirmed, Rows
<1>2. CASE base.status \notin Transient
  BY <1>2 DEF Unconfirmed, Rows
<1>. QED  BY <1>1, <1>2

LEMMA RuntimeMoves ==
  ASSUME IInv, NEW i \in Instances
  PROVE  /\ UNCHANGED runtime => \A k \in Instances : runtime'[k] = runtime[k]
         /\ Stops(i) => ~ runtime'[i] /\ \A k \in Instances : k # i => runtime'[k] = runtime[k]
         /\ Runs(i) => runtime'[i] /\ \A k \in Instances : k # i => runtime'[k] = runtime[k]
BY DEF IInv, RestOK, Stops, Runs

LEMMA EngineFacts ==
  ASSUME NEW w, NEW pc, Engine(w, pc)
  PROVE  wk[w].pc = pc /\ UNCHANGED <<row, op, rec>> /\ BudgetKept
BY DEF Engine, BudgetKept

\* How a job ends: what the step owes is that the row still tells the truth
\* and that the outcome does.
LEMMA EndTrue ==
  ASSUME TruthInv, IInv', NEW w \in Workers, wk[w].pc \notin IdlePcs,
         UNCHANGED <<row, op, rec>>, BudgetKept,
         \A k \in Instances : k # wk[w].inst => runtime'[k] = runtime[k],
         NEW res \in {"ok", "fail", "lock"}, NEW mem, End(w, res, mem),
         row[wk[w].inst].status # "deleted" =>
           /\ RowTrue(row[wk[w].inst], runtime'[wk[w].inst], Intact)
           /\ res = "ok" /\ wk[w].kind # "check" =>
                /\ RowTrue(mem, runtime'[wk[w].inst], Intact)
                /\ mem.status \notin Transient \cup Gone
           /\ res = "fail" /\ wk[w].kind = "deploy" /\ mem.presence = "absent" =>
                ~ runtime'[wk[w].inst]
           /\ res = "lock" /\ ~ Ordinary(wk[w]) =>
                RowTrue(wk[w].was, runtime'[wk[w].inst], Intact)
  PROVE  TruthInv'
<1>. DEFINE i == wk[w].inst
<1>1. PICK j : /\ wk' = [wk EXCEPT ![w] = j] /\ SameJob(j, wk[w])
               /\ j.pc = "settle" /\ j.res = res /\ j.mem = mem
  BY EndJob DEF TruthInv
<1>2. ASSUME row[i].status # "deleted"
      PROVE  Working(j, row[i], runtime'[i], Intact)
  <2>1. Working(wk[w], row[i], runtime[i], Intact)  BY <1>2, JobKnown
  <2>2. PcFits(j)  BY <1>1, <2>1 DEF PcFits, DeployPcs, SameJob, Ordinary
  <2>3. Remembers(j, row[i], runtime'[i], Intact)
    BY <1>1, <1>2, <2>1 DEF Working, Remembers, SameJob, Ordinary
  <2>4. Established(j, row[i], runtime'[i], Intact)
    BY <1>1, <1>2 DEF Established, HeldPcs, SameJob
  <2>. QED  BY <2>2, <2>3, <2>4 DEF Working
<1>3. row[i].status # "deleted" => RowTrue(row[i], runtime'[i], Intact)  OBVIOUS
<1>4. j.pc # "new"  BY <1>1
<1>. QED  BY <1>1, <1>2, <1>3, <1>4, QuietStep

LEMMA KillOldTrue ==
  ASSUME TruthInv, IInv', NEW w \in Workers, KillOld(w)
  PROVE  TruthInv'
<1>. DEFINE m == [wk[w].mem EXCEPT !.status = "active", !.presence = "unknown", !.error = TRUE]
            i == wk[w].inst
<1>1. wk[w].pc = "kill" /\ UNCHANGED <<row, op, rec>> /\ BudgetKept
  BY EngineFacts DEF KillOld
<1>2. wk[w].pc \notin IdlePcs /\ IInv  BY <1>1 DEF IdlePcs, TruthInv
<1>3. i \in Instances /\ wk[w].mem \in Rows  BY <1>2, JobKnown
<1>4. m.presence = "unknown"  BY <1>3 DEF Rows
<1>5. \/ Stops(i) /\ SetPc(w, "killed")
      \/ (Stops(i) \/ UNCHANGED runtime) /\ End(w, "fail", m)
  BY DEF KillOld
<1>. HIDE DEF m
<1>6. \A k \in Instances : k # i => runtime'[k] = runtime[k]
  BY <1>2, <1>3, <1>5, RuntimeMoves
<1>7. ASSUME row[i].status # "deleted"
      PROVE  /\ RowTrue(row[i], runtime[i], Intact)
             /\ Working(wk[w], row[i], runtime[i], Intact)
             /\ row[i].presence = "unknown" /\ row[i].status \in Transient
             /\ wk[w].kind = "deploy" /\ wk[w].origin # "runtime_repair"
  <2>1. RowTrue(row[i], runtime[i], Intact) /\ Working(wk[w], row[i], runtime[i], Intact)
    BY <1>2, <1>7, JobKnown
  <2>. QED  BY <1>1, <2>1 DEF Working, PcFits, Established, HeldPcs, DeployPcs
<1>8. row[i].status # "deleted" => RowTrue(row[i], runtime'[i], Intact)
  BY <1>7 DEF RowTrue, Transient
<1>9. CASE Stops(i) /\ SetPc(w, "killed")
  <2>1. PICK j : /\ wk' = [wk EXCEPT ![w] = j] /\ SameJob(j, wk[w])
                 /\ j.pc = "killed" /\ j.res = wk[w].res /\ j.mem = wk[w].mem
    BY <1>9, SetPcJob DEF TruthInv
  <2>2. ~ runtime'[i]  BY <1>2, <1>3, <1>9, RuntimeMoves
  <2>3. row[i].status # "deleted" => Working(j, row[i], runtime'[i], Intact)
    BY <1>1, <1>7, <2>1, <2>2
    DEF Working, PcFits, Remembers, Established, HeldPcs, DeployPcs, Ordinary, SameJob
  <2>. QED  BY <1>1, <1>2, <1>6, <1>8, <2>1, <2>3, QuietStep
<1>10. CASE End(w, "fail", m)
  BY <1>1, <1>2, <1>4, <1>6, <1>8, <1>10, EndTrue
<1>. QED  BY <1>5, <1>9, <1>10

LEMMA AfterDestroyTrue ==
  ASSUME TruthInv, IInv', NEW w \in Workers, AfterDestroy(w)
  PROVE  TruthInv'
<1>1. /\ wk[w].pc = "killed" /\ wk[w].pc \notin IdlePcs /\ IInv
      /\ SetPc(w, "deploy") /\ UNCHANGED <<row, op, runtime, rec>> /\ BudgetKept
  BY DEF AfterDestroy, IdlePcs, TruthInv, BudgetKept
<1>2. PICK j : /\ wk' = [wk EXCEPT ![w] = j] /\ SameJob(j, wk[w])
               /\ j.pc = "deploy" /\ j.res = wk[w].res /\ j.mem = wk[w].mem
  BY <1>1, SetPcJob DEF TruthInv
<1>3. ASSUME row[wk[w].inst].status # "deleted"
      PROVE  /\ RowTrue(row[wk[w].inst], runtime[wk[w].inst], Intact)
             /\ Working(j, row[wk[w].inst], runtime[wk[w].inst], Intact)
  <2>1. RowTrue(row[wk[w].inst], runtime[wk[w].inst], Intact)
        /\ Working(wk[w], row[wk[w].inst], runtime[wk[w].inst], Intact)
    BY <1>1, <1>3, JobKnown
  <2>2. Working(j, row[wk[w].inst], runtime[wk[w].inst], Intact)
    BY <1>1, <1>2, <2>1
    DEF Working, PcFits, Remembers, Established, HeldPcs, DeployPcs, Ordinary, SameJob
  <2>. QED  BY <2>1, <2>2
<1>. QED  BY <1>1, <1>2, <1>3, QuietStep

LEMMA ProvisionTrue ==
  ASSUME TruthInv, IInv', NEW w \in Workers, Provision(w)
  PROVE  TruthInv'
<1>. DEFINE a == [wk[w].mem EXCEPT !.status = "error", !.error = TRUE, !.presence = "absent"]
            u == [wk[w].mem EXCEPT !.status = "active", !.error = TRUE, !.presence = "unknown"]
            d == Deployed(wk[w].mem)
            i == wk[w].inst
<1>1. wk[w].pc = "deploy" /\ UNCHANGED <<row, op, rec>> /\ BudgetKept
  BY EngineFacts DEF Provision
<1>2. wk[w].pc \notin IdlePcs /\ IInv  BY <1>1 DEF IdlePcs, TruthInv
<1>3. i \in Instances /\ wk[w].mem \in Rows  BY <1>2, JobKnown
<1>4. u.presence = "unknown" /\ d.status = "active"
  BY <1>3, RowFields DEF Rows
<1>5. \/ End(w, "fail", a) /\ UNCHANGED runtime
      \/ Runs(i) /\ End(w, "ok", d)
      \/ (Runs(i) \/ UNCHANGED runtime) /\ End(w, "fail", u)
  BY DEF Provision
<1>. HIDE DEF a, u, d
<1>6. \A k \in Instances : k # i => runtime'[k] = runtime[k]
  BY <1>2, <1>3, <1>5, RuntimeMoves
<1>7. ASSUME row[i].status # "deleted"
      PROVE  /\ RowTrue(row[i], runtime[i], Intact)
             /\ Working(wk[w], row[i], runtime[i], Intact)
             /\ row[i].presence = "unknown" /\ row[i].status \in Transient
             /\ wk[w].kind = "deploy" /\ wk[w].origin # "runtime_repair"
             /\ ~ runtime[i]
  <2>1. RowTrue(row[i], runtime[i], Intact) /\ Working(wk[w], row[i], runtime[i], Intact)
    BY <1>2, <1>7, JobKnown
  <2>. QED  BY <1>1, <2>1 DEF Working, PcFits, Established, HeldPcs, DeployPcs
<1>8. row[i].status # "deleted" => RowTrue(row[i], runtime'[i], Intact)
  BY <1>7 DEF RowTrue, Transient
<1>9. CASE End(w, "fail", a) /\ UNCHANGED runtime
  BY <1>1, <1>2, <1>6, <1>7, <1>8, <1>9, EndTrue
<1>10. CASE Runs(i) /\ End(w, "ok", d)
  <2>1. runtime'[i] /\ d.presence = "present"  BY <1>2, <1>3, <1>10, RuntimeMoves, RowFields DEF d
  <2>2. RowTrue(d, runtime'[i], Intact) /\ d.status \notin Transient \cup Gone
    BY <1>4, <2>1 DEF RowTrue, Transient, Gone
  <2>. QED  BY <1>1, <1>2, <1>6, <1>8, <1>10, <2>2, EndTrue
<1>11. CASE End(w, "fail", u)
  BY <1>1, <1>2, <1>4, <1>6, <1>8, <1>11, EndTrue
<1>. QED  BY <1>5, <1>9, <1>10, <1>11

LEMMA ProvisionIfAbsentTrue ==
  ASSUME TruthInv, IInv', NEW w \in Workers, ProvisionIfAbsent(w)
  PROVE  TruthInv'
<1>. DEFINE d == Deployed(wk[w].mem)
            i == wk[w].inst
<1>1. wk[w].pc = "ifabsent" /\ UNCHANGED <<row, op, rec>> /\ BudgetKept
  BY EngineFacts DEF ProvisionIfAbsent
<1>2. wk[w].pc \notin IdlePcs /\ IInv  BY <1>1 DEF IdlePcs, TruthInv
<1>3. i \in Instances /\ wk[w].mem \in Rows  BY <1>2, JobKnown
<1>4. d.status = "active" /\ d.presence = "present"  BY <1>3, RowFields
<1>5. \/ SetPc(w, "confirm") /\ UNCHANGED runtime
      \/ Runs(i) /\ End(w, "ok", d)
      \/ (Runs(i) \/ UNCHANGED runtime) /\ End(w, "fail", wk[w].mem)
  BY DEF ProvisionIfAbsent
<1>. HIDE DEF d
<1>6. \A k \in Instances : k # i => runtime'[k] = runtime[k]
  BY <1>2, <1>3, <1>5, RuntimeMoves
<1>7. ASSUME row[i].status # "deleted"
      PROVE  /\ RowTrue(row[i], runtime[i], Intact)
             /\ Working(wk[w], row[i], runtime[i], Intact)
             /\ row[i].presence = "unknown" /\ row[i].status \in Transient
             /\ wk[w].mem.presence = "unknown"
             /\ wk[w].kind = "deploy" /\ wk[w].origin = "runtime_repair"
  <2>1. RowTrue(row[i], runtime[i], Intact) /\ Working(wk[w], row[i], runtime[i], Intact)
    BY <1>2, <1>7, JobKnown
  <2>. QED  BY <1>1, <2>1 DEF Working, PcFits, Established, HeldPcs, DeployPcs, Ordinary
<1>8. row[i].status # "deleted" => RowTrue(row[i], runtime'[i], Intact)
  BY <1>7 DEF RowTrue, Transient
<1>9. CASE SetPc(w, "confirm") /\ UNCHANGED runtime
  <2>1. PICK j : /\ wk' = [wk EXCEPT ![w] = j] /\ SameJob(j, wk[w])
                 /\ j.pc = "confirm" /\ j.res = wk[w].res /\ j.mem = wk[w].mem
    BY <1>9, SetPcJob DEF TruthInv
  <2>2. row[i].status # "deleted" => Working(j, row[i], runtime'[i], Intact)
    BY <1>1, <1>7, <1>9, <2>1
    DEF Working, PcFits, Remembers, Established, HeldPcs, DeployPcs, Ordinary, SameJob
  <2>. QED  BY <1>1, <1>2, <1>6, <1>8, <2>1, <2>2, QuietStep
<1>10. CASE Runs(i) /\ End(w, "ok", d)
  <2>1. runtime'[i]  BY <1>2, <1>3, <1>10, RuntimeMoves
  <2>2. RowTrue(d, runtime'[i], Intact) /\ d.status \notin Transient \cup Gone
    BY <1>4, <2>1 DEF RowTrue, Transient, Gone
  <2>. QED  BY <1>1, <1>2, <1>6, <1>8, <1>10, <2>2, EndTrue
<1>11. CASE End(w, "fail", wk[w].mem)
  BY <1>1, <1>2, <1>6, <1>7, <1>8, <1>11, EndTrue
<1>. QED  BY <1>5, <1>9, <1>10, <1>11

\* An inspection that finds no handle claims nothing about the lab.
LEMMA InspectTrue ==
  ASSUME TruthInv, IInv', NEW w \in Workers, NEW pc \in {"confirm", "resync"},
         InspectAndRebuild(w, pc)
  PROVE  TruthInv'
<1>. DEFINE d == Deployed(wk[w].mem)
            u == Unconfirmed(wk[w].mem, wk[w].was)
            i == wk[w].inst
<1>1. wk[w].pc = pc /\ UNCHANGED <<row, op, rec>> /\ BudgetKept
  BY EngineFacts DEF InspectAndRebuild
<1>2. wk[w].pc \notin IdlePcs /\ IInv  BY <1>1 DEF IdlePcs, TruthInv
<1>3. i \in Instances /\ wk[w].mem \in Rows /\ wk[w].was \in Rows  BY <1>2, JobKnown
<1>4. /\ d.status = "active" /\ d.presence = "present"
      /\ u.presence = "unknown"
      /\ u.status = IF wk[w].was.status \in Transient THEN "error" ELSE wk[w].was.status
  BY <1>3, RowFields, UnconfirmedFields
<1>5. /\ UNCHANGED runtime
      /\ \/ runtime[i] /\ End(w, "ok", d)
         \/ End(w, "ok", u)
         \/ End(w, "fail", wk[w].mem)
  BY DEF InspectAndRebuild
<1>. HIDE DEF d, u
<1>6. \A k \in Instances : k # i => runtime'[k] = runtime[k]  BY <1>5
<1>7. ASSUME row[i].status # "deleted"
      PROVE  /\ RowTrue(row[i], runtime[i], Intact)
             /\ wk[w].mem.presence = "absent" => ~ runtime[i]
             /\ wk[w].was.status \notin Gone \cup {"reaped"}
  <2>1. RowTrue(row[i], runtime[i], Intact) /\ Working(wk[w], row[i], runtime[i], Intact)
    BY <1>2, <1>7, JobKnown
  <2>2. wk[w].kind = "deploy" /\ wk[w].origin = "runtime_repair"
    BY <1>1, <2>1 DEF Working, PcFits, DeployPcs, Ordinary
  <2>3. wk[w].was.status \notin Gone \cup {"reaped"}
    BY <2>1, <2>2 DEF Working, Remembers
  <2>4. CASE pc = "confirm"
    BY <1>1, <2>1, <2>3, <2>4 DEF Working, Established, HeldPcs
  <2>5. CASE pc = "resync"
    BY <1>1, <2>1, <2>2, <2>3, <2>5
    DEF Working, PcFits, Remembers, HeldPcs, RowTrue, Ordinary
  <2>. QED  BY <2>4, <2>5
<1>8. row[i].status # "deleted" => RowTrue(row[i], runtime'[i], Intact)  BY <1>5, <1>7
<1>9. CASE runtime[i] /\ End(w, "ok", d)
  <2>1. RowTrue(d, runtime'[i], Intact) /\ d.status \notin Transient \cup Gone
    BY <1>4, <1>5, <1>9 DEF RowTrue, Transient, Gone
  <2>. QED  BY <1>1, <1>2, <1>6, <1>8, <1>9, <2>1, EndTrue
<1>10. CASE End(w, "ok", u)
  <2>1. row[i].status # "deleted" =>
          RowTrue(u, runtime'[i], Intact) /\ u.status \notin Transient \cup Gone
    BY <1>4, <1>7 DEF RowTrue, Transient, Gone
  <2>. QED  BY <1>1, <1>2, <1>6, <1>8, <1>10, <2>1, EndTrue
<1>11. CASE End(w, "fail", wk[w].mem)
  BY <1>1, <1>2, <1>5, <1>6, <1>7, <1>8, <1>11, EndTrue
<1>. QED  BY <1>5, <1>9, <1>10, <1>11

LEMMA DestroyLabTrue ==
  ASSUME TruthInv, IInv', NEW w \in Workers, DestroyLab(w)
  PROVE  TruthInv'
<1>. DEFINE d == Destroyed(wk[w].mem)
            i == wk[w].inst
<1>1. wk[w].pc = "destroy" /\ UNCHANGED <<row, op, rec>> /\ BudgetKept
  BY EngineFacts DEF DestroyLab
<1>2. wk[w].pc \notin IdlePcs /\ IInv  BY <1>1 DEF IdlePcs, TruthInv
<1>3. i \in Instances /\ wk[w].mem \in Rows  BY <1>2, JobKnown
<1>4. d.status = "reaped" /\ d.presence = "absent" /\ ~ d.consoles  BY <1>3, RowFields
<1>5. \/ Stops(i) /\ End(w, "ok", d)
      \/ (Stops(i) \/ UNCHANGED runtime) /\ End(w, "fail", wk[w].mem)
  BY DEF DestroyLab
<1>. HIDE DEF d
<1>6. \A k \in Instances : k # i => runtime'[k] = runtime[k]
  BY <1>2, <1>3, <1>5, RuntimeMoves
<1>7. ASSUME row[i].status # "deleted"
      PROVE  /\ RowTrue(row[i], runtime[i], Intact)
             /\ row[i].presence = "unknown" /\ wk[w].kind = "destroy"
  <2>1. RowTrue(row[i], runtime[i], Intact) /\ Working(wk[w], row[i], runtime[i], Intact)
    BY <1>2, <1>7, JobKnown
  <2>. QED  BY <1>1, <2>1 DEF Working, PcFits, Established
<1>8. (Stops(i) => ~ runtime'[i]) /\ (UNCHANGED runtime => runtime'[i] = runtime[i])
  BY <1>2, <1>3, RuntimeMoves
<1>9. row[i].status # "deleted" => RowTrue(row[i], runtime'[i], Intact)
  BY <1>5, <1>7, <1>8 DEF RowTrue
<1>10. CASE Stops(i) /\ End(w, "ok", d)
  <2>1. RowTrue(d, runtime'[i], Intact) /\ d.status \notin Transient \cup Gone
    BY <1>4, <1>8, <1>10 DEF RowTrue, Transient, Gone
  <2>. QED  BY <1>1, <1>2, <1>6, <1>9, <1>10, <2>1, EndTrue
<1>11. CASE End(w, "fail", wk[w].mem)
  BY <1>1, <1>2, <1>6, <1>7, <1>9, <1>11, EndTrue
<1>. QED  BY <1>5, <1>10, <1>11

\* Without stalls no row is found wrong that has no open operation, so there
\* is no conditional cleanup to run.
LEMMA DestroyIfPresentTrue ==
  ASSUME TruthInv, IInv', NEW w \in Workers, DestroyIfPresent(w)
  PROVE  TruthInv'
<1>. DEFINE g == [wk[w].mem EXCEPT !.presence = "absent"]
            i == wk[w].inst
<1>1. wk[w].pc = "ifpresent" /\ UNCHANGED <<row, op, rec>> /\ BudgetKept
  BY EngineFacts DEF DestroyIfPresent
<1>2. wk[w].pc \notin IdlePcs /\ IInv  BY <1>1 DEF IdlePcs, TruthInv
<1>3. i \in Instances  BY <1>2, JobKnown
<1>4. row[i].status = "deleted"
  <2>. SUFFICES ASSUME row[i].status # "deleted" PROVE FALSE  OBVIOUS
  <2>1. /\ Matches(wk[w], op[i], w) /\ Working(wk[w], row[i], runtime[i], Intact)
        /\ Entry(row[i], op[i], runtime[i], Intact)
    BY <1>2, JobKnown
  <2>. QED  BY <1>1, <2>1 DEF Matches, Working, PcFits, Entry, OpenStates
<1>5. \A k \in Instances : k # i => runtime'[k] = runtime[k]
  BY <1>2, <1>3, RuntimeMoves DEF DestroyIfPresent
<1>6. PICK res, mem : res \in {"ok", "fail"} /\ End(w, res, mem)
  <2>1. End(w, "ok", g) \/ End(w, "ok", Destroyed(wk[w].mem)) \/ End(w, "fail", wk[w].mem)
    BY DEF DestroyIfPresent
  <2>. QED  BY <2>1
<1>. QED  BY <1>1, <1>2, <1>4, <1>5, <1>6, EndTrue

LEMMA RunChecksTrue ==
  ASSUME TruthInv, IInv', NEW w \in Workers, RunChecks(w)
  PROVE  TruthInv'
<1>1. wk[w].pc = "check" /\ UNCHANGED <<row, op, rec, runtime>> /\ BudgetKept
  BY EngineFacts DEF RunChecks
<1>2. wk[w].pc \notin IdlePcs  BY <1>1 DEF IdlePcs
<1>3. PICK res : res \in {"ok", "fail"} /\ End(w, res, wk[w].mem)  BY DEF RunChecks
<1>4. row[wk[w].inst].status # "deleted" =>
        RowTrue(row[wk[w].inst], runtime'[wk[w].inst], Intact) /\ wk[w].kind = "check"
  BY <1>1, <1>2, JobKnown DEF Working, PcFits
<1>. QED  BY <1>1, <1>2, <1>3, <1>4, EndTrue

LEMMA LockBusyTrue ==
  ASSUME TruthInv, IInv', NEW w \in Workers, LockBusy(w)
  PROVE  TruthInv'
<1>1. /\ wk[w].pc \in EnginePcs /\ UNCHANGED <<row, op, rec, runtime>>
      /\ Spend("contention") /\ End(w, "lock", wk[w].mem)
  BY DEF LockBusy
<1>2. wk[w].pc \notin IdlePcs  BY <1>1 DEF IdlePcs, EnginePcs
<1>3. BudgetKept  BY <1>1 DEF Spend, BudgetKept, TruthInv, IInv, RestOK, Faults
<1>4. row[wk[w].inst].status # "deleted" =>
        /\ RowTrue(row[wk[w].inst], runtime'[wk[w].inst], Intact)
        /\ ~ Ordinary(wk[w]) => RowTrue(wk[w].was, runtime'[wk[w].inst], Intact)
  <2>. SUFFICES ASSUME row[wk[w].inst].status # "deleted"
                PROVE  /\ RowTrue(row[wk[w].inst], runtime[wk[w].inst], Intact)
                       /\ ~ Ordinary(wk[w]) => RowTrue(wk[w].was, runtime[wk[w].inst], Intact)
    BY <1>1
  <2>1. /\ RowTrue(row[wk[w].inst], runtime[wk[w].inst], Intact)
        /\ Working(wk[w], row[wk[w].inst], runtime[wk[w].inst], Intact)
    BY <1>2, JobKnown
  <2>2. wk[w].res = "none"
    <3>1. wk[w].pc # "settle"  BY <1>1 DEF EnginePcs
    <3>. QED  BY <2>1, <3>1 DEF Working, PcFits
  <2>. QED  BY <2>1, <2>2 DEF Working, Remembers
<1>. QED  BY <1>1, <1>2, <1>3, <1>4, EndTrue

-----------------------------------------------------------------------------
(* The worker between engine calls, and settlement.                        *)

LEMMA StaleTrue ==
  ASSUME TruthInv, IInv', NEW w \in Workers, Stale(w)
  PROVE  TruthInv'
<1>1. /\ wk[w].pc \notin IdlePcs /\ (~ Holds(w) \/ ~ Exists(wk[w].inst))
      /\ Drop(w) /\ UNCHANGED <<row, op, runtime, rec>> /\ BudgetKept
  BY DEF Stale, IdlePcs, SettleFence, BudgetKept
<1>2. row[wk[w].inst].status = "deleted"  BY <1>1, JobKnown
<1>3. PICK j : wk' = [wk EXCEPT ![w] = j] /\ j.inst = NoOne /\ j.pc = "drain"
  BY <1>1, DropJob
<1>. QED  BY <1>1, <1>2, <1>3, DeletedStep

LEMMA BeginWorkTrue ==
  ASSUME TruthInv, IInv', NEW w \in Workers, BeginWork(w)
  PROVE  TruthInv'
<1>. DEFINE i == wk[w].inst
<1>1. /\ wk[w].pc = "start" /\ wk[w].pc \notin IdlePcs /\ Holds(w) /\ IInv
      /\ UNCHANGED <<op, runtime, rec>> /\ BudgetKept
  BY DEF BeginWork, IdlePcs, TruthInv, BudgetKept
<1>2. /\ row[i].status # "deleted" /\ row[i].status # "none"
      /\ RowTrue(row[i], runtime[i], Intact) /\ Working(wk[w], row[i], runtime[i], Intact)
      /\ Matches(wk[w], op[i], w) /\ Entry(row[i], op[i], runtime[i], Intact)
      /\ i \in Instances /\ row[i] \in Rows
  BY <1>1, JobKnown
<1>3. /\ ~ Ordinary(wk[w]) /\ wk[w].origin # "runtime_cleanup" /\ wk[w].res = "none"
      /\ wk[w].mem = wk[w].was /\ row[i] = wk[w].was
      /\ wk[w].kind \in Kinds
  BY <1>1, <1>2, JobFacts
  DEF Working, PcFits, Remembers, HeldPcs, Matches, Entry, OpenStates
<1>4. ASSUME UNCHANGED row, NEW pc \in {"resync", "admit", "check"}, SetPc(w, pc),
             pc = "check" <=> wk[w].kind = "check",
             pc # "check" => wk[w].kind = "deploy"
      PROVE  TruthInv'
  <2>1. PICK j : /\ wk' = [wk EXCEPT ![w] = j] /\ SameJob(j, wk[w])
                 /\ j.pc = pc /\ j.res = wk[w].res /\ j.mem = wk[w].mem
    BY <1>4, SetPcJob DEF TruthInv
  <2>2. PcFits(j)
    BY <1>1, <1>2, <1>3, <1>4, <2>1 DEF Working, PcFits, DeployPcs, Ordinary, SameJob
  <2>3. Remembers(j, row[i], runtime[i], Intact)
    BY <1>1, <1>2, <1>3, <1>4, <2>1 DEF Working, Remembers, HeldPcs, Ordinary, SameJob
  <2>4. Established(j, row[i], runtime[i], Intact)
    BY <1>3, <1>4, <2>1 DEF Established, HeldPcs
  <2>5. Working(j, row[i], runtime[i], Intact)  BY <2>2, <2>3, <2>4 DEF Working
  <2>6. j.pc # "new"  BY <1>4, <2>1
  <2>. QED  BY <1>1, <1>2, <1>4, <2>1, <2>5, <2>6, QuietStep
<1>5. ASSUME UNCHANGED row, End(w, "fail", wk[w].mem)
      PROVE  TruthInv'
  <2>1. wk[w].mem.presence = "absent" => ~ runtime[i]  BY <1>2, <1>3 DEF RowTrue
  <2>. QED  BY <1>1, <1>2, <1>5, <2>1, EndTrue
<1>6. CASE wk[w].kind = "destroy"
  <2>. DEFINE r == MarkDestroying(row[i])
  <2>1. row' = [row EXCEPT ![i] = r] /\ SetPc(w, "destroy")
    BY <1>3, <1>6 DEF BeginWork
  <2>2. r.status = row[i].status /\ r.presence = "unknown" /\ ~ r.consoles
    BY <1>2, RowFields
  <2>. HIDE DEF r
  <2>3. PICK j : /\ wk' = [wk EXCEPT ![w] = j] /\ SameJob(j, wk[w])
                 /\ j.pc = "destroy" /\ j.res = wk[w].res /\ j.mem = wk[w].mem
    BY <2>1, SetPcJob DEF TruthInv
  <2>4. row'[i] = r /\ \A k \in Instances : k # i => row'[k] = row[k]
    BY <1>1, <1>2, <2>1 DEF IInv, RowsOK
  <2>5. RowTrue(r, runtime[i], Intact)  BY <1>2, <2>2 DEF RowTrue
  <2>6. Entry(r, op[i], runtime[i], Intact)
    BY <1>2, <2>2, <2>5 DEF Entry
  <2>7. PcFits(j)
    BY <1>3, <1>6, <2>3 DEF PcFits, DeployPcs, Ordinary, SameJob
  <2>8. Remembers(j, r, runtime[i], Intact)
    BY <1>1, <1>2, <1>3, <1>6, <2>2, <2>3 DEF Working, Remembers, HeldPcs, Ordinary, SameJob
  <2>9. Established(j, r, runtime[i], Intact)
    BY <1>3, <1>6, <2>2, <2>3 DEF Established, HeldPcs
  <2>10. Working(j, r, runtime[i], Intact)  BY <2>7, <2>8, <2>9 DEF Working
  <2>11. Matches(j, op[i], w) /\ j.inst = i  BY <1>2, <2>3 DEF Matches, SameJob
  <2>12. r.status \notin Gone  BY <1>2, <2>2 DEF Gone
  <2>13. j.pc # "new" /\ (op[i].state = "claimed" => op[i].by = w)
    BY <1>2, <2>3 DEF Matches
  <2>. QED
    BY <1>1, <1>2, <2>3, <2>4, <2>6, <2>10, <2>11, <2>12, <2>13, HeldStep
<1>7. CASE wk[w].kind = "deploy"
  BY <1>4, <1>5, <1>7 DEF BeginWork
<1>8. CASE wk[w].kind = "check"
  BY <1>4, <1>5, <1>8 DEF BeginWork
<1>. QED  BY <1>3, <1>6, <1>7, <1>8 DEF Kinds

\* A reservation makes the row provisioning or resetting, its lab unknown.
LEMMA ReserveTrue ==
  ASSUME TruthInv, IInv', NEW w \in Workers, Reserve(w)
  PROVE  TruthInv'
<1>. DEFINE i == wk[w].inst
            s == Written(wk[w].was.status, ReservedStatus(wk[w].was.status), row[i].status)
            p == Written(wk[w].was.presence, "unknown", row[i].presence)
            r == [row[i] EXCEPT !.status = s, !.presence = p]
<1>1. /\ wk[w].pc = "admit" /\ wk[w].pc \notin IdlePcs /\ Exists(i) /\ IInv
      /\ UNCHANGED <<op, runtime, rec>> /\ BudgetKept /\ SetPc(w, "reserved")
      /\ row' = [row EXCEPT ![i].status = s, ![i].presence = p]
  BY DEF Reserve, IdlePcs, TruthInv, BudgetKept
<1>2. row[i].status # "deleted"  BY <1>1 DEF Exists
<1>3. /\ row[i].status # "none"
      /\ Working(wk[w], row[i], runtime[i], Intact)
      /\ Matches(wk[w], op[i], w) /\ Entry(row[i], op[i], runtime[i], Intact)
      /\ i \in Instances /\ row[i] \in Rows
  BY <1>1, <1>2, JobKnown
<1>4. wk[w].kind = "deploy" /\ row[i] = wk[w].was /\ wk[w].res = "none"
  BY <1>1, <1>3 DEF Working, PcFits, Remembers, DeployPcs
<1>5. s \in {"provisioning", "resetting"} /\ p = "unknown"
  BY <1>4 DEF Written, ReservedStatus
<1>6. row' = [row EXCEPT ![i] = r]  BY <1>1, <1>3 DEF IInv, RowsOK
<1>7. r.status = s /\ r.presence = p  BY <1>3 DEF Rows
<1>. HIDE DEF s, p, r
<1>8. PICK j : /\ wk' = [wk EXCEPT ![w] = j] /\ SameJob(j, wk[w])
               /\ j.pc = "reserved" /\ j.res = wk[w].res /\ j.mem = wk[w].mem
  BY <1>1, SetPcJob DEF TruthInv
<1>9. row'[i] = r /\ \A k \in Instances : k # i => row'[k] = row[k]
  BY <1>1, <1>3, <1>6 DEF IInv, RowsOK
<1>10. r.status \in Transient /\ r.status \notin Gone /\ r.presence = "unknown"
  BY <1>5, <1>7 DEF Transient, Gone
<1>11. Entry(r, op[i], runtime[i], Intact)
  BY <1>3, <1>4, <1>10 DEF Entry, RowTrue, Matches, OpenStates, Transient
<1>12. Working(j, r, runtime[i], Intact)
  <2>1. PcFits(j)
    BY <1>1, <1>3, <1>4, <1>8 DEF Working, PcFits, DeployPcs, Ordinary, SameJob
  <2>2. Remembers(j, r, runtime[i], Intact)
    BY <1>1, <1>3, <1>4, <1>8 DEF Working, Remembers, HeldPcs, Ordinary, SameJob
  <2>3. Established(j, r, runtime[i], Intact)
    BY <1>4, <1>8, <1>10 DEF Established, HeldPcs
  <2>. QED  BY <2>1, <2>2, <2>3 DEF Working
<1>13. Matches(j, op[i], w) /\ j.inst = i  BY <1>3, <1>8 DEF Matches, SameJob
<1>14. j.pc # "new" /\ (op[i].state = "claimed" => op[i].by = w)
  BY <1>3, <1>8 DEF Matches
<1>. QED
  BY <1>1, <1>2, <1>8, <1>9, <1>10, <1>11, <1>12, <1>13, <1>14, HeldStep

\* A deferred deploy has observed that its lab is absent, and still holds its
\* claim, so the unfenced write hits the operation it was made for.
LEMMA DeferForCapacityTrue ==
  ASSUME TruthInv, IInv', NEW w \in Workers, DeferForCapacity(w)
  PROVE  TruthInv'
<1>. DEFINE i == wk[w].inst
            s == Written(wk[w].was.status, "queued", row[i].status)
            r == [row[i] EXCEPT !.status = s]
            o == [id |-> wk[w].id, state |-> "queued", kind |-> wk[w].kind,
                  origin |-> wk[w].origin, by |-> NoOne,
                  attempts |-> wk[w].attempts - 1, ready |-> FALSE]
<1>1. /\ wk[w].pc = "admit" /\ wk[w].pc \notin IdlePcs /\ Exists(i) /\ IInv
      /\ ~ HasCapacity(w) /\ Drop(w)
      /\ UNCHANGED <<runtime, rec>> /\ BudgetKept
  BY DEF DeferForCapacity, IdlePcs, TruthInv, BudgetKept
<1>2. row[i].status # "deleted"  BY <1>1 DEF Exists
<1>3. /\ row[i].status # "none"
      /\ Working(wk[w], row[i], runtime[i], Intact)
      /\ Matches(wk[w], op[i], w) /\ Entry(row[i], op[i], runtime[i], Intact)
      /\ RowTrue(row[i], runtime[i], Intact)
      /\ i \in Instances /\ row[i] \in Rows /\ op[i].id = wk[w].id
  BY <1>1, <1>2, JobKnown DEF Matches
<1>4. /\ row' = [row EXCEPT ![i].status = s] /\ op' = [op EXCEPT ![i] = o]
  BY <1>3 DEF DeferForCapacity
<1>5. wk[w].kind = "deploy" /\ row[i] = wk[w].was
  BY <1>1, <1>3 DEF Working, PcFits, Remembers, DeployPcs
<1>6. s = "queued" /\ row[i].presence = "absent"
  BY <1>1, <1>3, <1>5 DEF Written, HasCapacity, Rows, Presences
<1>7. row' = [row EXCEPT ![i] = r]  BY <1>3, <1>4 DEF IInv, RowsOK
<1>8. r.status = s /\ r.presence = row[i].presence  BY <1>3 DEF Rows
<1>9. o.state = "queued" /\ o.kind = "deploy" /\ o.origin = wk[w].origin  BY <1>5
<1>. HIDE DEF s, r, o
<1>10. PICK j : wk' = [wk EXCEPT ![w] = j] /\ j.inst = NoOne /\ j.pc = "drain"
  BY <1>1, DropJob
<1>11. /\ row'[i] = r /\ op'[i] = o
       /\ \A k \in Instances : k # i => row'[k] = row[k] /\ op'[k] = op[k]
  BY <1>1, <1>3, <1>4, <1>7 DEF IInv, RowsOK, OpsOK
<1>12. Entry(r, o, runtime[i], Intact)
  <2>1. ~ runtime[i]  BY <1>3, <1>6 DEF RowTrue
  <2>2. o.origin # "runtime_cleanup"
    BY <1>3, <1>9 DEF Entry, Matches, OpenStates
  <2>. QED
    BY <1>6, <1>8, <1>9, <2>1, <2>2 DEF Entry, RowTrue, Transient, OpenStates, Gone
<1>13. r.status \notin Gone /\ j.pc # "new" /\ o.state # "claimed"
  BY <1>6, <1>8, <1>9, <1>10 DEF Gone
<1>. QED  BY <1>1, <1>2, <1>10, <1>11, <1>12, <1>13, HeldStep

LEMMA ConfirmReservationTrue ==
  ASSUME TruthInv, IInv', NEW w \in Workers, ConfirmReservation(w)
  PROVE  TruthInv'
<1>. DEFINE i == wk[w].inst
            pc == IF wk[w].origin = "runtime_repair" THEN "ifabsent" ELSE "kill"
            j == [wk[w] EXCEPT !.mem = row[i], !.pc = pc]
<1>1. /\ wk[w].pc = "reserved" /\ wk[w].pc \notin IdlePcs /\ Holds(w) /\ IInv
      /\ UNCHANGED <<row, op, runtime, rec>> /\ BudgetKept
      /\ wk' = [wk EXCEPT ![w] = j]
  BY DEF ConfirmReservation, IdlePcs, TruthInv, BudgetKept
<1>2. /\ row[i].status # "deleted" /\ RowTrue(row[i], runtime[i], Intact)
      /\ Working(wk[w], row[i], runtime[i], Intact) /\ wk[w] \in Jobs
  BY <1>1, JobKnown
<1>3. SameJob(j, wk[w]) /\ j.pc = pc /\ j.res = wk[w].res /\ j.mem = row[i]
  BY <1>2 DEF SameJob, Jobs
<1>4. pc \in {"ifabsent", "kill"} /\ (pc = "ifabsent" <=> wk[w].origin = "runtime_repair")
  OBVIOUS
<1>. HIDE DEF j, pc
<1>5. Working(j, row[i], runtime[i], Intact)
  <2>1. PcFits(j)
    BY <1>1, <1>2, <1>3, <1>4 DEF Working, PcFits, DeployPcs, Ordinary, SameJob
  <2>2. Remembers(j, row[i], runtime[i], Intact)
    BY <1>1, <1>2, <1>3, <1>4 DEF Working, Remembers, HeldPcs, Ordinary, SameJob
  <2>3. Established(j, row[i], runtime[i], Intact)
    <3>1. row[i].presence = "unknown" /\ row[i].status \in Transient /\ wk[w].res = "none"
      BY <1>1, <1>2 DEF Working, PcFits, Established, HeldPcs
    <3>. QED  BY <1>3, <1>4, <3>1 DEF Established, HeldPcs
  <2>. QED  BY <2>1, <2>2, <2>3 DEF Working
<1>6. j.pc # "new"  BY <1>3, <1>4
<1>. QED  BY <1>1, <1>2, <1>3, <1>5, <1>6, QuietStep

LEMMA ClosedState ==
  ASSUME NEW o, NEW state
  PROVE  Closed(o, state).state = state
BY DEF Closed, NoOp

LEMMA SettleOkTrue ==
  ASSUME TruthInv, IInv', NEW w \in Workers, SettleOk(w)
  PROVE  TruthInv'
<1>. DEFINE i == wk[w].inst
            o == Closed(op[i], "succeeded")
            r == IF wk[w].kind = "check" THEN row[i] ELSE wk[w].mem
<1>1. /\ wk[w].pc = "settle" /\ wk[w].res = "ok" /\ wk[w].pc \notin IdlePcs /\ Holds(w)
      /\ IInv /\ UNCHANGED <<runtime, rec>> /\ BudgetKept /\ Drop(w)
      /\ row' = IF wk[w].kind = "check" THEN row ELSE [row EXCEPT ![i] = wk[w].mem]
      /\ op' = [op EXCEPT ![i] = o]
  BY DEF SettleOk, SettleFence, IdlePcs, TruthInv, BudgetKept
<1>2. /\ row[i].status # "deleted" /\ row[i].status # "none" /\ i \in Instances
      /\ Working(wk[w], row[i], runtime[i], Intact)
      /\ Matches(wk[w], op[i], w) /\ Entry(row[i], op[i], runtime[i], Intact)
      /\ RowTrue(row[i], runtime[i], Intact)
  BY <1>1, JobKnown
<1>3. o.state = "succeeded"  BY ClosedState
<1>4. /\ row'[i] = r /\ op'[i] = o
      /\ \A k \in Instances : k # i => row'[k] = row[k] /\ op'[k] = op[k]
  BY <1>1, <1>2 DEF IInv, RowsOK, OpsOK
<1>5. RowTrue(r, runtime[i], Intact) /\ r.status \notin Transient \cup Gone
  <2>1. CASE wk[w].kind = "check"
    BY <1>2, <2>1 DEF Entry, Matches, Gone
  <2>2. CASE wk[w].kind # "check"
    BY <1>1, <1>2, <2>2 DEF Working, Established
  <2>. QED  BY <2>1, <2>2
<1>6. PICK j : wk' = [wk EXCEPT ![w] = j] /\ j.inst = NoOne /\ j.pc = "drain"
  BY <1>1, DropJob
<1>. HIDE DEF o, r
<1>7. Entry(r, o, runtime[i], Intact)  BY <1>3, <1>5 DEF Entry, Gone, OpenStates
<1>8. r.status \notin Gone /\ j.pc # "new" /\ o.state # "claimed"  BY <1>3, <1>5, <1>6
<1>. QED  BY <1>1, <1>2, <1>4, <1>6, <1>7, <1>8, HeldStep

\* A failed deploy claims absence only where the engine proved it, and a
\* failed destroy claims nothing.
LEMMA FailedRowTrue ==
  ASSUME NEW j, NEW r \in Rows, NEW f, NEW up, NEW x, RowTrue(r, up, x),
         r.status \notin Gone, j.kind \in Kinds,
         r.status \in Transient => j.kind = "deploy",
         j.kind = "deploy" /\ j.mem.presence = "absent" => ~ up
  PROVE  LET s == Escalate(FailedRow(j, r), f, j.kind, j.origin, j.attempts)
         IN  RowTrue(s, up, x) /\ s.status \notin Transient \cup Gone
<1>. DEFINE q == FailedRow(j, r)
            s == Escalate(q, f, j.kind, j.origin, j.attempts)
<1>. SUFFICES RowTrue(s, up, x) /\ s.status \notin Transient \cup Gone  OBVIOUS
<1>1. q \in Rows /\ RowTrue(q, up, x) /\ q.status \notin Transient \cup Gone
      /\ (j.kind \in {"deploy", "destroy"} /\ q.presence = "absent" => ~ up)
  <2>1. CASE j.kind = "deploy"
    <3>. DEFINE t == IF j.mem.status \in {"active", "resetting"} THEN "active" ELSE "error"
                p == IF j.mem.presence = "absent" THEN "absent" ELSE "unknown"
    <3>1. q = [r EXCEPT !.status = t, !.error = TRUE, !.presence = p]
      BY <2>1 DEF FailedRow
    <3>2. t \in {"active", "error"} /\ p \in {"absent", "unknown"} /\ (p = "absent" => ~ up)
      BY <2>1
    <3>. HIDE DEF t, p
    <3>. HIDE DEF q
    <3>3. q \in Rows
      <4>1. p \in Presences  BY <3>2 DEF Presences
      <4>2. [r EXCEPT !.status = t, !.error = TRUE, !.presence = p] \in Rows
        BY <3>2, <4>1, RowChanges
      <4>. QED  BY <3>1, <4>2
    <3>4. q.status = t /\ q.error = TRUE /\ q.presence = p  BY <3>1 DEF Rows
    <3>. QED  BY <3>2, <3>3, <3>4 DEF RowTrue, Transient, Gone
  <2>2. CASE j.kind = "destroy"
    <3>1. q = [r EXCEPT !.presence = "unknown"]  BY <2>2 DEF FailedRow
    <3>2. q \in Rows  BY <3>1 DEF Rows, Presences
    <3>3. q.status = r.status /\ q.presence = "unknown" /\ q.consoles = r.consoles
      BY <3>1 DEF Rows
    <3>. QED  BY <2>2, <3>2, <3>3 DEF RowTrue
  <2>3. CASE j.kind = "check"
    BY <2>3 DEF FailedRow
  <2>. QED  BY <2>1, <2>2, <2>3 DEF Kinds
<1>. HIDE DEF q
<1>2. CASE s = q  BY <1>1, <1>2
<1>3. CASE s # q
  <2>1. Escalating(j.kind, j.origin)  BY <1>3 DEF Escalate
  <2>2. s = [q EXCEPT !.status = "error", !.consoles = FALSE, !.error = TRUE]
    BY <1>3 DEF Escalate
  <2>3. s.status = "error" /\ s.presence = q.presence  BY <1>1, <2>2 DEF Rows
  <2>. QED  BY <1>1, <2>1, <2>3 DEF RowTrue, Transient, Gone, Escalating
<1>. QED  BY <1>2, <1>3

LEMMA SettleFailedTrue ==
  ASSUME TruthInv, IInv', NEW w \in Workers, SettleFailed(w)
  PROVE  TruthInv'
<1>. DEFINE i == wk[w].inst
            o == Closed(op[i], "failed")
            r == Escalate(FailedRow(wk[w], row[i]), fails[i], wk[w].kind, wk[w].origin,
                          wk[w].attempts)
<1>1. /\ wk[w].pc = "settle" /\ wk[w].res = "fail" /\ wk[w].pc \notin IdlePcs /\ Holds(w)
      /\ IInv /\ UNCHANGED <<runtime, rec>> /\ BudgetKept /\ Drop(w)
      /\ row' = [row EXCEPT ![i] = r]
      /\ op' = [op EXCEPT ![i] = o]
  BY DEF SettleFailed, SettleFence, IdlePcs, TruthInv, BudgetKept
<1>2. /\ row[i].status # "deleted" /\ row[i].status # "none" /\ i \in Instances
      /\ row[i] \in Rows /\ wk[w].kind \in Kinds
      /\ Working(wk[w], row[i], runtime[i], Intact)
      /\ Matches(wk[w], op[i], w) /\ Entry(row[i], op[i], runtime[i], Intact)
      /\ RowTrue(row[i], runtime[i], Intact)
  BY <1>1, JobKnown, JobFacts
<1>3. o.state = "failed"  BY ClosedState
<1>4. /\ row'[i] = r /\ op'[i] = o
      /\ \A k \in Instances : k # i => row'[k] = row[k] /\ op'[k] = op[k]
  BY <1>1, <1>2 DEF IInv, RowsOK, OpsOK
<1>5. RowTrue(r, runtime[i], Intact) /\ r.status \notin Transient \cup Gone
  <2>1. row[i].status \notin Gone  BY <1>2 DEF Gone
  <2>2. row[i].status \in Transient => wk[w].kind = "deploy"  BY <1>2 DEF Entry, Matches
  <2>3. wk[w].kind = "deploy" /\ wk[w].mem.presence = "absent" => ~ runtime[i]
    BY <1>1, <1>2 DEF Working, Established
  <2>. QED  BY <1>2, <2>1, <2>2, <2>3, FailedRowTrue
<1>6. PICK j : wk' = [wk EXCEPT ![w] = j] /\ j.inst = NoOne /\ j.pc = "drain"
  BY <1>1, DropJob
<1>. HIDE DEF o, r
<1>7. Entry(r, o, runtime[i], Intact)  BY <1>3, <1>5 DEF Entry, Gone, OpenStates
<1>8. r.status \notin Gone /\ j.pc # "new" /\ o.state # "claimed"  BY <1>3, <1>5, <1>6
<1>. QED  BY <1>1, <1>2, <1>4, <1>6, <1>7, <1>8, HeldStep

\* A deferred operation gives the row back what it said before the claim,
\* unless the deploy may already have destroyed.
LEMMA SettleDeferredTrue ==
  ASSUME TruthInv, IInv', NEW w \in Workers, SettleDeferred(w)
  PROVE  TruthInv'
<1>. DEFINE i == wk[w].inst
            b == [row[i] EXCEPT !.status = wk[w].was.status, !.error = wk[w].was.error,
                                !.presence = wk[w].was.presence]
            r == IF Ordinary(wk[w]) THEN row[i] ELSE b
            o == [op[i] EXCEPT !.state = "queued", !.by = NoOne, !.ready = FALSE,
                               !.attempts = op[i].attempts - 1]
<1>1. /\ wk[w].pc = "settle" /\ wk[w].res = "lock" /\ wk[w].pc \notin IdlePcs /\ Holds(w)
      /\ IInv /\ UNCHANGED <<runtime, rec>> /\ BudgetKept /\ Drop(w)
      /\ row' = IF Ordinary(wk[w]) THEN row
                ELSE [row EXCEPT ![i].status = wk[w].was.status, ![i].error = wk[w].was.error,
                                 ![i].presence = wk[w].was.presence]
      /\ op' = [op EXCEPT ![i].state = "queued", ![i].by = NoOne, ![i].ready = FALSE,
                          ![i].attempts = @ - 1]
  BY DEF SettleDeferred, IdlePcs, TruthInv, BudgetKept, Ordinary
<1>2. /\ row[i].status # "deleted" /\ row[i].status # "none" /\ i \in Instances
      /\ row[i] \in Rows /\ op[i] \in Ops /\ wk[w].was \in Rows
      /\ Working(wk[w], row[i], runtime[i], Intact)
      /\ Matches(wk[w], op[i], w) /\ Entry(row[i], op[i], runtime[i], Intact)
      /\ RowTrue(row[i], runtime[i], Intact)
  BY <1>1, JobKnown
<1>3. /\ row'[i] = r /\ op'[i] = o
      /\ \A k \in Instances : k # i => row'[k] = row[k] /\ op'[k] = op[k]
  BY <1>1, <1>2 DEF IInv, RowsOK, OpsOK
<1>4. /\ o.state = "queued" /\ o.kind = op[i].kind /\ o.origin = op[i].origin
  BY <1>2 DEF Ops
<1>5. /\ b.status = wk[w].was.status /\ b.presence = wk[w].was.presence
      /\ b.error = wk[w].was.error /\ b.consoles = row[i].consoles
  BY <1>2 DEF Rows
<1>6. /\ RowTrue(r, runtime[i], Intact) /\ r.status \notin Gone
      /\ r.status \in Transient => op[i].kind = "deploy"
      /\ op[i].origin = "runtime_repair" => r.status # "reaped"
  <2>1. CASE Ordinary(wk[w])
    BY <1>2, <2>1 DEF Entry, Matches, Gone, Ordinary, OpenStates
  <2>2. CASE ~ Ordinary(wk[w])
    <3>. HIDE DEF b
    <3>1. RowTrue(wk[w].was, runtime[i], Intact) /\ wk[w].was.status \notin Gone
      BY <1>1, <1>2, <2>2 DEF Working, Remembers
    <3>2. wk[w].kind # "deploy" => row[i].status = wk[w].was.status
      BY <1>2 DEF Working, Remembers
    <3>3. wk[w].kind = "deploy" => wk[w].was.status # "reaped"
      BY <1>2, <2>2 DEF Working, Remembers, Ordinary
    <3>4. wk[w].was.status = "reaped" => ~ row[i].consoles
      BY <1>2, <3>2, <3>3 DEF RowTrue
    <3>5. RowTrue(b, runtime[i], Intact)  BY <1>5, <3>1, <3>4 DEF RowTrue
    <3>6. b.status \in Transient => op[i].kind = "deploy"
      BY <1>2, <1>5, <3>2 DEF Entry, Matches
    <3>7. op[i].origin = "runtime_repair" => b.status # "reaped"
      BY <1>2, <1>5 DEF Working, Remembers, Matches
    <3>. QED  BY <1>5, <2>2, <3>1, <3>5, <3>6, <3>7
  <2>. QED  BY <2>1, <2>2
<1>7. PICK j : wk' = [wk EXCEPT ![w] = j] /\ j.inst = NoOne /\ j.pc = "drain"
  BY <1>1, DropJob
<1>. HIDE DEF o, r
<1>8. Entry(r, o, runtime[i], Intact)
  BY <1>2, <1>4, <1>6 DEF Entry, Gone, OpenStates, Matches
<1>9. r.status \notin Gone /\ j.pc # "new" /\ o.state # "claimed"  BY <1>4, <1>6, <1>7
<1>. QED  BY <1>1, <1>2, <1>3, <1>7, <1>8, <1>9, HeldStep

-----------------------------------------------------------------------------
(* The reconciler, requests and the environment.                           *)

\* Steps that take no worker's job and write neither rows nor operations.
LEMMA OutsideStep ==
  ASSUME TruthInv, IInv', UNCHANGED <<row, op, wk>>, PassTrue', BudgetTrue',
         Intact' => Intact,
         \A i \in Instances :
           \/ runtime'[i] = runtime[i]
           \/ row[i].status = "deleted"
           \/ ~ runtime'[i] /\ ~ Intact'
  PROVE  TruthInv'
<1>1. IInv /\ ClaimsTrue /\ JobsTrue  BY DEF TruthInv
<1>2. EntriesTrue'
  <2>. SUFFICES ASSUME NEW i \in Instances
                PROVE  Entry(row[i], op[i], runtime'[i], Intact')
    BY DEF EntriesTrue
  <2>1. Entry(row[i], op[i], runtime[i], Intact)  BY DEF TruthInv, EntriesTrue
  <2>2. CASE runtime'[i] = runtime[i]  BY <2>1, <2>2, EntryKept
  <2>3. CASE row[i].status = "deleted"  BY <2>1, <2>3 DEF Entry, Gone, Transient
  <2>4. CASE ~ runtime'[i] /\ ~ Intact'  BY <2>1, <2>4 DEF Entry, RowTrue
  <2>. QED  BY <2>2, <2>3, <2>4
<1>3. ClaimsTrue'  BY <1>1, ClaimsKept
<1>4. JobsTrue'
  <2>. SUFFICES ASSUME NEW w \in Workers, wk[w].inst # NoOne
                PROVE  JobTrue(wk[w], w, row[wk[w].inst], op[wk[w].inst],
                               runtime'[wk[w].inst], Intact')
    BY DEF JobsTrue
  <2>. DEFINE i == wk[w].inst
  <2>1. JobTrue(wk[w], w, row[i], op[i], runtime[i], Intact)  BY <1>1 DEF JobsTrue
  <2>2. i \in Instances  BY <1>1, NoOneAssumption DEF IInv, JobsOK, Jobs
  <2>3. CASE runtime'[i] = runtime[i]  BY <2>1, <2>3, WorkingKept DEF JobTrue
  <2>4. CASE row[i].status = "deleted"  BY <2>1, <2>4 DEF JobTrue
  <2>5. CASE ~ runtime'[i] /\ ~ Intact'
    BY <2>1, <2>5 DEF JobTrue, Working, Remembers, Established, RowTrue
  <2>. QED  BY <2>2, <2>3, <2>4, <2>5
<1>. QED  BY <1>2, <1>3, <1>4 DEF TruthInv

LEMMA RecPassTrue ==
  ASSUME TruthInv, IInv',
         RecInventory \/ RecPlan \/ (\E i \in Instances : RecDestroyOrphan(i))
         \/ RecStall \/ RecAbandon
  PROVE  TruthInv'
<1>1. IInv /\ PassTrue /\ BudgetTrue /\ rec \in Passes  BY DEF TruthInv, IInv, RestOK
<1>2. ASSUME UNCHANGED budget PROVE BudgetTrue' /\ (Intact' => Intact)
  BY <1>1, <1>2 DEF BudgetTrue, Intact
<1>3. CASE RecInventory
  <2>1. /\ rec' = [rec EXCEPT !.pc = "plan", !.up = Running]
        /\ UNCHANGED <<row, op, runtime, wk, budget>>
    BY <1>3 DEF RecInventory
  <2>2. rec'.pc = "plan" /\ rec'.up = Running /\ rec'.orphans = rec.orphans
    BY <1>1, <2>1 DEF Passes
  <2>3. \A i \in Running : row[i].status # "none"
    BY DEF Running, TruthInv, EntriesTrue, Entry
  <2>4. PassTrue'  BY <1>1, <2>1, <2>2, <2>3 DEF PassTrue
  <2>. QED  BY <1>2, <2>1, <2>4, OutsideStep
<1>4. CASE RecPlan
  <2>1. /\ rec'.pc = "orphans" /\ rec'.up = {} /\ rec'.orphans = {i \in rec.up : IsOrphan(i)}
        /\ UNCHANGED <<row, op, runtime, wk, budget>>
    BY <1>4 DEF RecPlan
  <2>2. PassTrue'  BY <1>1, <2>1 DEF PassTrue, IsOrphan, Exists
  <2>. QED  BY <1>2, <2>1, <2>2, OutsideStep
<1>5. CASE \E i \in Instances : RecDestroyOrphan(i)
  <2>1. PICK i \in Instances : RecDestroyOrphan(i)  BY <1>5
  <2>2. /\ i \in rec.orphans /\ Stops(i) /\ UNCHANGED <<row, op, wk, budget>>
        /\ rec' = [rec EXCEPT !.orphans = @ \ {i}]
    BY <2>1 DEF RecDestroyOrphan
  <2>3. rec'.pc = rec.pc /\ rec'.up = rec.up /\ rec'.orphans = rec.orphans \ {i}
    BY <1>1, <2>2 DEF Passes
  <2>4. PassTrue'  BY <1>1, <2>2, <2>3 DEF PassTrue
  <2>5. row[i].status = "deleted"  BY <1>1, <2>2 DEF PassTrue
  <2>6. \A k \in Instances : k # i => runtime'[k] = runtime[k]  BY <1>1, <2>2, RuntimeMoves
  <2>. QED  BY <1>2, <2>2, <2>4, <2>5, <2>6, OutsideStep
<1>6. CASE RecStall
  BY <1>1, <1>6 DEF RecStall, Spend, BudgetTrue
<1>7. CASE RecAbandon
  <2>1. /\ rec' = NoPass /\ UNCHANGED <<row, op, runtime, wk>> /\ BudgetKept
    BY <1>1, <1>7 DEF RecAbandon, Spend, BudgetKept, IInv, RestOK, Faults
  <2>2. PassTrue'  BY <2>1 DEF PassTrue, NoPass
  <2>. QED  BY <1>1, <2>1, <2>2, IntactKept, OutsideStep
<1>. QED  BY <1>3, <1>4, <1>5, <1>6, <1>7

LEMMA LoseRuntimeTrue ==
  ASSUME TruthInv, IInv', NEW i \in Instances, LoseRuntime(i)
  PROVE  TruthInv'
<1>1. /\ Spend("loss") /\ Stops(i) /\ UNCHANGED <<row, op, wk, rec>>
  BY DEF LoseRuntime
<1>2. IInv /\ PassTrue /\ BudgetTrue /\ budget \in [Faults -> Nat]  BY DEF TruthInv, IInv, RestOK
<1>3. budget'["loss"] = budget["loss"] - 1 /\ budget'["stall"] = budget["stall"]
      /\ budget["loss"] \in Nat
  BY <1>1, <1>2 DEF Spend, Faults
<1>4. PICK b \in Budgets : budget["loss"] <= b["loss"]  BY <1>2 DEF BudgetTrue
<1>5. b["loss"] \in Nat  BY <1>4, BudgetAssumption DEF Faults
<1>6. BudgetTrue' /\ ~ Intact'
  BY <1>2, <1>3, <1>4, <1>5 DEF BudgetTrue, Intact
<1>7. PassTrue'  BY <1>1, <1>2 DEF PassTrue
<1>8. ~ runtime'[i] /\ \A k \in Instances : k # i => runtime'[k] = runtime[k]
  BY <1>1, <1>2, RuntimeMoves
<1>. QED  BY <1>1, <1>6, <1>7, <1>8, OutsideStep

\* Steps that write rows and operations nobody works on.
LEMMA FreshStep ==
  ASSUME TruthInv, IInv', UNCHANGED <<runtime, wk>>, BudgetTrue', Intact' <=> Intact,
         NEW T, T \subseteq Instances,
         \A i \in Instances : i \notin T => row'[i] = row[i] /\ op'[i] = op[i],
         \A i \in T : /\ op'[i].state # "claimed"
                      /\ Entry(row'[i], op'[i], runtime[i], Intact),
         \A w \in Workers : wk[w].inst \notin T,
         PassTrue'
  PROVE  TruthInv'
<1>1. IInv /\ ClaimsTrue /\ JobsTrue  BY DEF TruthInv
<1>2. EntriesTrue'
  <2>. SUFFICES ASSUME NEW i \in Instances
                PROVE  Entry(row'[i], op'[i], runtime[i], Intact')
    BY DEF EntriesTrue
  <2>1. Entry(row'[i], op'[i], runtime[i], Intact)
    <3>1. CASE i \in T  BY <3>1
    <3>2. CASE i \notin T  BY <3>2 DEF TruthInv, EntriesTrue
    <3>. QED  BY <3>1, <3>2
  <2>. QED  BY <2>1, EntryKept
<1>3. ClaimsTrue'
  <2>1. \A i \in Instances : op'[i].state = "claimed" =>
          op[i].state = "claimed" /\ op'[i].by = op[i].by
    OBVIOUS
  <2>. QED  BY <1>1, <2>1, ClaimsKept
<1>4. JobsTrue'
  <2>1. \A w \in Workers : wk[w].inst # NoOne => wk[w].inst \in Instances
    BY <1>1, NoOneAssumption DEF IInv, JobsOK, Jobs
  <2>2. \A w \in Workers : wk[w].inst # NoOne =>
          /\ row'[wk[w].inst] = row[wk[w].inst]
          /\ op'[wk[w].inst] = op[wk[w].inst]
          /\ runtime'[wk[w].inst] = runtime[wk[w].inst]
    BY <2>1
  <2>. QED  BY <1>1, <2>2, JobsKept
<1>. QED  BY <1>2, <1>3, <1>4 DEF TruthInv

\* Instances without an open operation are not worked on.
LEMMA Unworked ==
  ASSUME TruthInv, NEW i \in Instances, Exists(i), ~ IsOpen(i), NEW w \in Workers
  PROVE  wk[w].inst # i
<1>. SUFFICES ASSUME wk[w].inst = i PROVE FALSE  OBVIOUS
<1>1. wk[w].inst # NoOne  BY NoOneAssumption
<1>2. Matches(wk[w], op[i], w)
  BY <1>1 DEF TruthInv, JobsTrue, JobTrue, Exists
<1>. QED  BY <1>2 DEF Matches, IsOpen, OpenStates

LEMMA NewOpFields ==
  ASSUME NEW i, NEW kind, NEW origin
  PROVE  /\ NewOp(i, kind, origin).state = "queued"
         /\ NewOp(i, kind, origin).kind = kind
         /\ NewOp(i, kind, origin).origin = origin
BY DEF NewOp

\* What the reconciler repairs it has just seen absent, and there is nothing
\* for it to clean up.
LEMMA RecQueueTrue ==
  ASSUME TruthInv, IInv', RecQueue
  PROVE  TruthInv'
<1>1. QueueRepairs(Running)  BY DEF RecQueue, TruthInv, PassTrue
<1>. DEFINE clean == ToCleanUp(Running)
            repair == ToRepair(Running)
<1>2. /\ op' = [i \in Instances |->
                  CASE i \in clean -> NewOp(i, "destroy", "runtime_cleanup")
                    [] i \in repair -> NewOp(i, "deploy", "runtime_repair")
                    [] OTHER -> op[i]]
      /\ row' = [i \in Instances |->
                  CASE i \in clean -> [row[i] EXCEPT !.presence = "present"]
                    [] i \in repair -> [row[i] EXCEPT !.presence = "absent"]
                    [] OTHER -> row[i]]
      /\ rec' = NoPass
      /\ UNCHANGED <<fails, runtime, wk, intents, budget>>
  BY <1>1 DEF QueueRepairs
<1>3. IInv /\ BudgetTrue /\ rec \in Passes  BY DEF TruthInv, IInv, RestOK
<1>4. clean = {}
  <2>. SUFFICES ASSUME NEW i \in clean PROVE FALSE  OBVIOUS
  <2>1. i \in Instances /\ runtime[i] /\ NeedsCleanup(i)  BY DEF ToCleanUp, Running
  <2>2. row[i].status \in Statuses
    BY <1>3, <2>1, RowKnown DEF NeedsCleanup, Exists, Rows
  <2>3. Entry(row[i], op[i], runtime[i], Intact)  BY <2>1 DEF TruthInv, EntriesTrue
  <2>. QED
    BY <2>1, <2>2, <2>3
    DEF NeedsCleanup, Entry, RowTrue, Statuses, LiveStatus, Transient, IsOpen, Gone
<1>5. repair \subseteq Instances /\ \A i \in repair : ~ runtime[i] /\ NeedsRepair(i)
  BY <1>3 DEF ToRepair, Running, Passes
<1>. HIDE DEF clean, repair
<1>6. \A i \in Instances : i \notin repair => row'[i] = row[i] /\ op'[i] = op[i]
  BY <1>2, <1>4
<1>7. ASSUME NEW i \in repair
      PROVE  /\ row'[i].status # "none" /\ op'[i].state # "claimed"
             /\ row[i].status # "deleted"
             /\ Entry(row'[i], op'[i], runtime[i], Intact)
             /\ \A w \in Workers : wk[w].inst # i
  <2>. DEFINE r == [row[i] EXCEPT !.presence = "absent"]
              o == NewOp(i, "deploy", "runtime_repair")
  <2>1. i \in Instances /\ ~ runtime[i] /\ NeedsRepair(i) /\ row[i] \in Rows
    BY <1>3, <1>5, RowKnown
  <2>2. row'[i] = r /\ op'[i] = o  BY <1>2, <1>4, <2>1
  <2>3. r.status = row[i].status /\ r.presence = "absent"  BY <2>1 DEF Rows
  <2>4. o.state = "queued" /\ o.kind = "deploy" /\ o.origin = "runtime_repair"
    BY NewOpFields
  <2>. HIDE DEF r, o
  <2>5. Entry(row[i], op[i], runtime[i], Intact)  BY <2>1 DEF TruthInv, EntriesTrue
  <2>6. row[i].status = "active" /\ ~ IsOpen(i)
    BY <2>1, <2>5 DEF NeedsRepair, LiveStatus, Transient, Entry, IsOpen
  <2>7. Exists(i)  BY <2>6 DEF Exists
  <2>8. Entry(r, o, runtime[i], Intact)
    BY <2>1, <2>3, <2>4, <2>6 DEF Entry, RowTrue, Gone, Transient, OpenStates
  <2>. QED  BY <2>1, <2>2, <2>3, <2>4, <2>6, <2>7, <2>8, Unworked
<1>8. BudgetTrue' /\ (Intact' <=> Intact)  BY <1>2, <1>3, IntactKept DEF BudgetKept
<1>9. PassTrue'  BY <1>2 DEF PassTrue, NoPass
<1>. QED  BY <1>2, <1>5, <1>6, <1>7, <1>8, <1>9, FreshStep

LEMMA LaunchTrue ==
  ASSUME TruthInv, IInv', NEW i \in Instances, Launch(i)
  PROVE  TruthInv'
<1>. DEFINE r == [row[i] EXCEPT !.status = "queued"]
            o == NewOp(i, "deploy", "user")
<1>1. /\ row[i].status = "none" /\ row' = [row EXCEPT ![i] = r]
      /\ Enqueue(i, "deploy", "user")
      /\ UNCHANGED <<runtime, wk, rec, budget>>
  BY DEF Launch
<1>2. IInv /\ BudgetTrue /\ PassTrue /\ row[i] \in Rows  BY RowKnown DEF TruthInv
<1>3. Entry(row[i], op[i], runtime[i], Intact)  BY DEF TruthInv, EntriesTrue
<1>4. op[i].state = "none" /\ ~ runtime[i] /\ ~ IsOpen(i)
  BY <1>1, <1>3 DEF Entry, Gone, IsOpen, OpenStates
<1>5. op' = [op EXCEPT ![i] = o]  BY <1>1, <1>4 DEF Enqueue
<1>6. r.status = "queued"  BY <1>2 DEF Rows
<1>7. o.state = "queued" /\ o.kind = "deploy" /\ o.origin = "user"  BY NewOpFields
<1>. HIDE DEF r, o
<1>8. /\ row'[i] = r /\ op'[i] = o
      /\ \A k \in Instances : k # i => row'[k] = row[k] /\ op'[k] = op[k]
  BY <1>1, <1>2, <1>5 DEF IInv, RowsOK, OpsOK
<1>9. Entry(r, o, runtime[i], Intact)
  BY <1>4, <1>6, <1>7 DEF Entry, RowTrue, OpenStates, Gone
<1>10. \A w \in Workers : wk[w].inst # i
  BY <1>1, NoOneAssumption DEF TruthInv, JobsTrue, JobTrue
<1>11. BudgetTrue' /\ (Intact' <=> Intact)  BY <1>1, <1>2, IntactKept DEF BudgetKept
<1>12. PassTrue'
  <2>1. \A k \in Instances : /\ row[k].status # "none" => row'[k].status # "none"
                             /\ row[k].status = "deleted" => row'[k].status = "deleted"
    BY <1>1, <1>6, <1>8
  <2>. QED  BY <1>1, <1>2, <2>1, PassKept
<1>13. /\ {i} \subseteq Instances
       /\ \A k \in Instances : k \notin {i} => row'[k] = row[k] /\ op'[k] = op[k]
       /\ \A k \in {i} : op'[k].state # "claimed" /\ Entry(row'[k], op'[k], runtime[k], Intact)
       /\ \A w \in Workers : wk[w].inst \notin {i}
  BY <1>7, <1>8, <1>9, <1>10
<1>. QED  BY <1>1, <1>11, <1>12, <1>13, FreshStep

LEMMA ReadRequestTrue ==
  ASSUME TruthInv, IInv', NEW i \in Instances, NEW request \in Requests, ReadRequest(i, request)
  PROVE  TruthInv'
<1>1. UNCHANGED <<row, op, runtime, wk, rec>>  BY DEF ReadRequest
<1>2. BudgetKept
  BY DEF ReadRequest, Spend, BudgetKept, TruthInv, IInv, RestOK, Faults
<1>3. BudgetTrue' /\ (Intact' <=> Intact) /\ PassTrue'
  BY <1>1, <1>2, IntactKept DEF TruthInv, PassTrue
<1>. QED  BY <1>1, <1>3, OutsideStep

LEMMA EnqueueRequestTrue ==
  ASSUME TruthInv, IInv', NEW i \in Instances, NEW request \in Requests,
         EnqueueRequest(i, request)
  PROVE  TruthInv'
<1>. DEFINE kind == CASE request = "reset" -> "deploy" [] request = "check" -> "check"
                      [] request = "reap" -> "destroy"
            origin == IF request = "reap" THEN "auto" ELSE "user"
            o == NewOp(i, kind, origin)
<1>1. UNCHANGED <<row, runtime, wk, rec, budget>>  BY DEF EnqueueRequest
<1>2. IInv /\ BudgetTrue /\ PassTrue  BY DEF TruthInv
<1>3. BudgetTrue' /\ (Intact' <=> Intact) /\ PassTrue'
  BY <1>1, <1>2, IntactKept DEF BudgetKept, PassTrue
<1>4. CASE UNCHANGED op  BY <1>1, <1>3, <1>4, OutsideStep
<1>5. CASE ~ UNCHANGED op
  <2>1. Exists(i) /\ Enqueue(i, kind, origin)  BY <1>5 DEF EnqueueRequest
  <2>2. ~ IsOpen(i) /\ op' = [op EXCEPT ![i] = o]  BY <1>5, <2>1 DEF Enqueue
  <2>3. o.state = "queued" /\ o.origin \in {"user", "auto"}  BY NewOpFields
  <2>. HIDE DEF o
  <2>4. op'[i] = o /\ \A k \in Instances : k # i => op'[k] = op[k]
    BY <1>2, <2>2 DEF IInv, OpsOK
  <2>5. Entry(row[i], op[i], runtime[i], Intact)  BY DEF TruthInv, EntriesTrue
  <2>6. Entry(row[i], o, runtime[i], Intact)
    BY <2>1, <2>2, <2>3, <2>5 DEF Entry, Exists, Gone, IsOpen, OpenStates
  <2>7. /\ {i} \subseteq Instances
        /\ \A k \in Instances : k \notin {i} => row'[k] = row[k] /\ op'[k] = op[k]
        /\ \A k \in {i} : op'[k].state # "claimed" /\ Entry(row'[k], op'[k], runtime[k], Intact)
        /\ \A w \in Workers : wk[w].inst \notin {i}
    BY <1>1, <2>1, <2>2, <2>3, <2>4, <2>6, Unworked
  <2>. QED  BY <1>1, <1>3, <2>7, FreshStep
<1>. QED  BY <1>4, <1>5

LEMMA EraseRowTrue ==
  ASSUME TruthInv, IInv', NEW i \in Instances, EraseRow(i)
  PROVE  TruthInv'
<1>. DEFINE r == [NoRow EXCEPT !.status = "deleted"]
            o == [NoOp EXCEPT !.id = op[i].id]
<1>1. /\ Exists(i) /\ Spend("erase") /\ UNCHANGED <<runtime, wk, rec>>
      /\ row' = [row EXCEPT ![i] = r] /\ op' = [op EXCEPT ![i] = o]
  BY DEF EraseRow
<1>2. IInv /\ BudgetTrue /\ PassTrue /\ ClaimsTrue /\ JobsTrue  BY DEF TruthInv
<1>3. BudgetKept  BY <1>1, <1>2 DEF Spend, BudgetKept, IInv, RestOK, Faults
<1>4. BudgetTrue' /\ (Intact' <=> Intact)  BY <1>2, <1>3, IntactKept
<1>5. r.status = "deleted" /\ o.state = "none"  BY DEF NoRow, NoOp
<1>. HIDE DEF r, o
<1>6. /\ row'[i] = r /\ op'[i] = o
      /\ \A k \in Instances : k # i => row'[k] = row[k] /\ op'[k] = op[k]
  BY <1>1, <1>2 DEF IInv, RowsOK, OpsOK
<1>7. EntriesTrue'
  <2>. SUFFICES ASSUME NEW k \in Instances
                PROVE  Entry(row'[k], op'[k], runtime[k], Intact')
    BY <1>1 DEF EntriesTrue
  <2>1. CASE k = i  BY <1>5, <1>6, <2>1 DEF Entry, Gone, Transient, OpenStates
  <2>2. CASE k # i  BY <1>4, <1>6, <2>2, EntryKept DEF TruthInv, EntriesTrue
  <2>. QED  BY <2>1, <2>2
<1>8. ClaimsTrue'
  <2>1. \A k \in Instances : op'[k].state = "claimed" =>
          op[k].state = "claimed" /\ op'[k].by = op[k].by
    BY <1>5, <1>6
  <2>. QED  BY <1>1, <1>2, <2>1, ClaimsKept
<1>9. JobsTrue'
  <2>. SUFFICES ASSUME NEW w \in Workers, wk[w].inst # NoOne
                PROVE  JobTrue(wk[w], w, row'[wk[w].inst], op'[wk[w].inst],
                               runtime[wk[w].inst], Intact')
    BY <1>1 DEF JobsTrue
  <2>1. JobTrue(wk[w], w, row[wk[w].inst], op[wk[w].inst], runtime[wk[w].inst], Intact)
    BY <1>2 DEF JobsTrue
  <2>2. wk[w].inst \in Instances  BY <1>2, NoOneAssumption DEF IInv, JobsOK, Jobs
  <2>3. CASE wk[w].inst = i  BY <1>5, <1>6, <2>3 DEF JobTrue
  <2>4. CASE wk[w].inst # i  BY <1>4, <1>6, <2>1, <2>2, <2>4, WorkingKept DEF JobTrue
  <2>. QED  BY <2>3, <2>4
<1>10. PassTrue'
  <2>1. \A k \in Instances : /\ row[k].status # "none" => row'[k].status # "none"
                             /\ row[k].status = "deleted" => row'[k].status = "deleted"
    BY <1>5, <1>6
  <2>. QED  BY <1>1, <1>2, <2>1, PassKept
<1>. QED  BY <1>4, <1>7, <1>8, <1>9, <1>10 DEF TruthInv

-----------------------------------------------------------------------------
(* In behaviours without stalls rows tell the truth for ever.              *)

LEMMA InitTruth ==
  ASSUME StallFree, Init
  PROVE  TruthInv
<1>1. IInv  BY InitIInv
<1>2. \A i \in Instances : row[i].status = "none" /\ op[i].state = "none" /\ ~ runtime[i]
  BY DEF Init, NoRow, NoOp
<1>3. EntriesTrue
  BY <1>2 DEF EntriesTrue, Entry, Gone, Transient, OpenStates
<1>4. ClaimsTrue  BY <1>2 DEF ClaimsTrue
<1>5. JobsTrue
  <2>1. NoJob("new").inst = NoOne  BY DEF NoJob
  <2>. QED  BY <2>1 DEF Init, JobsTrue
<1>6. PassTrue  BY DEF Init, PassTrue, NoPass
<1>7. BudgetTrue
  <2>1. budget["loss"] \in Nat  BY <1>1 DEF IInv, RestOK, Faults
  <2>. QED  BY <2>1 DEF Init, StallFree, BudgetTrue
<1>. QED  BY <1>1, <1>3, <1>4, <1>5, <1>6, <1>7 DEF TruthInv

LEMMA WorkerStepTrue ==
  ASSUME TruthInv, IInv', NEW w \in Workers, WorkerStep(w)
  PROVE  TruthInv'
BY StartWorkerTrue, PollStuckTrue, ClaimTrue, EndDrainTrue, StaleTrue, BeginWorkTrue,
   ReserveTrue, DeferForCapacityTrue, ConfirmReservationTrue, KillOldTrue,
   AfterDestroyTrue, ProvisionTrue, ProvisionIfAbsentTrue, InspectTrue, DestroyLabTrue,
   DestroyIfPresentTrue, RunChecksTrue, LockBusyTrue, SettleOkTrue, SettleFailedTrue,
   SettleDeferredTrue
DEF WorkerStep, Confirm, Resync

LEMMA NextTruth ==
  ASSUME TruthInv, [Next]_vars
  PROVE  TruthInv'
<1>1. IInv'  BY NextIInv DEF TruthInv
<1>2. ASSUME NEW w \in Workers, WorkerStep(w) \/ CrashWorker(w)
      PROVE  TruthInv'
  BY <1>1, <1>2, WorkerStepTrue, CrashWorkerTrue
<1>3. CASE RecStep
  BY <1>1, <1>3, RecStuckTrue, RecPassTrue, RecQueueTrue DEF RecStep
<1>4. ASSUME NEW i \in Instances,
             RequestStep(i) \/ RetryDelayOver(i) \/ LoseRuntime(i) \/ EraseRow(i)
      PROVE  TruthInv'
  BY <1>1, <1>4, LaunchTrue, ReadRequestTrue, EnqueueRequestTrue, RetryDelayOverTrue,
     LoseRuntimeTrue, EraseRowTrue
  DEF RequestStep
<1>5. CASE UNCHANGED vars
  <2>1. UNCHANGED <<row, op, runtime, wk, rec, budget>>  BY <1>5 DEF vars
  <2>2. PassTrue' /\ BudgetTrue' /\ (Intact' => Intact)
    BY <2>1 DEF TruthInv, PassTrue, BudgetTrue, Intact
  <2>. QED  BY <1>1, <2>1, <2>2, OutsideStep
<1>. QED  BY <1>2, <1>3, <1>4, <1>5 DEF Next

\* Without stalls the truth invariant holds at every moment.
THEOREM TruthInvariance == ASSUME StallFree PROVE Spec => []TruthInv
<1>1. Init => TruthInv  BY InitTruth
<1>2. TruthInv /\ [Next]_vars => TruthInv'  BY NextTruth
<1>. QED  BY <1>1, <1>2, PTL DEF Spec

\* What the row of an instance says of its lab, its operation and its host is
\* true at every moment, as long as no process stalls past its lease.
THEOREM RowsTruthful == ASSUME StallFree PROVE Spec => []RowTruthful
<1>1. ASSUME TruthInv PROVE RowTruthful
  <2>1. ASSUME NEW i \in Instances PROVE Entry(row[i], op[i], runtime[i], Intact)
    BY <1>1 DEF TruthInv, EntriesTrue
  <2>2. LabReallyUp
    BY <2>1 DEF LabReallyUp, Entry, RowTrue, Gone, Intact
  <2>3. NoStrandedRow  BY <2>1 DEF NoStrandedRow, Entry, IsOpen
  <2>4. ReapedIsGone  BY <2>1 DEF ReapedIsGone, Entry, RowTrue, Gone
  <2>5. AbsentIsProven
    BY <2>1 DEF AbsentIsProven, Entry, RowTrue, Gone, Exists
  <2>. QED  BY <2>2, <2>3, <2>4, <2>5 DEF RowTruthful
<1>. QED  BY <1>1, TruthInvariance, PTL

-----------------------------------------------------------------------------
(* The operation table is a lease queue, in behaviours without stalls.     *)

\* What a step does to the operation of one instance.
SameSlot(o, p) ==
  p.state = o.state /\ p.kind = o.kind /\ p.by = o.by /\ p.attempts = o.attempts
Rests(o, p) == o.state \notin OpenStates /\ p.state \notin OpenStates
Submits(o, p) == o.state \notin OpenStates /\ p.state = "queued" /\ p.attempts = 0
Takes(o, p) ==
  /\ o.state = "queued" /\ p.state = "claimed" /\ p.by \in Workers
  /\ p.kind = o.kind /\ p.attempts = o.attempts + 1
Returns(o, p) ==
  /\ o.state = "claimed" /\ p.state = "queued"
  /\ p.kind = o.kind /\ p.attempts \in {o.attempts, o.attempts - 1}
Closes(o, p) == o.state \in OpenStates /\ p.state \notin OpenStates

OpMoves(o, p) ==
  \/ SameSlot(o, p) \/ Rests(o, p)
  \/ Submits(o, p) \/ Takes(o, p) \/ Returns(o, p) \/ Closes(o, p)

\* Each of these is a step of the lease queue.
LEMMA MovesRefine ==
  ASSUME NEW o, NEW p, OpOK(o), OpOK(p), OpMoves(o, p)
  PROVE  SlotOf(p) = SlotOf(o) \/ Lease!Step(SlotOf(o), SlotOf(p))
<1>1. /\ o.kind \in Kinds /\ p.kind \in Kinds /\ o.attempts \in Nat /\ p.attempts \in Nat
      /\ p.state = "queued" => p.attempts < MaxAttempts[p.kind]
      /\ o.state = "queued" => o.attempts < MaxAttempts[o.kind]
  BY DEF OpOK, Ops
<1>. DEFINE Waits(q) == Lease!Waiting(q.kind, q.attempts)
            Hangs(q) == Lease!Held(q.kind, q.by, q.attempts)
<1>2. \A q \in {o, p} :
        /\ q.state = "queued" => SlotOf(q) = Waits(q)
        /\ q.state = "claimed" => SlotOf(q) = Hangs(q)
        /\ q.state \notin OpenStates => SlotOf(q) = Lease!Idle
  BY DEF SlotOf, Lease!Waiting, Lease!Held, Lease!Idle, OpenStates
<1>3. \A q \in {o, p} :
        /\ Waits(q).state = "waiting" /\ Waits(q).class = q.kind /\ Waits(q).tries = q.attempts
        /\ Hangs(q).state = "held" /\ Hangs(q).class = q.kind /\ Hangs(q).tries = q.attempts
        /\ Lease!Idle.state = "idle"
  BY DEF Lease!Waiting, Lease!Held, Lease!Idle
<1>4. CASE SameSlot(o, p)  BY <1>4 DEF SameSlot, SlotOf
<1>9. CASE Rests(o, p)  BY <1>2, <1>9 DEF Rests
<1>5. CASE Submits(o, p)
  <2>1. SlotOf(o) = Lease!Idle /\ SlotOf(p) = Lease!Waiting(p.kind, 0)
    BY <1>2, <1>5 DEF Submits
  <2>. QED  BY <1>1, <2>1 DEF Lease!Step, Lease!Submit
<1>6. CASE Takes(o, p)
  <2>1. SlotOf(o) = Waits(o) /\ SlotOf(p) = Lease!Held(o.kind, p.by, o.attempts + 1)
    BY <1>2, <1>6 DEF Takes
  <2>2. o.attempts < MaxAttempts[o.kind] /\ p.by \in Workers  BY <1>1, <1>6 DEF Takes
  <2>. HIDE DEF Waits
  <2>. QED  BY <1>3, <2>1, <2>2 DEF Lease!Step, Lease!Take
<1>7. CASE Returns(o, p)
  <2>1. SlotOf(o) = Hangs(o) /\ SlotOf(p) = Lease!Waiting(o.kind, p.attempts)
    BY <1>2, <1>7 DEF Returns
  <2>2. p.attempts < MaxAttempts[o.kind] /\ p.attempts \in {o.attempts, o.attempts - 1}
    BY <1>1, <1>7 DEF Returns
  <2>. HIDE DEF Hangs
  <2>. QED  BY <1>3, <2>1, <2>2 DEF Lease!Step, Lease!Return, Lease!IsHeld
<1>8. CASE Closes(o, p)
  <2>1. SlotOf(p) = Lease!Idle /\ SlotOf(o) # Lease!Idle
    <3>1. SlotOf(p) = Lease!Idle  BY <1>2, <1>8 DEF Closes
    <3>2. SlotOf(o) \in {Waits(o), Hangs(o)}  BY <1>2, <1>8 DEF Closes, OpenStates
    <3>. HIDE DEF Waits, Hangs
    <3>3. SlotOf(o).state # Lease!Idle.state  BY <1>3, <3>2
    <3>. QED  BY <3>1, <3>3
  <2>. QED  BY <2>1 DEF Lease!Step, Lease!Withdraw
<1>. QED  BY <1>4, <1>5, <1>6, <1>7, <1>8, <1>9 DEF OpMoves

AllMove == \A i \in Instances : OpMoves(op[i], op'[i])

LEMMA StillMoves ==
  ASSUME UNCHANGED op
  PROVE  AllMove
BY DEF AllMove, OpMoves, SameSlot

\* Only one operation moves.
LEMMA OneMoves ==
  ASSUME IInv, NEW i \in Instances, NEW p, op' = [op EXCEPT ![i] = p], OpMoves(op[i], p)
  PROVE  AllMove
<1>1. op'[i] = p /\ \A k \in Instances : k # i => op'[k] = op[k]  BY DEF IInv, OpsOK
<1>. QED  BY <1>1 DEF AllMove, OpMoves, SameSlot

\* A new operation takes an idle slot.
LEMMA FreshMoves ==
  ASSUME NEW i, NEW kind, NEW origin, ~ IsOpen(i)
  PROVE  OpMoves(op[i], NewOp(i, kind, origin))
BY DEF NewOp, OpMoves, Submits, IsOpen

LEMMA RecoveredMoves ==
  ASSUME IInv, NEW i \in Instances, op[i].state = "claimed"
  PROVE  OpMoves(op[i], RecoveredOp(i))
<1>1. op[i] \in Ops  BY DEF IInv, OpsOK
<1>2. CASE AtCeiling(i)
  <2>1. RecoveredOp(i).state = "failed"  BY <1>2, ClosedState DEF RecoveredOp
  <2>. QED  BY <2>1 DEF OpMoves, Closes, OpenStates
<1>3. CASE ~ AtCeiling(i)
  <2>1. RecoveredOp(i) = Requeued(op[i])  BY <1>3 DEF RecoveredOp
  <2>2. /\ Requeued(op[i]).state = "queued" /\ Requeued(op[i]).kind = op[i].kind
        /\ Requeued(op[i]).attempts = op[i].attempts
    BY <1>1 DEF Requeued, Ops
  <2>. QED  BY <2>1, <2>2 DEF OpMoves, Returns
<1>. QED  BY <1>2, <1>3

LEMMA SweepMoves ==
  ASSUME TruthInv, NEW E \in SUBSET Instances, LapsedClaims(E), ReconcileStuck(E),
         UNCHANGED runtime
  PROVE  AllMove
<1>1. ASSUME NEW i \in E PROVE OpMoves(op[i], op'[i])
  <2>1. op[i].state = "claimed" /\ op'[i] = RecoveredOp(i)
    BY SweepTrue DEF ClaimsOfDead
  <2>. QED  BY <2>1, RecoveredMoves DEF TruthInv
<1>2. ASSUME NEW i \in Instances \ E PROVE OpMoves(op[i], op'[i])
  <2>1. op'[i] = op[i]  BY SweepTrue
  <2>. QED  BY <2>1 DEF OpMoves, SameSlot
<1>. QED  BY <1>1, <1>2 DEF AllMove

LEMMA StartWorkerMoves ==
  ASSUME IInv, NEW w \in Workers, StartWorker(w)
  PROVE  AllMove
<1>. DEFINE E == {i \in Instances : op[i].state = "claimed" /\ op[i].by # w}
<1>1. op' = [i \in Instances |-> IF i \in E THEN RecoveredOp(i) ELSE op[i]]
  BY DEF StartWorker
<1>2. ASSUME NEW i \in Instances PROVE OpMoves(op[i], op'[i])
  <2>1. CASE i \in E  BY <1>1, <2>1, RecoveredMoves
  <2>2. CASE i \notin E
    <3>1. op'[i] = op[i]  BY <1>1, <2>2
    <3>. QED  BY <3>1 DEF OpMoves, SameSlot
  <2>. QED  BY <2>1, <2>2
<1>. QED  BY <1>2 DEF AllMove

LEMMA ClaimMoves ==
  ASSUME IInv, NEW w \in Workers, NEW i \in Instances, Claim(w, i)
  PROVE  AllMove
<1>. DEFINE p == [op[i] EXCEPT !.state = "claimed", !.by = w, !.attempts = @ + 1]
<1>1. op[i] \in Ops /\ op[i].state = "queued"  BY DEF Claim, Ready, IInv, OpsOK
<1>2. op' = [op EXCEPT ![i] = p]  BY DEF Claim
<1>3. /\ p.state = "claimed" /\ p.by = w /\ p.kind = op[i].kind
      /\ p.attempts = op[i].attempts + 1
  BY <1>1 DEF Ops
<1>. HIDE DEF p
<1>4. OpMoves(op[i], p)  BY <1>1, <1>3 DEF OpMoves, Takes
<1>. QED  BY <1>2, <1>4, OneMoves

\* A worker that defers a lab for lack of capacity still holds its claim.
LEMMA DeferForCapacityMoves ==
  ASSUME TruthInv, NEW w \in Workers, DeferForCapacity(w)
  PROVE  AllMove
<1>. DEFINE i == wk[w].inst
            p == [id |-> wk[w].id, state |-> "queued", kind |-> wk[w].kind,
                  origin |-> wk[w].origin, by |-> NoOne,
                  attempts |-> wk[w].attempts - 1, ready |-> FALSE]
<1>1. wk[w].pc = "admit" /\ wk[w].pc \notin IdlePcs /\ Exists(i) /\ IInv
  BY DEF DeferForCapacity, IdlePcs, TruthInv
<1>2. row[i].status # "deleted"  BY <1>1 DEF Exists
<1>3. Matches(wk[w], op[i], w) /\ i \in Instances  BY <1>1, <1>2, JobKnown
<1>4. op' = [op EXCEPT ![i] = p]  BY <1>3 DEF DeferForCapacity, Matches
<1>5. OpMoves(op[i], p)  BY <1>3 DEF Matches, OpMoves, Returns
<1>. QED  BY <1>1, <1>3, <1>4, <1>5, OneMoves

LEMMA SettleMoves ==
  ASSUME IInv, NEW w \in Workers, SettleOk(w) \/ SettleFailed(w) \/ SettleDeferred(w)
  PROVE  AllMove
<1>. DEFINE i == wk[w].inst
            p == [op[i] EXCEPT !.state = "queued", !.by = NoOne, !.ready = FALSE,
                               !.attempts = @ - 1]
<1>1. i \in Instances /\ op[i].state = "claimed"
  BY DEF SettleOk, SettleFailed, SettleDeferred, SettleFence, Holds
<1>2. op[i] \in Ops  BY <1>1 DEF IInv, OpsOK
<1>3. ASSUME NEW s \in {"failed", "succeeded"} PROVE OpMoves(op[i], Closed(op[i], s))
  <2>1. Closed(op[i], s).state = s  BY ClosedState
  <2>. QED  BY <1>1, <2>1 DEF OpMoves, Closes, OpenStates
<1>4. CASE SettleOk(w)
  <2>1. op' = [op EXCEPT ![i] = Closed(op[i], "succeeded")]  BY <1>4 DEF SettleOk
  <2>. QED  BY <1>1, <1>3, <2>1, OneMoves
<1>5. CASE SettleFailed(w)
  <2>1. op' = [op EXCEPT ![i] = Closed(op[i], "failed")]  BY <1>5 DEF SettleFailed
  <2>. QED  BY <1>1, <1>3, <2>1, OneMoves
<1>6. CASE SettleDeferred(w)
  <2>1. op' = [op EXCEPT ![i] = p]
    BY <1>1, <1>2, <1>6 DEF SettleDeferred, IInv, OpsOK
  <2>2. p.state = "queued" /\ p.kind = op[i].kind /\ p.attempts = op[i].attempts - 1
    BY <1>2 DEF Ops
  <2>. HIDE DEF p
  <2>3. OpMoves(op[i], p)  BY <1>1, <2>2 DEF OpMoves, Returns
  <2>. QED  BY <1>1, <2>1, <2>3, OneMoves
<1>. QED  BY <1>4, <1>5, <1>6

LEMMA WorkerMoves ==
  ASSUME TruthInv, NEW w \in Workers, WorkerStep(w) \/ CrashWorker(w)
  PROVE  AllMove
<1>1. IInv  BY DEF TruthInv
<1>2. CASE PollStuck(w)  BY <1>2, SweepMoves DEF PollStuck
<1>3. CASE EndDrain(w)
  <2>1. \A i \in Instances : op[i] \in Ops /\ op'[i] = [op[i] EXCEPT !.ready = TRUE]
    BY <1>1, <1>3 DEF EndDrain, IInv, OpsOK
  <2>2. \A i \in Instances : SameSlot(op[i], op'[i])  BY <2>1 DEF SameSlot, Ops
  <2>. QED  BY <2>2 DEF AllMove, OpMoves
<1>4. CASE UNCHANGED op  BY <1>4, StillMoves
<1>5. CASE \/ Stale(w) \/ BeginWork(w) \/ Reserve(w) \/ ConfirmReservation(w) \/ KillOld(w)
           \/ AfterDestroy(w) \/ Provision(w) \/ ProvisionIfAbsent(w) \/ Confirm(w)
           \/ Resync(w) \/ DestroyLab(w) \/ DestroyIfPresent(w) \/ RunChecks(w)
           \/ LockBusy(w) \/ CrashWorker(w)
  BY <1>4, <1>5
  DEF Stale, BeginWork, Reserve, ConfirmReservation, KillOld, AfterDestroy, Provision,
      ProvisionIfAbsent, Confirm, Resync, InspectAndRebuild, DestroyLab, DestroyIfPresent,
      RunChecks, LockBusy, CrashWorker, Engine
<1>. QED
  BY <1>1, <1>2, <1>3, <1>5, StartWorkerMoves, ClaimMoves, DeferForCapacityMoves, SettleMoves
  DEF WorkerStep

LEMMA RecQueueMoves ==
  ASSUME IInv, RecQueue
  PROVE  AllMove
<1>1. PICK up : QueueRepairs(up)  BY DEF RecQueue
<1>. DEFINE clean == ToCleanUp(up)
            repair == ToRepair(up)
<1>2. op' = [i \in Instances |->
               CASE i \in clean -> NewOp(i, "destroy", "runtime_cleanup")
                 [] i \in repair -> NewOp(i, "deploy", "runtime_repair")
                 [] OTHER -> op[i]]
  BY <1>1 DEF QueueRepairs
<1>3. \A i \in clean \cup repair : ~ IsOpen(i)
  BY DEF ToCleanUp, ToRepair, NeedsCleanup, NeedsRepair
<1>. HIDE DEF clean, repair
<1>4. ASSUME NEW i \in Instances PROVE OpMoves(op[i], op'[i])
  <2>1. CASE i \in clean \cup repair
    <3>1. PICK kind, origin : op'[i] = NewOp(i, kind, origin)  BY <1>2, <2>1
    <3>. QED  BY <1>3, <2>1, <3>1, FreshMoves
  <2>2. CASE i \notin clean \cup repair
    <3>1. op'[i] = op[i]  BY <1>2, <2>2
    <3>. QED  BY <3>1 DEF OpMoves, SameSlot
  <2>. QED  BY <2>1, <2>2
<1>. QED  BY <1>4 DEF AllMove

LEMMA EnqueueMoves ==
  ASSUME IInv, NEW i \in Instances, NEW kind, NEW origin, Enqueue(i, kind, origin)
  PROVE  AllMove
BY FreshMoves, OneMoves, StillMoves DEF Enqueue

LEMMA NextMoves ==
  ASSUME TruthInv, [Next]_vars
  PROVE  AllMove
<1>1. IInv  BY DEF TruthInv
<1>2. ASSUME NEW w \in Workers, WorkerStep(w) \/ CrashWorker(w) PROVE AllMove
  BY <1>2, WorkerMoves
<1>3. CASE RecStep
  <2>1. CASE RecStuck  BY <2>1, SweepMoves DEF RecStuck
  <2>2. CASE RecQueue  BY <1>1, <2>2, RecQueueMoves
  <2>3. CASE \/ RecInventory \/ RecPlan \/ (\E i \in Instances : RecDestroyOrphan(i))
             \/ RecStall \/ RecAbandon
    BY <2>3, StillMoves DEF RecInventory, RecPlan, RecDestroyOrphan, RecStall, RecAbandon
  <2>. QED  BY <1>3, <2>1, <2>2, <2>3 DEF RecStep
<1>4. ASSUME NEW i \in Instances, Launch(i) \/ (\E r \in Requests : EnqueueRequest(i, r))
      PROVE  AllMove
  <2>1. (\E kind, origin : Enqueue(i, kind, origin)) \/ UNCHANGED op
    BY <1>4 DEF Launch, EnqueueRequest
  <2>. QED  BY <1>1, <2>1, EnqueueMoves, StillMoves
<1>5. ASSUME NEW i \in Instances, LoseRuntime(i) \/ (\E r \in Requests : ReadRequest(i, r))
      PROVE  AllMove
  BY <1>5, StillMoves DEF LoseRuntime, ReadRequest
<1>6. ASSUME NEW i \in Instances, RetryDelayOver(i) PROVE AllMove
  <2>. DEFINE p == [op[i] EXCEPT !.ready = TRUE]
  <2>1. op[i] \in Ops /\ op' = [op EXCEPT ![i] = p]
    BY <1>1, <1>6 DEF RetryDelayOver, IInv, OpsOK
  <2>2. SameSlot(op[i], p)  BY <2>1 DEF SameSlot, Ops
  <2>. QED  BY <1>1, <2>1, <2>2, OneMoves DEF OpMoves
<1>7. ASSUME NEW i \in Instances, EraseRow(i) PROVE AllMove
  <2>. DEFINE p == [NoOp EXCEPT !.id = op[i].id]
  <2>1. op' = [op EXCEPT ![i] = p]  BY <1>7 DEF EraseRow
  <2>2. p.state = "none"  BY DEF NoOp
  <2>. HIDE DEF p
  <2>3. OpMoves(op[i], p)  BY <2>2 DEF OpMoves, Rests, Closes, OpenStates
  <2>. QED  BY <1>1, <2>1, <2>3, OneMoves
<1>8. CASE UNCHANGED vars  BY <1>8, StillMoves DEF vars
<1>. QED  BY <1>2, <1>3, <1>4, <1>5, <1>6, <1>7, <1>8 DEF Next, RequestStep

LEMMA SlotHeld ==
  ASSUME NEW o
  PROVE  Lease!IsHeld(SlotOf(o)) => o.state = "claimed" /\ SlotOf(o).by = o.by
<1>1. CASE o.state = "queued"
  <2>1. SlotOf(o).state = "waiting"  BY <1>1 DEF SlotOf
  <2>. QED  BY <2>1 DEF Lease!IsHeld
<1>2. CASE o.state = "claimed"  BY <1>2 DEF SlotOf
<1>3. CASE o.state \notin {"queued", "claimed"}
  <2>1. SlotOf(o).state = "idle"  BY <1>3 DEF SlotOf
  <2>. QED  BY <2>1 DEF Lease!IsHeld
<1>. QED  BY <1>1, <1>2, <1>3

LEMMA NextRefines ==
  ASSUME TruthInv, [Next]_vars
  PROVE  Lease!Next
<1>1. TruthInv'  BY NextTruth
<1>2. \A i \in Instances : OpOK(op[i]) /\ OpOK(op[i])'
  BY <1>1 DEF TruthInv, IInv, OpsOK
<1>3. ASSUME NEW i \in Instances
      PROVE  SlotOf(op'[i]) = SlotOf(op[i]) \/ Lease!Step(SlotOf(op[i]), SlotOf(op'[i]))
  <2>1. OpMoves(op[i], op'[i])  BY NextMoves DEF AllMove
  <2>2. OpOK(op[i]) /\ OpOK(op'[i])  BY <1>2 DEF OpOK, Conditional
  <2>. QED  BY <2>1, <2>2, MovesRefine
<1>4. ASSUME NEW i \in Instances, NEW k \in Instances,
             Lease!IsHeld(SlotOf(op'[i])), Lease!IsHeld(SlotOf(op'[k])),
             SlotOf(op'[i]).by = SlotOf(op'[k]).by
      PROVE  i = k
  <2>1. /\ op'[i].state = "claimed" /\ op'[k].state = "claimed"
        /\ op'[i].by = op'[k].by
    BY <1>4, SlotHeld
  <2>. QED  BY <1>1, <2>1 DEF TruthInv, ClaimsTrue
<1>. QED  BY <1>3, <1>4 DEF Lease!Next, Lease!Exclusive

\* The operation table is a lease queue, however often workers die, contend
\* for the host and fail, as long as no process stalls past its lease: claim_next,
\* the settlements and both recoveries take, return and finish what is held.
THEOREM QueueIsLeaseQueue == ASSUME StallFree PROVE Spec => ImplementsLeaseQueue
<1>1. Init => Lease!Init
  <2>. SUFFICES ASSUME Init, NEW i \in Instances PROVE SlotOf(op[i]) = Lease!Idle
    BY DEF Lease!Init
  <2>1. op[i] = NoOp  BY DEF Init
  <2>. QED  BY <2>1 DEF SlotOf, NoOp, Lease!Idle
<1>2. TruthInv /\ [Next]_vars => Lease!Next  BY NextRefines
<1>. QED  BY <1>1, <1>2, TruthInvariance, PTL DEF Spec, ImplementsLeaseQueue, Lease!Spec

-----------------------------------------------------------------------------
(* Rows and what refers to them, whatever stalls: an operation and a lab   *)
(* belong to an instance that has had a row.                               *)

KeepsRow(j) == j.was.status \notin Gone /\ j.mem.status \notin Gone

PassLife == /\ \A i \in rec.up : row[i].status # "none"
            /\ \A i \in rec.orphans : row[i].status = "deleted"

LifeInv ==
  /\ IInv
  /\ \A i \in Instances :
       /\ op[i].state # "none" => row[i].status \notin Gone
       /\ row[i].status = "none" => ~ runtime[i]
  /\ \A w \in Workers :
       wk[w].inst # NoOne => KeepsRow(wk[w]) /\ row[wk[w].inst].status # "none"
  /\ PassLife

\* A row comes once, and goes for good.
RowsLast ==
  \A i \in Instances : /\ row[i].status \notin Gone => row'[i].status \notin Gone
                       /\ row[i].status \in Gone => row'[i].status = row[i].status

LEMMA WorkerLife ==
  ASSUME LifeInv, IInv', UNCHANGED rec, RowsLast,
         \A i \in Instances :
           /\ op'[i].state # "none" => op[i].state # "none" \/ row[i].status \notin Gone
           /\ runtime'[i] => runtime[i] \/ row[i].status # "none",
         NEW w \in Workers, NEW j, wk' = [wk EXCEPT ![w] = j],
         j.inst # NoOne => KeepsRow(j) /\ row[j.inst].status # "none"
  PROVE  LifeInv'
<1>1. /\ wk \in [Workers -> Jobs] /\ rec \in Passes /\ wk' \in [Workers -> Jobs]
  BY DEF LifeInv, IInv, JobsOK, RestOK
<1>2. wk'[w] = j /\ \A v \in Workers : v # w => wk'[v] = wk[v]  BY <1>1
<1>3. \A v \in Workers : wk'[v].inst # NoOne => wk'[v].inst \in Instances
  BY <1>1 DEF Jobs
<1>4. \A i \in Instances : row[i].status # "none" => row'[i].status # "none"
  BY DEF RowsLast, Gone
<1>5. ASSUME NEW v \in Workers, wk'[v].inst # NoOne
      PROVE  KeepsRow(wk'[v]) /\ row'[wk'[v].inst].status # "none"
  BY <1>2, <1>3, <1>4, <1>5 DEF LifeInv
<1>6. ASSUME NEW i \in Instances
      PROVE  /\ op'[i].state # "none" => row'[i].status \notin Gone
             /\ row'[i].status = "none" => ~ runtime'[i]
  BY <1>4 DEF LifeInv, RowsLast
<1>7. PassLife'
  BY <1>1 DEF LifeInv, PassLife, RowsLast, Gone, Passes
<1>. QED  BY <1>5, <1>6, <1>7 DEF LifeInv, KeepsRow

\* Steps that take no worker's job.
LEMMA OthersLife ==
  ASSUME LifeInv, IInv', UNCHANGED wk, PassLife',
         \A i \in Instances :
           /\ row[i].status # "none" => row'[i].status # "none"
           /\ op'[i].state # "none" => row'[i].status \notin Gone
           /\ runtime'[i] => runtime[i]
  PROVE  LifeInv'
<1>1. \A w \in Workers : wk[w].inst # NoOne => wk[w].inst \in Instances
  BY DEF LifeInv, IInv, JobsOK, Jobs
<1>2. \A w \in Workers :
        wk[w].inst # NoOne => KeepsRow(wk[w]) /\ row'[wk[w].inst].status # "none"
  BY <1>1 DEF LifeInv
<1>. QED  BY <1>2 DEF LifeInv, KeepsRow

LEMMA PassLasts ==
  ASSUME LifeInv, UNCHANGED rec,
         \A i \in Instances :
           /\ row[i].status # "none" => row'[i].status # "none"
           /\ row[i].status = "deleted" => row'[i].status = "deleted"
  PROVE  PassLife'
BY DEF LifeInv, PassLife, IInv, RestOK, Passes

\* Recovery and repair touch rows that stand.
LEMMA RecoveredLasts ==
  ASSUME NEW i \in Instances, row[i] \in Rows, row[i].status \notin Gone
  PROVE  RecoveredRow(i).status \notin Gone
<1>1. CASE AtCeiling(i)
  <2>. DEFINE s == IF op[i].kind \in {"deploy", "destroy"}
                   THEN [row[i] EXCEPT !.status = "active", !.error = TRUE,
                                       !.presence = "unknown"]
                   ELSE row[i]
  <2>1. s \in Rows /\ s.status \notin Gone
    BY DEF Rows, Statuses, LiveStatus, Presences, Gone
  <2>2. \/ CeilingRow(i) = s
        \/ CeilingRow(i) = [s EXCEPT !.status = "error", !.consoles = FALSE, !.error = TRUE]
    BY DEF CeilingRow, Escalate
  <2>. HIDE DEF s
  <2>. QED  BY <1>1, <2>1, <2>2 DEF RecoveredRow, Rows, Gone
<1>2. CASE ~ AtCeiling(i)
  BY <1>2 DEF RecoveredRow, RequeuedRow, Rows, Gone
<1>. QED  BY <1>1, <1>2

LEMMA SweepLife ==
  ASSUME LifeInv, NEW E \in SUBSET Instances, LapsedClaims(E), ReconcileStuck(E)
  PROVE  /\ RowsLast
         /\ \A i \in Instances : op'[i].state # "none" => row[i].status \notin Gone
<1>. DEFINE r == [i \in Instances |-> IF i \in E THEN RecoveredRow(i) ELSE row[i]]
            o == [i \in Instances |-> IF i \in E THEN RecoveredOp(i) ELSE op[i]]
            missing == {i \in Instances : Stranded(r[i], o[i])}
            rr(i) == [r[i] EXCEPT !.status = IF @ = "resetting" THEN "active" ELSE "queued",
                                  !.presence = "unknown"]
<1>1. \A i \in Instances : row[i] \in Rows /\ RecoveredRow(i) \in Rows
  BY RecoveredOK, RowKnown DEF LifeInv
<1>2. \A i \in E : row[i].status \notin Gone
  BY DEF LapsedClaims, ClaimsOfDead, ClaimsOfLive, LifeInv
<1>3. \A i \in Instances :
        /\ r[i] \in Rows
        /\ row[i].status \notin Gone => r[i].status \notin Gone
        /\ row[i].status \in Gone => r[i] = row[i] /\ o[i] = op[i]
  BY <1>1, <1>2, RecoveredLasts
<1>4. /\ row' = [i \in Instances |-> IF i \in missing THEN rr(i) ELSE r[i]]
      /\ op' = [i \in Instances |-> IF i \in missing THEN NewOp(i, "deploy", "auto") ELSE o[i]]
  BY DEF ReconcileStuck
<1>5. \A i \in missing : i \in Instances /\ r[i].status \in Transient  BY DEF Stranded
<1>. HIDE DEF r, o, missing
<1>6. \A i \in missing : rr(i).status \notin Gone  BY <1>3, <1>5 DEF Rows, Gone
<1>7. \A i \in missing : row[i].status \notin Gone  BY <1>3, <1>5 DEF Transient, Gone
<1>. HIDE DEF rr
<1>8. RowsLast  BY <1>3, <1>4, <1>6, <1>7 DEF RowsLast
<1>9. \A i \in Instances : op'[i].state # "none" => row[i].status \notin Gone
  BY <1>3, <1>4, <1>7 DEF LifeInv
<1>. QED  BY <1>8, <1>9

LEMMA StartWorkerLife ==
  ASSUME LifeInv, IInv', NEW w \in Workers, StartWorker(w)
  PROVE  LifeInv'
<1>. DEFINE E == {i \in Instances : op[i].state = "claimed" /\ op[i].by # w}
<1>1. /\ row' = [i \in Instances |-> IF i \in E THEN RecoveredRow(i) ELSE row[i]]
      /\ op' = [i \in Instances |-> IF i \in E THEN RecoveredOp(i) ELSE op[i]]
      /\ wk' = [wk EXCEPT ![w] = NoJob("loop")] /\ UNCHANGED <<runtime, rec>>
  BY DEF StartWorker
<1>2. \A i \in E : i \in Instances /\ row[i].status \notin Gone /\ row[i] \in Rows
  BY RowKnown DEF LifeInv
<1>. HIDE DEF E
<1>3. RowsLast  BY <1>1, <1>2, RecoveredLasts DEF RowsLast
<1>4. \A i \in Instances : op'[i].state # "none" => op[i].state # "none" \/ row[i].status \notin Gone
  BY <1>1, <1>2
<1>5. NoJob("loop").inst = NoOne  BY DEF NoJob
<1>. QED  BY <1>1, <1>3, <1>4, <1>5, WorkerLife

LEMMA PollStuckLife ==
  ASSUME LifeInv, IInv', NEW w \in Workers, PollStuck(w)
  PROVE  LifeInv'
<1>1. PICK E \in SUBSET Instances : LapsedClaims(E) /\ ReconcileStuck(E)  BY DEF PollStuck
<1>2. SetPc(w, "drain") /\ UNCHANGED <<runtime, rec>> /\ wk[w].pc \in IdlePcs /\ IInv
  BY DEF PollStuck, IdlePcs, LifeInv
<1>3. PICK j : wk' = [wk EXCEPT ![w] = j] /\ SameJob(j, wk[w])  BY <1>2, SetPcJob
<1>4. j.inst = NoOne  BY <1>2, <1>3, IdleJob DEF SameJob
<1>. QED  BY <1>1, <1>2, <1>3, <1>4, SweepLife, WorkerLife

LEMMA ClaimLife ==
  ASSUME LifeInv, IInv', NEW w \in Workers, NEW i \in Instances, Claim(w, i)
  PROVE  LifeInv'
<1>. DEFINE j == [pc |-> IF op[i].kind = "deploy" /\ op[i].origin # "runtime_repair"
                         THEN "admit" ELSE "start",
                  inst |-> i, id |-> op[i].id, kind |-> op[i].kind, origin |-> op[i].origin,
                  attempts |-> op[i].attempts + 1, was |-> row[i], mem |-> row[i],
                  res |-> "none"]
<1>1. op[i].state = "queued" /\ UNCHANGED <<row, runtime, rec>>
  BY DEF Claim, Ready
<1>2. wk' = [wk EXCEPT ![w] = j]  BY Zenon DEF Claim
<1>3. \A k \in Instances : k # i => op'[k] = op[k]  BY DEF Claim, LifeInv, IInv, OpsOK
<1>4. row[i].status \notin Gone  BY <1>1 DEF LifeInv
<1>5. j.inst = i /\ KeepsRow(j)  BY <1>4 DEF KeepsRow
<1>. HIDE DEF j
<1>6. \A k \in Instances : op'[k].state # "none" => op[k].state # "none" \/ row[k].status \notin Gone
  BY <1>3, <1>4
<1>7. RowsLast  BY <1>1 DEF RowsLast
<1>8. row[j.inst].status # "none"  BY <1>4, <1>5 DEF Gone
<1>. QED  BY <1>1, <1>2, <1>5, <1>6, <1>7, <1>8, WorkerLife

\* Steps of a worker with a job in hand that write neither rows nor operations.
LEMMA QuietLife ==
  ASSUME LifeInv, IInv', UNCHANGED <<row, op, rec>>,
         NEW w \in Workers, wk[w].pc \notin IdlePcs,
         \A k \in Instances : k # wk[w].inst => runtime'[k] = runtime[k],
         NEW j, wk' = [wk EXCEPT ![w] = j],
         j.inst # NoOne => SameJob(j, wk[w]) /\ j.mem.status \notin Gone
  PROVE  LifeInv'
<1>1. IInv /\ wk[w].inst \in Instances /\ wk[w].inst # NoOne
  BY JobFacts, NoOneAssumption DEF LifeInv
<1>2. KeepsRow(wk[w]) /\ row[wk[w].inst].status # "none"  BY <1>1 DEF LifeInv
<1>3. RowsLast  BY DEF RowsLast
<1>4. j.inst # NoOne => KeepsRow(j) /\ row[j.inst].status # "none"
  BY <1>2 DEF KeepsRow, SameJob
<1>5. \A i \in Instances : runtime'[i] => runtime[i] \/ row[i].status # "none"
  BY <1>2
<1>. QED  BY <1>3, <1>4, <1>5, WorkerLife

\* What the engine calls make of the session's view is never a missing row.
LEMMA EndLife ==
  ASSUME LifeInv, IInv', UNCHANGED <<row, op, rec>>,
         NEW w \in Workers, wk[w].pc \notin IdlePcs,
         UNCHANGED runtime \/ Stops(wk[w].inst) \/ Runs(wk[w].inst),
         NEW res, NEW mem, End(w, res, mem), mem.status \notin Gone
  PROVE  LifeInv'
<1>1. IInv /\ wk[w].inst \in Instances  BY JobFacts DEF LifeInv
<1>2. PICK j : wk' = [wk EXCEPT ![w] = j] /\ SameJob(j, wk[w]) /\ j.mem = mem
  BY <1>1, EndJob
<1>3. \A k \in Instances : k # wk[w].inst => runtime'[k] = runtime[k]
  BY <1>1, RuntimeMoves
<1>. QED  BY <1>2, <1>3, QuietLife

LEMMA SetPcLife ==
  ASSUME LifeInv, IInv', UNCHANGED <<row, op, rec>>,
         NEW w \in Workers, wk[w].pc \notin IdlePcs,
         UNCHANGED runtime \/ Stops(wk[w].inst), NEW pc, SetPc(w, pc)
  PROVE  LifeInv'
<1>1. IInv /\ wk[w].inst \in Instances /\ wk[w].inst # NoOne
  BY JobFacts, NoOneAssumption DEF LifeInv
<1>2. PICK j : wk' = [wk EXCEPT ![w] = j] /\ SameJob(j, wk[w]) /\ j.mem = wk[w].mem
  BY <1>1, SetPcJob
<1>3. \A k \in Instances : k # wk[w].inst => runtime'[k] = runtime[k]
  BY <1>1, RuntimeMoves
<1>4. wk[w].mem.status \notin Gone  BY <1>1 DEF LifeInv, KeepsRow
<1>. QED  BY <1>2, <1>3, <1>4, QuietLife

LEMMA EngineLife ==
  ASSUME LifeInv, IInv', NEW w \in Workers,
         \/ KillOld(w) \/ Provision(w) \/ ProvisionIfAbsent(w) \/ Confirm(w) \/ Resync(w)
         \/ DestroyLab(w) \/ DestroyIfPresent(w) \/ RunChecks(w) \/ LockBusy(w)
  PROVE  LifeInv'
<1>. DEFINE m == wk[w].mem
            i == wk[w].inst
<1>1. wk[w].pc \notin IdlePcs /\ UNCHANGED <<row, op, rec>>
  BY DEF KillOld, Provision, ProvisionIfAbsent, Confirm, Resync, InspectAndRebuild,
         DestroyLab, DestroyIfPresent, RunChecks, LockBusy, Engine, EnginePcs, IdlePcs
<1>2. /\ m \in Rows /\ wk[w].was \in Rows /\ m.status \notin Gone
      /\ wk[w].was.status \notin Gone
  BY <1>1, JobFacts, NoOneAssumption DEF LifeInv, KeepsRow
<1>3. /\ [m EXCEPT !.status = "active", !.presence = "unknown", !.error = TRUE].status \notin Gone
      /\ [m EXCEPT !.status = "error", !.error = TRUE, !.presence = "absent"].status \notin Gone
      /\ [m EXCEPT !.status = "active", !.error = TRUE, !.presence = "unknown"].status \notin Gone
      /\ [m EXCEPT !.presence = "absent"].status \notin Gone
  BY <1>2 DEF Rows, Gone
<1>4. Destroyed(m).status \notin Gone /\ Deployed(m).status \notin Gone
  BY <1>2, RowFields DEF Gone
<1>5. Unconfirmed(m, wk[w].was).status \notin Gone
  BY <1>2, UnconfirmedFields DEF Gone
<1>6. \/ \E res, mem : /\ End(w, res, mem) /\ mem.status \notin Gone
                       /\ UNCHANGED runtime \/ Stops(i) \/ Runs(i)
      \/ \E pc : SetPc(w, pc) /\ (UNCHANGED runtime \/ Stops(i))
  <2>1. CASE KillOld(w)  BY <1>3, <2>1 DEF KillOld
  <2>2. CASE Provision(w)  BY <1>3, <1>4, <2>2 DEF Provision
  <2>3. CASE ProvisionIfAbsent(w)  BY <1>2, <1>4, <2>3 DEF ProvisionIfAbsent
  <2>4. CASE Confirm(w) \/ Resync(w)
    BY <1>2, <1>4, <1>5, <2>4 DEF Confirm, Resync, InspectAndRebuild
  <2>5. CASE DestroyLab(w)  BY <1>2, <1>4, <2>5 DEF DestroyLab
  <2>6. CASE DestroyIfPresent(w)  BY <1>2, <1>3, <1>4, <2>6 DEF DestroyIfPresent
  <2>7. CASE RunChecks(w) \/ LockBusy(w)  BY <1>2, <2>7 DEF RunChecks, LockBusy
  <2>. QED  BY <2>1, <2>2, <2>3, <2>4, <2>5, <2>6, <2>7
<1>. QED  BY <1>1, <1>6, EndLife, SetPcLife

LEMMA BeginWorkLife ==
  ASSUME LifeInv, IInv', NEW w \in Workers, BeginWork(w)
  PROVE  LifeInv'
<1>. DEFINE i == wk[w].inst
<1>1. /\ wk[w].pc \notin IdlePcs /\ UNCHANGED <<op, runtime, rec>>
      /\ IInv
  BY DEF BeginWork, IdlePcs, LifeInv
<1>2. /\ i \in Instances /\ i # NoOne /\ KeepsRow(wk[w]) /\ row[i].status # "none"
      /\ row[i] \in Rows
  BY <1>1, JobFacts, RowKnown, NoOneAssumption DEF LifeInv
<1>3. CASE UNCHANGED row
  <2>1. (\E pc : SetPc(w, pc)) \/ End(w, "fail", wk[w].mem)  BY DEF BeginWork
  <2>. QED  BY <1>1, <1>2, <1>3, <2>1, SetPcLife, EndLife DEF KeepsRow
<1>4. CASE ~ UNCHANGED row
  <2>1. row' = [row EXCEPT ![i] = MarkDestroying(row[i])] /\ SetPc(w, "destroy")
    BY <1>4 DEF BeginWork
  <2>2. RowsLast
    BY <1>1, <1>2, <2>1, RowFields DEF RowsLast, IInv, RowsOK
  <2>3. PICK j : wk' = [wk EXCEPT ![w] = j] /\ SameJob(j, wk[w]) /\ j.mem = wk[w].mem
    BY <1>1, <2>1, SetPcJob
  <2>4. KeepsRow(j) /\ row[j.inst].status # "none"  BY <1>2, <2>3 DEF KeepsRow, SameJob
  <2>. QED  BY <1>1, <2>2, <2>3, <2>4, WorkerLife
<1>. QED  BY <1>3, <1>4

\* Steps that write the row and the operation of the job in hand.
LEMMA HeldLife ==
  ASSUME LifeInv, IInv', UNCHANGED <<runtime, rec>>,
         NEW w \in Workers, wk[w].pc \notin IdlePcs, row[wk[w].inst].status \notin Gone,
         NEW s, s.status \notin Gone,
         row' = row \/ row' = [row EXCEPT ![wk[w].inst] = s],
         \A k \in Instances : k # wk[w].inst => op'[k] = op[k],
         NEW j, wk' = [wk EXCEPT ![w] = j], j.inst # NoOne => SameJob(j, wk[w]) /\ KeepsRow(j)
  PROVE  LifeInv'
<1>1. IInv /\ wk[w].inst \in Instances  BY JobFacts DEF LifeInv
<1>2. RowsLast  BY <1>1 DEF RowsLast, IInv, RowsOK
<1>3. \A k \in Instances : op'[k].state # "none" => op[k].state # "none" \/ row[k].status \notin Gone
  OBVIOUS
<1>4. j.inst # NoOne => KeepsRow(j) /\ row[j.inst].status # "none"
  BY DEF SameJob, Gone
<1>. QED  BY <1>2, <1>3, <1>4, WorkerLife

LEMMA ReserveLife ==
  ASSUME LifeInv, IInv', NEW w \in Workers, Reserve(w)
  PROVE  LifeInv'
<1>. DEFINE i == wk[w].inst
            was == wk[w].was
            s == [row[i] EXCEPT
                    !.status = Written(was.status, ReservedStatus(was.status), row[i].status),
                    !.presence = Written(was.presence, "unknown", row[i].presence)]
<1>1. /\ wk[w].pc \notin IdlePcs /\ Exists(i) /\ SetPc(w, "reserved") /\ IInv
      /\ UNCHANGED <<op, runtime, rec>>
  BY DEF Reserve, IdlePcs, LifeInv
<1>2. /\ i \in Instances /\ i # NoOne /\ KeepsRow(wk[w]) /\ row[i] \in Rows
      /\ row[i].status \notin Gone
  BY <1>1, JobFacts, RowKnown, NoOneAssumption DEF LifeInv, Exists, Gone
<1>3. row' = [row EXCEPT ![i] = s]  BY <1>1, <1>2 DEF Reserve, IInv, RowsOK
<1>4. s.status \notin Gone
  <2>1. s.status \in {"resetting", "provisioning", row[i].status}
    BY <1>2 DEF Rows, Written, ReservedStatus
  <2>. QED  BY <1>2, <2>1 DEF Gone
<1>. HIDE DEF s
<1>5. PICK j : wk' = [wk EXCEPT ![w] = j] /\ SameJob(j, wk[w]) /\ j.mem = wk[w].mem
  BY <1>1, SetPcJob
<1>6. KeepsRow(j)  BY <1>2, <1>5 DEF KeepsRow, SameJob
<1>. QED  BY <1>1, <1>2, <1>3, <1>4, <1>5, <1>6, HeldLife

\* A deferral writes by primary key, but only to a row that stands.
LEMMA DeferForCapacityLife ==
  ASSUME LifeInv, IInv', NEW w \in Workers, DeferForCapacity(w)
  PROVE  LifeInv'
<1>. DEFINE i == wk[w].inst
            s == [row[i] EXCEPT !.status = Written(wk[w].was.status, "queued", row[i].status)]
<1>1. /\ wk[w].pc \notin IdlePcs /\ Exists(i) /\ Drop(w) /\ IInv
      /\ UNCHANGED <<runtime, rec>>
  BY DEF DeferForCapacity, IdlePcs, LifeInv
<1>2. /\ i \in Instances /\ row[i] \in Rows /\ row[i].status \notin Gone
  BY <1>1, JobFacts, RowKnown DEF Exists, Gone
<1>3. /\ row' = row \/ row' = [row EXCEPT ![i] = s]
      /\ \A k \in Instances : k # i => op'[k] = op[k]
  BY <1>1, <1>2 DEF DeferForCapacity, IInv, RowsOK, OpsOK
<1>4. s.status \notin Gone
  <2>1. s.status \in {"queued", row[i].status}  BY <1>2 DEF Rows, Written
  <2>. QED  BY <1>2, <2>1 DEF Gone
<1>. HIDE DEF s
<1>5. PICK j : wk' = [wk EXCEPT ![w] = j] /\ j.inst = NoOne  BY <1>1, DropJob
<1>. QED  BY <1>1, <1>2, <1>3, <1>4, <1>5, HeldLife

LEMMA ConfirmReservationLife ==
  ASSUME LifeInv, IInv', NEW w \in Workers, ConfirmReservation(w)
  PROVE  LifeInv'
<1>. DEFINE i == wk[w].inst
            j == [wk[w] EXCEPT !.mem = row[i],
                    !.pc = IF wk[w].origin = "runtime_repair" THEN "ifabsent" ELSE "kill"]
<1>1. /\ wk[w].pc \notin IdlePcs /\ Holds(w) /\ wk[w] \in Jobs /\ wk' = [wk EXCEPT ![w] = j]
      /\ UNCHANGED <<row, op, runtime, rec>>
  BY DEF ConfirmReservation, IdlePcs, LifeInv, IInv, JobsOK
<1>2. SameJob(j, wk[w]) /\ j.mem = row[i]  BY <1>1 DEF SameJob, Jobs
<1>3. row[i].status \notin Gone  BY <1>1 DEF Holds, LifeInv
<1>. HIDE DEF j
<1>. QED  BY <1>1, <1>2, <1>3, QuietLife

\* A fenced settlement finds the row its operation belongs to.
LEMMA SettleLife ==
  ASSUME LifeInv, IInv', NEW w \in Workers,
         SettleOk(w) \/ SettleFailed(w) \/ SettleDeferred(w)
  PROVE  LifeInv'
<1>. DEFINE i == wk[w].inst
            m == wk[w].mem
            esc == Escalate(FailedRow(wk[w], row[i]), fails[i], wk[w].kind, wk[w].origin,
                            wk[w].attempts)
            back == [row[i] EXCEPT !.status = wk[w].was.status, !.error = wk[w].was.error,
                                   !.presence = wk[w].was.presence]
<1>1. /\ wk[w].pc \notin IdlePcs /\ Holds(w) /\ Drop(w) /\ IInv /\ UNCHANGED <<runtime, rec>>
  BY DEF SettleOk, SettleFailed, SettleDeferred, SettleFence, IdlePcs, LifeInv
<1>2. /\ i \in Instances /\ row[i] \in Rows /\ row[i].status \notin Gone /\ KeepsRow(wk[w])
      /\ i # NoOne /\ wk[w].kind \in Kinds
  BY <1>1, RowKnown, JobFacts, NoOneAssumption DEF Holds, LifeInv
<1>3. \A k \in Instances : k # i => op'[k] = op[k]
  BY <1>1, <1>2 DEF SettleOk, SettleFailed, SettleDeferred, IInv, OpsOK
<1>4. PICK j : wk' = [wk EXCEPT ![w] = j] /\ j.inst = NoOne  BY <1>1, DropJob
<1>5. m.status \notin Gone /\ back.status \notin Gone
  BY <1>2 DEF KeepsRow, Rows
<1>6. esc.status \notin Gone
  <2>. DEFINE f == FailedRow(wk[w], row[i])
  <2>1. f \in Rows /\ f.status \in {"active", "error", row[i].status}
    BY <1>2, <1>5 DEF FailedRow, Rows, Kinds, Statuses, LiveStatus, Presences
  <2>2. esc = f \/ esc = [f EXCEPT !.status = "error", !.consoles = FALSE, !.error = TRUE]
    BY DEF Escalate
  <2>. HIDE DEF f
  <2>. QED  BY <1>2, <2>1, <2>2 DEF Rows, Gone
<1>7. \/ row' = row
      \/ row' = [row EXCEPT ![i] = m]
      \/ row' = [row EXCEPT ![i] = esc]
      \/ row' = [row EXCEPT ![i] = back]
  <2>1. CASE SettleOk(w)  BY <2>1 DEF SettleOk
  <2>2. CASE SettleFailed(w)  BY <2>2 DEF SettleFailed
  <2>3. CASE SettleDeferred(w)
    BY <1>1, <1>2, <2>3 DEF SettleDeferred, IInv, RowsOK
  <2>. QED  BY <2>1, <2>2, <2>3
<1>. HIDE DEF esc, back
<1>. QED  BY <1>1, <1>2, <1>3, <1>4, <1>5, <1>6, <1>7, HeldLife

LEMMA PlainLife ==
  ASSUME LifeInv, IInv', NEW w \in Workers,
         EndDrain(w) \/ Stale(w) \/ AfterDestroy(w) \/ CrashWorker(w)
  PROVE  LifeInv'
<1>1. IInv  BY DEF LifeInv
<1>2. UNCHANGED <<row, runtime, rec>>
  BY DEF EndDrain, Stale, AfterDestroy, CrashWorker
<1>3. RowsLast  BY <1>2 DEF RowsLast
<1>4. \A i \in Instances : op'[i].state = op[i].state
  <2>1. CASE EndDrain(w)
    <3>1. \A i \in Instances : op[i] \in Ops /\ op'[i] = [op[i] EXCEPT !.ready = TRUE]
      BY <1>1, <2>1, RowKnown DEF EndDrain
    <3>. QED  BY <3>1 DEF Ops
  <2>2. CASE Stale(w) \/ AfterDestroy(w) \/ CrashWorker(w)
    BY <2>2 DEF Stale, AfterDestroy, CrashWorker
  <2>. QED  BY <2>1, <2>2
<1>5. CASE AfterDestroy(w)
  BY <1>2, <1>5, SetPcLife DEF AfterDestroy, IdlePcs
<1>6. CASE ~ AfterDestroy(w)
  <2>1. PICK j : wk' = [wk EXCEPT ![w] = j] /\ j.inst = NoOne
    <3>1. CASE EndDrain(w)
      <4>1. wk[w].inst = NoOne /\ SetPc(w, "loop")
        BY <1>1, <3>1, IdleJob DEF EndDrain, IdlePcs
      <4>. QED  BY <1>1, <4>1, SetPcJob DEF SameJob
    <3>2. CASE Stale(w)  BY <3>2, DropJob DEF Stale
    <3>3. CASE CrashWorker(w)
      <4>1. NoJob("dead").inst = NoOne  BY DEF NoJob
      <4>. QED  BY <3>3, <4>1 DEF CrashWorker
    <3>. QED  BY <1>6, <3>1, <3>2, <3>3
  <2>. QED  BY <1>2, <1>3, <1>4, <2>1, WorkerLife
<1>. QED  BY <1>5, <1>6

LEMMA WorkerStepLife ==
  ASSUME LifeInv, IInv', NEW w \in Workers, WorkerStep(w) \/ CrashWorker(w)
  PROVE  LifeInv'
BY StartWorkerLife, PollStuckLife, ClaimLife, EngineLife, BeginWorkLife, ReserveLife,
   DeferForCapacityLife, ConfirmReservationLife, SettleLife, PlainLife
DEF WorkerStep

\* The reconciler takes as orphans labs whose row it found gone.
LEMMA RecLife ==
  ASSUME LifeInv, IInv', RecStep
  PROVE  LifeInv'
<1>1. IInv /\ rec \in Passes  BY DEF LifeInv, IInv, RestOK
<1>2. UNCHANGED wk
  BY DEF RecStep, RecStuck, RecInventory, RecPlan, RecDestroyOrphan, RecQueue, QueueRepairs,
         RecStall, RecAbandon
<1>3. CASE RecStuck
  <2>1. PICK E \in SUBSET Instances : LapsedClaims(E) /\ ReconcileStuck(E)  BY <1>3 DEF RecStuck
  <2>2. rec'.up = {} /\ rec'.orphans = {} /\ UNCHANGED runtime
    BY <1>3 DEF RecStuck, NoPass
  <2>3. \A i \in Instances :
          /\ row[i].status # "none" => row'[i].status # "none"
          /\ op'[i].state # "none" => row'[i].status \notin Gone
    BY <2>1, SweepLife DEF RowsLast, Gone
  <2>. QED  BY <1>2, <2>2, <2>3, OthersLife DEF PassLife
<1>4. CASE RecQueue
  <2>1. PICK up : QueueRepairs(up)  BY <1>4 DEF RecQueue
  <2>. DEFINE clean == ToCleanUp(up)
              repair == ToRepair(up)
  <2>2. /\ op' = [i \in Instances |->
                    CASE i \in clean -> NewOp(i, "destroy", "runtime_cleanup")
                      [] i \in repair -> NewOp(i, "deploy", "runtime_repair")
                      [] OTHER -> op[i]]
        /\ row' = [i \in Instances |->
                    CASE i \in clean -> [row[i] EXCEPT !.presence = "present"]
                      [] i \in repair -> [row[i] EXCEPT !.presence = "absent"]
                      [] OTHER -> row[i]]
        /\ rec' = NoPass /\ UNCHANGED runtime
    BY <2>1 DEF QueueRepairs
  <2>3. \A i \in clean \cup repair : row[i].status \notin Gone
    BY DEF ToCleanUp, ToRepair, NeedsCleanup, NeedsRepair, Exists, LiveStatus, Gone
  <2>. HIDE DEF clean, repair
  <2>4. \A i \in Instances : row[i] \in Rows /\ row'[i].status = row[i].status
    <3>1. \A i \in Instances : row[i] \in Rows  BY <1>1, RowKnown
    <3>2. \A i \in Instances : row'[i] \in {row[i], [row[i] EXCEPT !.presence = "present"],
                                            [row[i] EXCEPT !.presence = "absent"]}
      BY <2>2
    <3>. QED  BY <3>1, <3>2 DEF Rows
  <2>5. \A i \in Instances : op'[i].state # "none" => row[i].status \notin Gone
    BY <2>2, <2>3 DEF LifeInv
  <2>6. PassLife'  BY <2>2 DEF NoPass, PassLife
  <2>. QED  BY <1>2, <2>2, <2>4, <2>5, <2>6, OthersLife
<1>5. CASE \/ RecInventory \/ RecPlan \/ (\E i \in Instances : RecDestroyOrphan(i))
           \/ RecStall \/ RecAbandon
  <2>1. UNCHANGED <<row, op>>
    BY <1>5 DEF RecInventory, RecPlan, RecDestroyOrphan, RecStall, RecAbandon
  <2>2. /\ rec'.up \in {rec.up, Running, {}}
        /\ rec'.orphans \subseteq rec.orphans \cup {i \in rec.up : IsOrphan(i)}
    <3>1. CASE RecInventory  BY <1>1, <3>1 DEF RecInventory, Passes
    <3>2. CASE RecPlan  BY <3>2 DEF RecPlan
    <3>3. CASE \E i \in Instances : RecDestroyOrphan(i)
      BY <1>1, <3>3 DEF RecDestroyOrphan, Passes
    <3>4. CASE RecStall  BY <1>1, <3>4 DEF RecStall, Passes
    <3>5. CASE RecAbandon  BY <3>5 DEF RecAbandon, NoPass
    <3>. QED  BY <1>5, <3>1, <3>2, <3>3, <3>4, <3>5
  <2>3. \A i \in Running : row[i].status # "none"  BY DEF Running, LifeInv
  <2>4. PassLife'
    <3>1. \A i \in rec'.up : row[i].status # "none"  BY <2>2, <2>3 DEF LifeInv, PassLife
    <3>2. \A i \in rec'.orphans : row[i].status = "deleted"
      BY <2>2 DEF LifeInv, PassLife, IsOrphan, Exists
    <3>. QED  BY <2>1, <3>1, <3>2 DEF PassLife
  <2>5. \A i \in Instances : runtime'[i] => runtime[i]
    <3>1. UNCHANGED runtime \/ \E i \in Instances : Stops(i)
      BY <1>5 DEF RecInventory, RecPlan, RecDestroyOrphan, RecStall, RecAbandon
    <3>. QED  BY <1>1, <3>1, RuntimeMoves
  <2>. QED  BY <1>2, <2>1, <2>4, <2>5, OthersLife DEF LifeInv
<1>. QED  BY <1>3, <1>4, <1>5 DEF RecStep

LEMMA OutsideLife ==
  ASSUME LifeInv, IInv', NEW i \in Instances,
         RequestStep(i) \/ RetryDelayOver(i) \/ LoseRuntime(i) \/ EraseRow(i)
  PROVE  LifeInv'
<1>1. IInv /\ row[i] \in Rows /\ op[i] \in Ops  BY RowKnown DEF LifeInv
<1>2. UNCHANGED <<wk, rec>>
  BY DEF RequestStep, Launch, ReadRequest, EnqueueRequest, RetryDelayOver, LoseRuntime, EraseRow
<1>3. \A k \in Instances : k # i => row'[k] = row[k] /\ op'[k] = op[k]
  BY <1>1
  DEF RequestStep, Launch, ReadRequest, EnqueueRequest, Enqueue, RetryDelayOver, LoseRuntime,
      EraseRow, IInv, RowsOK, OpsOK
<1>4. \A k \in Instances : runtime'[k] => runtime[k]
  <2>1. UNCHANGED runtime \/ Stops(i)
    BY DEF RequestStep, Launch, ReadRequest, EnqueueRequest, RetryDelayOver, LoseRuntime, EraseRow
  <2>. QED  BY <1>1, <2>1, RuntimeMoves
<1>5. /\ row[i].status # "none" => row'[i].status # "none"
      /\ row[i].status = "deleted" => row'[i].status = "deleted"
      /\ op'[i].state # "none" => row'[i].status \notin Gone
  <2>1. CASE Launch(i)
    <3>1. row[i].status = "none" /\ row'[i].status = "queued"
      BY <1>1, <2>1 DEF Launch, IInv, RowsOK, Rows
    <3>. QED  BY <3>1 DEF Gone
  <2>2. CASE \E r \in Requests : ReadRequest(i, r)
    BY <2>2 DEF ReadRequest, LifeInv
  <2>3. CASE \E r \in Requests : EnqueueRequest(i, r)
    <3>1. UNCHANGED row /\ (UNCHANGED op \/ Exists(i))
      BY <2>3 DEF EnqueueRequest
    <3>. QED  BY <3>1 DEF LifeInv, Exists, Gone
  <2>4. CASE RetryDelayOver(i)
    <3>1. UNCHANGED row /\ op[i].state # "none"  BY <2>4 DEF RetryDelayOver
    <3>. QED  BY <3>1 DEF LifeInv
  <2>5. CASE LoseRuntime(i)  BY <2>5 DEF LoseRuntime, LifeInv
  <2>6. CASE EraseRow(i)
    <3>1. row'[i].status = "deleted" /\ op'[i].state = "none" /\ row[i].status # "none"
      BY <1>1, <2>6 DEF EraseRow, IInv, RowsOK, OpsOK, NoRow, NoOp, Exists
    <3>. QED  BY <3>1
  <2>. QED  BY <2>1, <2>2, <2>3, <2>4, <2>5, <2>6 DEF RequestStep
<1>6. PassLife'  BY <1>2, <1>3, <1>5, PassLasts
<1>7. \A k \in Instances :
        /\ row[k].status # "none" => row'[k].status # "none"
        /\ op'[k].state # "none" => row'[k].status \notin Gone
  BY <1>3, <1>5 DEF LifeInv
<1>. QED  BY <1>2, <1>4, <1>6, <1>7, OthersLife

LEMMA NextLife ==
  ASSUME LifeInv, [Next]_vars
  PROVE  LifeInv'
<1>1. IInv'  BY NextIInv DEF LifeInv
<1>2. CASE UNCHANGED vars
  <2>1. UNCHANGED <<row, op, runtime, wk, rec>>  BY <1>2 DEF vars
  <2>. QED  BY <1>1, <2>1 DEF LifeInv, PassLife, KeepsRow
<1>. QED  BY <1>1, <1>2, WorkerStepLife, RecLife, OutsideLife DEF Next

\* Operations, labs and plans belong to instances that have had a row.
THEOREM LifeInvariance == Spec => []LifeInv
<1>1. Init => LifeInv
  <2>. SUFFICES ASSUME Init PROVE LifeInv  OBVIOUS
  <2>1. IInv  BY InitIInv
  <2>2. \A w \in Workers : wk[w].inst = NoOne  BY DEF Init, NoJob
  <2>3. PassLife  BY DEF Init, NoPass, PassLife
  <2>. QED  BY <2>1, <2>2, <2>3 DEF Init, LifeInv, NoOp, NoRow
<1>2. LifeInv /\ [Next]_vars => LifeInv'  BY NextLife
<1>. QED  BY <1>1, <1>2, PTL DEF Spec

\* The reconciler's own destroys hit only labs whose row is gone: rows never
\* come back, and every other disagreement is left to conditional operations
\* (reconcile_runtime, phase 3).
THEOREM OrphansOnly == Spec => OnlyOrphansDestroyed
<1>1. LifeInv /\ [Next]_vars =>
        \A i \in Instances : rec' # rec /\ runtime'[i] # runtime[i] => ~ Exists(i)
  <2>. SUFFICES ASSUME LifeInv, [Next]_vars, NEW i \in Instances,
                       rec' # rec, runtime'[i] # runtime[i]
                PROVE  ~ Exists(i)
    OBVIOUS
  <2>1. ASSUME NEW w \in Workers, WorkerStep(w) \/ CrashWorker(w) PROVE rec' = rec
    BY <2>1
    DEF WorkerStep, CrashWorker, StartWorker, PollStuck, Claim, EndDrain, Stale, BeginWork,
        Reserve, DeferForCapacity, ConfirmReservation, KillOld, AfterDestroy, Provision,
        ProvisionIfAbsent, Confirm, Resync, InspectAndRebuild, DestroyLab, DestroyIfPresent,
        RunChecks, Engine, LockBusy, SettleOk, SettleFailed, SettleDeferred
  <2>2. ASSUME NEW k \in Instances,
               RequestStep(k) \/ RetryDelayOver(k) \/ LoseRuntime(k) \/ EraseRow(k)
        PROVE  rec' = rec
    BY <2>2
    DEF RequestStep, Launch, ReadRequest, EnqueueRequest, RetryDelayOver, LoseRuntime, EraseRow
  <2>3. PICK k \in Instances : RecDestroyOrphan(k)
    BY <2>1, <2>2
    DEF Next, vars, RecStep, RecStuck, RecInventory, RecPlan, RecQueue, QueueRepairs,
        RecStall, RecAbandon
  <2>4. row[k].status = "deleted"  BY <2>3 DEF RecDestroyOrphan, LifeInv, PassLife
  <2>5. k = i  BY <2>3, RuntimeMoves DEF RecDestroyOrphan, LifeInv
  <2>. QED  BY <2>4, <2>5 DEF Exists
<1>. QED  BY <1>1, LifeInvariance, PTL DEF Spec, OnlyOrphansDestroyed

-----------------------------------------------------------------------------
(* The cap, for a worker that is never restarted and labs that are never   *)
(* reset.                                                                  *)

OneIncarnation == \E w : Workers = {w}
NoResets == \A b \in Budgets : b["requests"] = 0

\* A lab takes a slot while it runs, and from its reservation on while its
\* deploy is open.
InSlot(r, o, up) ==
  /\ r.status \notin Gone
  /\ r.presence # "absent"
  /\ up \/ (o.state \in OpenStates /\ o.kind = "deploy")

Slots == {i \in Instances : InSlot(row[i], op[i], runtime[i])}

NeverKilled == \A w \in Workers : wk[w].pc # "dead"
Unlaunched == \A i \in Instances : row[i].status = "none" => row[i].presence = "absent"
OnlyReaps == budget["requests"] = 0 /\ \A x \in intents : x[2] = "reap"

\* What a worker saw counted stays counted while it works on it.
CountedStays ==
  \A w \in Workers :
    wk[w].inst \in Instances /\ wk[w].was.presence # "absent"
      /\ row[wk[w].inst].status \notin Gone
    => row[wk[w].inst].presence # "absent"

Calm == NeverKilled /\ Unlaunched /\ OnlyReaps /\ CountedStays
CapInv == TruthInv /\ Calm /\ Cardinality(Slots) <= MaxLabs

\* No instance enters a slot.
SlotsLast ==
  \A i \in Instances :
    InSlot(row'[i], op'[i], runtime'[i]) => InSlot(row[i], op[i], runtime[i])

LEMMA RunningInSlot ==
  ASSUME TruthInv, NEW i \in Instances, row[i].status \notin Gone, runtime[i]
  PROVE  InSlot(row[i], op[i], runtime[i])
BY DEF TruthInv, EntriesTrue, Entry, RowTrue, InSlot

LEMMA SlotsHeld ==
  ASSUME CapInv, SlotsLast
  PROVE  Cardinality(Slots') <= MaxLabs
<1>1. Slots \subseteq Instances /\ Slots' \subseteq Slots  BY DEF Slots, SlotsLast
<1>2. IsFiniteSet(Slots)  BY <1>1, InstancesAssumption, FS_Subset
<1>3. Cardinality(Slots') <= Cardinality(Slots)  BY <1>1, <1>2, FS_Subset
<1>4. Cardinality(Slots) \in Nat /\ Cardinality(Slots') \in Nat
  BY <1>1, <1>2, FS_Subset, FS_CardinalityType
<1>. QED  BY <1>3, <1>4, CapacityAssumption DEF CapInv

\* A step of the one worker, seen from what only counting needs.
LEMMA WorkerCalm ==
  ASSUME Calm, IInv, NEW w \in Workers, Workers = {w}, NEW j, wk' = [wk EXCEPT ![w] = j],
         j.pc # "dead", UNCHANGED intents, budget'["requests"] = budget["requests"],
         \A i \in Instances : row'[i].status = "none" => row'[i] = row[i],
         j.inst \in Instances /\ j.was.presence # "absent" /\ row'[j.inst].status \notin Gone
           => row'[j.inst].presence # "absent"
  PROVE  Calm'
<1>1. wk'[w] = j  BY DEF IInv, JobsOK
<1>2. NeverKilled'  BY <1>1 DEF NeverKilled
<1>3. Unlaunched'  BY DEF Calm, Unlaunched
<1>4. OnlyReaps'  BY DEF Calm, OnlyReaps
<1>5. CountedStays'  BY <1>1 DEF CountedStays
<1>. QED  BY <1>2, <1>3, <1>4, <1>5 DEF Calm

\* A step that writes no row, opens or closes no operation and starts no lab
\* but the reserved one.
LEMMA QuietCap ==
  ASSUME CapInv, NEW w \in Workers, Workers = {w}, NEW j, wk' = [wk EXCEPT ![w] = j],
         SameJob(j, wk[w]) \/ j.inst = NoOne, j.pc # "dead",
         UNCHANGED <<row, intents>>, budget'["requests"] = budget["requests"],
         \A i \in Instances : op'[i].state = op[i].state /\ op'[i].kind = op[i].kind,
         \A i \in Instances :
           runtime'[i] => runtime[i] \/ (i = wk[w].inst /\ wk[w].pc \in HeldPcs)
  PROVE  Calm' /\ SlotsLast
<1>1. IInv /\ Calm /\ TruthInv  BY DEF CapInv, TruthInv
<1>2. Calm'
  <2>1. j.inst \in Instances /\ j.was.presence # "absent" /\ row'[j.inst].status \notin Gone
        => row'[j.inst].presence # "absent"
    BY <1>1, NoOneAssumption DEF Calm, CountedStays, SameJob
  <2>. QED  BY <1>1, <2>1, WorkerCalm
<1>3. SlotsLast
  <2>. SUFFICES ASSUME NEW i \in Instances, InSlot(row'[i], op'[i], runtime'[i])
                PROVE  InSlot(row[i], op[i], runtime[i])
    BY DEF SlotsLast
  <2>1. CASE ~ runtime'[i]  BY <2>1 DEF InSlot
  <2>2. CASE runtime[i]  BY <1>1, <2>2, RunningInSlot DEF InSlot
  <2>3. CASE i = wk[w].inst /\ wk[w].pc \in HeldPcs
    <3>1. wk[w].pc \notin IdlePcs  BY <2>3 DEF HeldPcs, IdlePcs
    <3>2. row[i].status \notin {"none", "deleted"}  BY DEF InSlot, Gone
    <3>3. Matches(wk[w], op[i], w) /\ Working(wk[w], row[i], runtime[i], Intact)
      BY <1>1, <2>3, <3>1, <3>2, JobKnown
    <3>. QED
      BY <2>3, <3>2, <3>3
      DEF InSlot, Matches, Working, Established, PcFits, HeldPcs, DeployPcs, OpenStates, Gone
  <2>. QED  BY <2>1, <2>2, <2>3
<1>. QED  BY <1>2, <1>3

LEMMA NoDead ==
  ASSUME CapInv, NEW w \in Workers, Workers = {w}
  PROVE  /\ \A i \in Instances : op[i].state = "claimed" => op[i].by = w /\ wk[w].pc # "new"
         /\ ClaimsOfDead = {}
<1>1. IInv /\ ClaimsTrue /\ NeverKilled  BY DEF CapInv, TruthInv, Calm
<1>2. ASSUME NEW i \in Instances, op[i].state = "claimed"
      PROVE  op[i].by = w /\ wk[w].pc # "new"
  <2>1. op[i].by = w  BY <1>1, <1>2, RowKnown
  <2>. QED  BY <1>1, <1>2, <2>1 DEF ClaimsTrue
<1>3. ClaimsOfDead = {}  BY <1>1, <1>2 DEF ClaimsOfDead, NeverKilled, Up
<1>. QED  BY <1>2, <1>3

\* Nothing lapses and nothing is stranded: the sweep finds nothing to do.
LEMMA IdleSweep ==
  ASSUME CapInv, NEW w \in Workers, Workers = {w},
         NEW E \in SUBSET Instances, LapsedClaims(E), ReconcileStuck(E)
  PROVE  /\ row' = [i \in Instances |-> row[i]] /\ op' = [i \in Instances |-> op[i]]
         /\ UNCHANGED budget
<1>1. TruthInv /\ IInv  BY DEF CapInv, TruthInv
<1>2. budget["stall"] = 0  BY <1>1 DEF TruthInv, BudgetTrue
<1>3. E = {} /\ UNCHANGED budget  BY <1>2, NoDead DEF LapsedClaims, Spend
<1>. DEFINE r == [i \in Instances |-> IF i \in E THEN RecoveredRow(i) ELSE row[i]]
            o == [i \in Instances |-> IF i \in E THEN RecoveredOp(i) ELSE op[i]]
            missing == {i \in Instances : Stranded(r[i], o[i])}
<1>4. \A i \in Instances : r[i] = row[i] /\ o[i] = op[i]  BY <1>3
<1>5. /\ row' = [i \in Instances |->
                   IF i \in missing
                   THEN [r[i] EXCEPT !.status = IF @ = "resetting" THEN "active" ELSE "queued",
                                     !.presence = "unknown"]
                   ELSE r[i]]
      /\ op' = [i \in Instances |-> IF i \in missing THEN NewOp(i, "deploy", "auto") ELSE o[i]]
  BY DEF ReconcileStuck
<1>6. missing = {}
  BY <1>1, <1>4 DEF Stranded, TruthInv, EntriesTrue, Entry
<1>. HIDE DEF r, o, missing
<1>. QED  BY <1>3, <1>4, <1>5, <1>6

LEMMA StartWorkerCap ==
  ASSUME CapInv, NEW w \in Workers, Workers = {w}, StartWorker(w)
  PROVE  Calm' /\ SlotsLast
<1>1. IInv /\ Calm  BY DEF CapInv, TruthInv
<1>2. \A i \in Instances : op[i].state # "claimed"  BY NoDead DEF StartWorker
<1>3. \A i \in Instances : row'[i] = row[i] /\ op'[i] = op[i]
  BY <1>2 DEF StartWorker
<1>4. /\ wk' = [wk EXCEPT ![w] = NoJob("loop")] /\ NoJob("loop").inst = NoOne
      /\ NoJob("loop").pc = "loop" /\ UNCHANGED <<runtime, intents, budget>>
  BY DEF StartWorker, NoJob
<1>5. Calm'  BY <1>1, <1>3, <1>4, NoOneAssumption, WorkerCalm
<1>6. SlotsLast  BY <1>3, <1>4 DEF SlotsLast
<1>. QED  BY <1>5, <1>6

LEMMA PollStuckCap ==
  ASSUME CapInv, NEW w \in Workers, Workers = {w}, PollStuck(w)
  PROVE  Calm' /\ SlotsLast
<1>1. IInv /\ Calm  BY DEF CapInv, TruthInv
<1>2. PICK E \in SUBSET Instances : LapsedClaims(E) /\ ReconcileStuck(E)  BY DEF PollStuck
<1>3. (\A i \in Instances : row'[i] = row[i] /\ op'[i] = op[i]) /\ UNCHANGED budget
  BY <1>2, IdleSweep
<1>4. SetPc(w, "drain") /\ UNCHANGED <<runtime, intents>> /\ wk[w].pc = "loop"
  BY DEF PollStuck
<1>5. PICK j : /\ wk' = [wk EXCEPT ![w] = j] /\ SameJob(j, wk[w]) /\ j.pc = "drain"
  BY <1>1, <1>4, SetPcJob
<1>6. j.inst = NoOne  BY <1>1, <1>4, <1>5, IdleJob DEF SameJob, IdlePcs
<1>7. Calm'  BY <1>1, <1>3, <1>4, <1>5, <1>6, NoOneAssumption, WorkerCalm
<1>8. SlotsLast  BY <1>3, <1>4 DEF SlotsLast
<1>. QED  BY <1>7, <1>8

LEMMA ClaimCap ==
  ASSUME CapInv, NEW w \in Workers, Workers = {w}, NEW i \in Instances, Claim(w, i)
  PROVE  Calm' /\ SlotsLast
<1>1. IInv /\ Calm  BY DEF CapInv, TruthInv
<1>. DEFINE j == [pc |-> IF op[i].kind = "deploy" /\ op[i].origin # "runtime_repair"
                         THEN "admit" ELSE "start",
                  inst |-> i, id |-> op[i].id, kind |-> op[i].kind, origin |-> op[i].origin,
                  attempts |-> op[i].attempts + 1, was |-> row[i], mem |-> row[i],
                  res |-> "none"]
<1>2. /\ wk' = [wk EXCEPT ![w] = j] /\ Ready(i)
      /\ op' = [op EXCEPT ![i].state = "claimed", ![i].by = w, ![i].attempts = @ + 1]
      /\ UNCHANGED <<row, runtime, intents, budget>>
  BY DEF Claim
<1>3. j.pc # "dead" /\ j.inst = i /\ j.was = row[i]  OBVIOUS
<1>. HIDE DEF j
<1>4. Calm'  BY <1>1, <1>2, <1>3, WorkerCalm
<1>5. \A k \in Instances : op'[k].kind = op[k].kind
        /\ (op'[k].state = op[k].state \/ (k = i /\ op[k].state = "queued"))
  <2>1. op \in [Instances -> Ops]  BY <1>1 DEF IInv, OpsOK
  <2>. QED  BY <1>2, <2>1 DEF Ready, Ops
<1>6. SlotsLast  BY <1>2, <1>5 DEF SlotsLast, InSlot, OpenStates
<1>. QED  BY <1>4, <1>6

LEMMA EndDrainCap ==
  ASSUME CapInv, NEW w \in Workers, Workers = {w}, EndDrain(w)
  PROVE  Calm' /\ SlotsLast
<1>1. IInv  BY DEF CapInv, TruthInv
<1>2. /\ SetPc(w, "loop") /\ UNCHANGED <<row, runtime, intents, budget>>
      /\ op' = [i \in Instances |-> [op[i] EXCEPT !.ready = TRUE]]
  BY DEF EndDrain
<1>3. PICK j : /\ wk' = [wk EXCEPT ![w] = j] /\ SameJob(j, wk[w]) /\ j.pc = "loop"
  BY <1>1, <1>2, SetPcJob
<1>4. \A i \in Instances : op'[i].state = op[i].state /\ op'[i].kind = op[i].kind
  BY <1>1, <1>2, RowKnown DEF Ops
<1>. QED  BY <1>2, <1>3, <1>4, QuietCap

LEMMA StaleCap ==
  ASSUME CapInv, NEW w \in Workers, Workers = {w}, Stale(w)
  PROVE  Calm' /\ SlotsLast
<1>1. PICK j : wk' = [wk EXCEPT ![w] = j] /\ j.inst = NoOne /\ j.pc = "drain"
  BY DropJob DEF Stale
<1>2. UNCHANGED <<row, op, runtime, intents, budget>>  BY DEF Stale
<1>. QED  BY <1>1, <1>2, QuietCap

\* A destroy makes its row uncertain: counted it was already if the lab ran.
LEMMA BeginWorkCap ==
  ASSUME CapInv, NEW w \in Workers, Workers = {w}, BeginWork(w)
  PROVE  Calm' /\ SlotsLast
<1>. DEFINE i == wk[w].inst
<1>1. IInv /\ Calm /\ TruthInv  BY DEF CapInv, TruthInv
<1>2. wk[w].pc = "start" /\ Holds(w) /\ UNCHANGED <<op, runtime, intents, budget>>
  BY DEF BeginWork
<1>3. PICK j : wk' = [wk EXCEPT ![w] = j] /\ SameJob(j, wk[w]) /\ j.pc # "dead"
  <2>1. CASE \E pc \in {"resync", "admit", "ifpresent", "destroy", "check"} : SetPc(w, pc)
    <3>1. PICK pc \in {"resync", "admit", "ifpresent", "destroy", "check"} : SetPc(w, pc)
      BY <2>1
    <3>. QED  BY <1>1, <3>1, SetPcJob
  <2>2. CASE End(w, "fail", wk[w].mem)
    BY <1>1, <2>2, EndJob
  <2>. QED  BY <2>1, <2>2 DEF BeginWork
<1>4. CASE UNCHANGED row
  BY <1>2, <1>3, <1>4, QuietCap
<1>5. CASE /\ wk[w].kind = "destroy"
           /\ row' = [row EXCEPT ![i] = MarkDestroying(@)]
  <2>1. i \in Instances /\ row[i].status \notin Gone /\ row[i] \in Rows
        /\ wk[w].kind = op[i].kind
    <3>1. wk[w].pc \notin IdlePcs  BY <1>2 DEF IdlePcs
    <3>. QED  BY <1>1, <1>2, <3>1, JobKnown DEF Gone, Matches
  <2>2. /\ row'[i].status = row[i].status /\ row'[i].presence = "unknown"
        /\ \A k \in Instances : k # i => row'[k] = row[k]
    BY <1>1, <1>5, <2>1, RowFields DEF IInv, RowsOK
  <2>3. Calm'
    BY <1>1, <1>2, <1>3, <2>1, <2>2, WorkerCalm DEF SameJob, Gone
  <2>4. SlotsLast
    <3>. SUFFICES ASSUME NEW k \in Instances, InSlot(row'[k], op'[k], runtime'[k])
                  PROVE  InSlot(row[k], op[k], runtime[k])
      BY DEF SlotsLast
    <3>1. CASE k = i  BY <1>1, <1>2, <1>5, <2>1, <3>1, RunningInSlot DEF InSlot
    <3>2. CASE k # i  BY <1>2, <2>2, <3>2
    <3>. QED  BY <3>1, <3>2
  <2>. QED  BY <2>3, <2>4
<1>. QED  BY <1>4, <1>5 DEF BeginWork

\* Only a reservation takes a slot, and it has counted before.
LEMMA ReserveCap ==
  ASSUME CapInv, NEW w \in Workers, Workers = {w}, Reserve(w)
  PROVE  Calm' /\ Cardinality(Slots') <= MaxLabs
<1>. DEFINE i == wk[w].inst
            s == Written(wk[w].was.status, ReservedStatus(wk[w].was.status), row[i].status)
            p == Written(wk[w].was.presence, "unknown", row[i].presence)
<1>1. IInv /\ Calm /\ TruthInv  BY DEF CapInv, TruthInv
<1>2. /\ wk[w].pc = "admit" /\ wk[w].pc \notin IdlePcs /\ Exists(i) /\ HasCapacity(w)
      /\ UNCHANGED <<op, runtime, intents, budget>> /\ SetPc(w, "reserved")
      /\ row' = [row EXCEPT ![i].status = s, ![i].presence = p]
  BY DEF Reserve, IdlePcs
<1>3. /\ i \in Instances /\ row[i] \in Rows /\ row[i].status \notin Gone
      /\ Matches(wk[w], op[i], w) /\ Working(wk[w], row[i], runtime[i], Intact)
  BY <1>1, <1>2, JobKnown DEF Exists, Gone
<1>4. wk[w].kind = "deploy" /\ row[i] = wk[w].was
  BY <1>2, <1>3 DEF Working, PcFits, Remembers, DeployPcs
<1>5. /\ \A k \in Instances : k # i => row'[k] = row[k]
      /\ row'[i].status = s /\ row'[i].presence = p
  BY <1>1, <1>2, <1>3 DEF IInv, RowsOK, Rows
<1>6. s # "none" /\ p = "unknown"
  BY <1>4 DEF Written, ReservedStatus
<1>. HIDE DEF s, p
<1>7. Calm'
  <2>1. PICK j : /\ wk' = [wk EXCEPT ![w] = j] /\ SameJob(j, wk[w]) /\ j.pc = "reserved"
    BY <1>1, <1>2, SetPcJob
  <2>. QED  BY <1>1, <1>2, <1>3, <1>5, <1>6, <2>1, WorkerCalm DEF SameJob
<1>8. Slots \subseteq Instances /\ Slots' \subseteq Slots \cup {i}
  BY <1>2, <1>5 DEF Slots
<1>9. IsFiniteSet(Slots) /\ Cardinality(Slots) \in Nat
  BY <1>8, InstancesAssumption, FS_Subset, FS_CardinalityType
<1>10. CASE wk[w].was.presence \in {"present", "unknown"}
  <2>1. i \in Slots
    BY <1>3, <1>4, <1>10 DEF Slots, InSlot, Matches, OpenStates
  <2>2. Slots' \subseteq Slots  BY <1>8, <2>1
  <2>. QED  BY <1>7, <1>9, <2>2, FS_Subset, FS_CardinalityType, CapacityAssumption DEF CapInv
<1>11. CASE wk[w].was.presence \notin {"present", "unknown"}
  <2>. DEFINE C == {k \in Instances : Counted(k)}
  <2>1. Cardinality(C) < MaxLabs
    BY <1>2, <1>11 DEF HasCapacity, Consuming
  <2>2. Slots \subseteq C
    <3>. SUFFICES ASSUME NEW k \in Slots PROVE k \in C  OBVIOUS
    <3>1. k \in Instances /\ row[k].status \notin Gone /\ row[k].presence # "absent"
          /\ row[k] \in Rows
      BY <1>1, RowKnown DEF Slots, InSlot
    <3>. QED  BY <3>1 DEF Counted, Exists, Gone, Rows, Presences
  <2>3. IsFiniteSet(C) /\ Cardinality(C) \in Nat
    BY InstancesAssumption, FS_Subset, FS_CardinalityType
  <2>4. Cardinality(Slots) <= Cardinality(C)  BY <2>2, <2>3, FS_Subset
  <2>5. Cardinality(Slots \cup {i}) <= Cardinality(Slots) + 1 /\ IsFiniteSet(Slots \cup {i})
    BY <1>9, FS_AddElement
  <2>6. Cardinality(Slots') <= Cardinality(Slots \cup {i}) /\ Cardinality(Slots') \in Nat
    BY <1>8, <2>5, FS_Subset, FS_CardinalityType
  <2>7. Cardinality(Slots \cup {i}) \in Nat  BY <2>5, FS_CardinalityType
  <2>. HIDE DEF C
  <2>. QED  BY <1>7, <1>9, <2>1, <2>3, <2>4, <2>5, <2>6, <2>7, CapacityAssumption
<1>. QED  BY <1>7, <1>10, <1>11

LEMMA DeferForCapacityCap ==
  ASSUME CapInv, NEW w \in Workers, Workers = {w}, DeferForCapacity(w)
  PROVE  Calm' /\ SlotsLast
<1>. DEFINE i == wk[w].inst
            s == Written(wk[w].was.status, "queued", row[i].status)
<1>1. IInv /\ Calm /\ TruthInv  BY DEF CapInv, TruthInv
<1>2. /\ wk[w].pc = "admit" /\ wk[w].pc \notin IdlePcs /\ Exists(i) /\ Drop(w)
      /\ UNCHANGED <<runtime, intents, budget>>
  BY DEF DeferForCapacity, IdlePcs
<1>3. /\ i \in Instances /\ row[i] \in Rows /\ row[i].status \notin Gone
      /\ Matches(wk[w], op[i], w) /\ Working(wk[w], row[i], runtime[i], Intact)
  BY <1>1, <1>2, JobKnown DEF Exists, Gone
<1>4. wk[w].kind = "deploy" /\ row[i] = wk[w].was
  BY <1>2, <1>3 DEF Working, PcFits, Remembers, DeployPcs
<1>5. \A k \in Instances :
        IF k = i THEN row'[k].status \in {s, row[k].status} /\ row'[k].presence = row[k].presence
                 ELSE row'[k] = row[k] /\ op'[k] = op[k]
  BY <1>1, <1>3 DEF DeferForCapacity, IInv, RowsOK, OpsOK, Rows
<1>6. s # "none"  BY <1>3, <1>4 DEF Written, Gone
<1>. HIDE DEF s
<1>7. PICK j : wk' = [wk EXCEPT ![w] = j] /\ j.inst = NoOne /\ j.pc = "drain"
  BY <1>2, DropJob
<1>8. Calm'
  BY <1>1, <1>2, <1>3, <1>5, <1>6, <1>7, NoOneAssumption, WorkerCalm DEF Gone
<1>9. SlotsLast
  <2>. SUFFICES ASSUME NEW k \in Instances, InSlot(row'[k], op'[k], runtime'[k])
                PROVE  InSlot(row[k], op[k], runtime[k])
    BY DEF SlotsLast
  <2>. QED  BY <1>2, <1>3, <1>4, <1>5 DEF InSlot, Matches, OpenStates
<1>. QED  BY <1>8, <1>9

\* The steps between a claim and its settlement that write no row.
LEMMA WorkCap ==
  ASSUME CapInv, NEW w \in Workers, Workers = {w},
         \/ ConfirmReservation(w) \/ KillOld(w) \/ AfterDestroy(w) \/ Provision(w)
         \/ ProvisionIfAbsent(w) \/ Confirm(w) \/ Resync(w) \/ DestroyLab(w)
         \/ DestroyIfPresent(w) \/ RunChecks(w) \/ LockBusy(w)
  PROVE  Calm' /\ SlotsLast
<1>1. IInv  BY DEF CapInv, TruthInv
<1>2. /\ UNCHANGED <<row, op, intents>> /\ budget'["requests"] = budget["requests"]
  <2>1. budget \in [Faults -> Nat]  BY <1>1 DEF IInv, RestOK
  <2>. QED
    BY <2>1
    DEF ConfirmReservation, KillOld, AfterDestroy, Provision, ProvisionIfAbsent, Confirm, Resync,
        InspectAndRebuild, DestroyLab, DestroyIfPresent, RunChecks, LockBusy, Engine, Spend, Faults
<1>3. \/ \E pc \in {"killed", "deploy", "confirm"} : SetPc(w, pc)
      \/ \E res, mem : End(w, res, mem)
      \/ ConfirmReservation(w)
  BY DEF KillOld, AfterDestroy, Provision, ProvisionIfAbsent, Confirm, Resync,
         InspectAndRebuild, DestroyLab, DestroyIfPresent, RunChecks, LockBusy
<1>4. \E j : wk' = [wk EXCEPT ![w] = j] /\ SameJob(j, wk[w]) /\ j.pc # "dead"
  <2>1. CASE \E pc \in {"killed", "deploy", "confirm"} : SetPc(w, pc)
    <3>1. PICK pc \in {"killed", "deploy", "confirm"} : SetPc(w, pc)  BY <2>1
    <3>. QED  BY <1>1, <3>1, SetPcJob
  <2>2. CASE \E res, mem : End(w, res, mem)
    <3>1. PICK res, mem : End(w, res, mem)  BY <2>2
    <3>2. PICK j : /\ wk' = [wk EXCEPT ![w] = j] /\ SameJob(j, wk[w]) /\ j.pc = "settle"
      BY <1>1, <3>1, EndJob
    <3>. QED  BY <3>2
  <2>3. CASE ConfirmReservation(w)
    <3>. DEFINE pc == IF wk[w].origin = "runtime_repair" THEN "ifabsent" ELSE "kill"
                j == [wk[w] EXCEPT !.mem = row[wk[w].inst], !.pc = pc]
    <3>1. wk[w] \in Jobs  BY <1>1 DEF IInv, JobsOK
    <3>2. SameJob(j, wk[w]) /\ j.pc = pc  BY <3>1 DEF SameJob, Jobs
    <3>3. wk' = [wk EXCEPT ![w] = j]  BY <2>3 DEF ConfirmReservation
    <3>4. pc # "dead"  OBVIOUS
    <3>. HIDE DEF j, pc
    <3>. QED  BY <3>2, <3>3, <3>4
  <2>. QED  BY <1>3, <2>1, <2>2, <2>3
<1>5. PICK j : wk' = [wk EXCEPT ![w] = j] /\ SameJob(j, wk[w]) /\ j.pc # "dead"  BY <1>4
<1>6. \A i \in Instances :
        runtime'[i] => runtime[i] \/ (i = wk[w].inst /\ wk[w].pc \in HeldPcs)
  <2>1. runtime \in [Instances -> BOOLEAN]  BY <1>1 DEF IInv, RestOK
  <2>2. \/ UNCHANGED runtime \/ Stops(wk[w].inst)
        \/ Runs(wk[w].inst) /\ wk[w].pc \in {"deploy", "ifabsent"}
    BY DEF ConfirmReservation, KillOld, AfterDestroy, Provision, ProvisionIfAbsent, Confirm,
           Resync, InspectAndRebuild, DestroyLab, DestroyIfPresent, RunChecks, LockBusy, Engine
  <2>3. CASE UNCHANGED runtime  BY <2>3
  <2>4. CASE Stops(wk[w].inst)  BY <2>1, <2>4 DEF Stops
  <2>5. CASE Runs(wk[w].inst) /\ wk[w].pc \in {"deploy", "ifabsent"}
    BY <2>1, <2>5 DEF Runs, HeldPcs
  <2>. QED  BY <2>2, <2>3, <2>4, <2>5
<1>. QED  BY <1>2, <1>5, <1>6, QuietCap

\* A settlement closes its operation, or puts back what its claim was made on.
LEMMA SettleCap ==
  ASSUME CapInv, NEW w \in Workers, Workers = {w},
         SettleOk(w) \/ SettleFailed(w) \/ SettleDeferred(w)
  PROVE  Calm' /\ SlotsLast
<1>. DEFINE i == wk[w].inst
<1>1. IInv /\ Calm /\ TruthInv  BY DEF CapInv, TruthInv
<1>2. /\ wk[w].pc = "settle" /\ wk[w].pc \notin IdlePcs /\ Drop(w) /\ Holds(w)
      /\ UNCHANGED <<runtime, intents, budget>>
  BY DEF SettleOk, SettleFailed, SettleDeferred, SettleFence, IdlePcs
<1>3. /\ i \in Instances /\ row[i] \in Rows /\ row[i].status \notin Gone
      /\ wk[w] \in Jobs /\ Matches(wk[w], op[i], w)
      /\ Working(wk[w], row[i], runtime[i], Intact)
  BY <1>1, <1>2, JobKnown DEF Gone
<1>4. \A k \in Instances : k # i => row'[k] = row[k] /\ op'[k] = op[k]
  BY <1>1 DEF SettleOk, SettleFailed, SettleDeferred, IInv, RowsOK, OpsOK
<1>5. /\ wk[w].was.presence # "absent" => row[i].presence # "absent"
      /\ op[i].state \in OpenStates /\ op[i].kind = wk[w].kind
  BY <1>1, <1>3 DEF Calm, CountedStays, Matches, OpenStates
<1>6. /\ row'[i].status # "none"
      /\ \/ op'[i].state \notin OpenStates
         \/ row'[i].presence \in {wk[w].was.presence, row[i].presence} /\ op'[i].kind = op[i].kind
  <2>1. row \in [Instances -> Rows] /\ op \in [Instances -> Ops]
    BY <1>1 DEF IInv, RowsOK, OpsOK
  <2>2. CASE SettleOk(w)
    <3>1. op'[i].state \notin OpenStates
      BY <1>3, <2>1, <2>2 DEF SettleOk, Closed, NoOp, OpenStates
    <3>2. row'[i] = row[i] \/ (row'[i] = wk[w].mem /\ wk[w].kind # "check" /\ wk[w].res = "ok")
      BY <1>3, <2>1, <2>2 DEF SettleOk
    <3>. QED  BY <1>3, <3>1, <3>2 DEF Working, Established, Gone
  <2>3. CASE SettleFailed(w)
    <3>1. op'[i].state \notin OpenStates
      BY <1>3, <2>1, <2>3 DEF SettleFailed, Closed, NoOp, OpenStates
    <3>2. row'[i] = Escalate(FailedRow(wk[w], row[i]), fails[i], wk[w].kind, wk[w].origin,
                             wk[w].attempts)
      BY <1>3, <2>1, <2>3 DEF SettleFailed
    <3>3. FailedRow(wk[w], row[i]) \in Rows /\ FailedRow(wk[w], row[i]).status # "none"
      <4>1. FailedRow(wk[w], row[i]) \in Rows  BY <1>3, FailedRowType
      <4>2. FailedRow(wk[w], row[i]).status \in {"active", "error", row[i].status}
        BY <1>3 DEF FailedRow, Rows
      <4>. QED  BY <1>3, <4>1, <4>2 DEF Gone
    <3>4. row'[i].status # "none"
      BY <3>2, <3>3 DEF Escalate, Rows
    <3>. QED  BY <3>1, <3>4
  <2>4. CASE SettleDeferred(w)
    <3>1. op'[i].kind = op[i].kind
      <4>1. op' = [op EXCEPT ![i].state = "queued", ![i].by = NoOne, ![i].ready = FALSE,
                             ![i].attempts = @ - 1]
        BY <2>4, Zenon DEF SettleDeferred
      <4>. HIDE DEF i
      <4>. QED  BY <1>3, <2>1, <4>1 DEF Ops
    <3>2. \/ row'[i] = row[i]
          \/ row'[i].presence = wk[w].was.presence /\ row'[i].status = wk[w].was.status
      BY <1>3, <2>1, <2>4 DEF SettleDeferred, Rows
    <3>. QED  BY <1>3, <3>1, <3>2 DEF Working, Remembers, Gone
  <2>. QED  BY <2>2, <2>3, <2>4
<1>7. PICK j : wk' = [wk EXCEPT ![w] = j] /\ j.inst = NoOne /\ j.pc = "drain"
  BY <1>2, DropJob
<1>8. Calm'
  BY <1>1, <1>2, <1>3, <1>4, <1>6, <1>7, NoOneAssumption, WorkerCalm
<1>9. SlotsLast
  <2>. SUFFICES ASSUME NEW k \in Instances, InSlot(row'[k], op'[k], runtime'[k])
                PROVE  InSlot(row[k], op[k], runtime[k])
    BY DEF SlotsLast
  <2>1. CASE k # i  BY <1>2, <1>4, <2>1
  <2>2. CASE k = i /\ runtime[k]  BY <1>1, <1>3, <2>2, RunningInSlot
  <2>3. CASE k = i /\ ~ runtime[k]
    BY <1>2, <1>3, <1>5, <1>6, <2>3 DEF InSlot
  <2>. QED  BY <2>1, <2>2, <2>3
<1>. QED  BY <1>8, <1>9

\* A step that leaves the worker alone.
LEMMA OthersCalm ==
  ASSUME CapInv, UNCHANGED wk, budget'["requests"] = budget["requests"],
         \A x \in intents' : x \in intents \/ x[2] = "reap",
         \A i \in Instances : row'[i].status = "none" => row'[i] = row[i],
         \A w \in Workers : wk[w].inst \in Instances =>
           \/ row'[wk[w].inst] = row[wk[w].inst]
           \/ row'[wk[w].inst].status \in Gone
  PROVE  Calm'
<1>1. Calm  BY DEF CapInv
<1>2. NeverKilled'  BY <1>1 DEF Calm, NeverKilled
<1>3. Unlaunched'  BY <1>1 DEF Calm, Unlaunched
<1>4. OnlyReaps'  BY <1>1 DEF Calm, OnlyReaps
<1>5. CountedStays'  BY <1>1 DEF Calm, CountedStays
<1>. QED  BY <1>2, <1>3, <1>4, <1>5 DEF Calm

LEMMA RecCap ==
  ASSUME CapInv, NEW w \in Workers, Workers = {w}, RecStep
  PROVE  Calm' /\ SlotsLast
<1>1. IInv /\ TruthInv  BY DEF CapInv, TruthInv
<1>2. CASE RecStuck
  <2>1. PICK E \in SUBSET Instances : LapsedClaims(E) /\ ReconcileStuck(E)
    BY <1>2 DEF RecStuck
  <2>2. (\A i \in Instances : row'[i] = row[i] /\ op'[i] = op[i]) /\ UNCHANGED budget
    BY <2>1, IdleSweep
  <2>3. UNCHANGED <<runtime, wk, intents>>  BY <1>2 DEF RecStuck
  <2>4. Calm'  BY <2>2, <2>3, OthersCalm
  <2>. QED  BY <2>2, <2>3, <2>4 DEF SlotsLast
<1>3. CASE RecInventory \/ RecPlan \/ (\E i \in Instances : RecDestroyOrphan(i))
           \/ RecStall \/ RecAbandon
  <2>1. UNCHANGED <<row, op, wk, intents>> /\ budget'["requests"] = budget["requests"]
    <3>1. budget \in [Faults -> Nat]  BY <1>1 DEF IInv, RestOK
    <3>. QED
      BY <1>3, <3>1
      DEF RecInventory, RecPlan, RecDestroyOrphan, RecStall, RecAbandon, Spend, Faults
  <2>2. UNCHANGED runtime \/ \E i \in Instances : Stops(i)
    BY <1>3 DEF RecInventory, RecPlan, RecDestroyOrphan, RecStall, RecAbandon
  <2>3. \A k \in Instances : runtime'[k] => runtime[k]
    BY <1>1, <2>2, RuntimeMoves
  <2>4. Calm'  BY <2>1, OthersCalm
  <2>. QED  BY <2>1, <2>3, <2>4 DEF SlotsLast, InSlot
<1>4. CASE RecQueue
  <2>1. QueueRepairs(Running)  BY <1>1, <1>4 DEF RecQueue, TruthInv, PassTrue
  <2>. DEFINE clean == ToCleanUp(Running)
              repair == ToRepair(Running)
  <2>2. /\ op' = [i \in Instances |->
                    CASE i \in clean -> NewOp(i, "destroy", "runtime_cleanup")
                      [] i \in repair -> NewOp(i, "deploy", "runtime_repair")
                      [] OTHER -> op[i]]
        /\ row' = [i \in Instances |->
                    CASE i \in clean -> [row[i] EXCEPT !.presence = "present"]
                      [] i \in repair -> [row[i] EXCEPT !.presence = "absent"]
                      [] OTHER -> row[i]]
        /\ UNCHANGED <<runtime, wk, intents, budget>>
    BY <2>1 DEF QueueRepairs
  <2>3. ASSUME NEW i \in clean \cup repair
        PROVE  i \in Instances => row[i] \in Rows /\ Exists(i) /\ ~ IsOpen(i)
                 /\ row[i].status \notin Gone
    BY <1>1, RowKnown DEF ToCleanUp, ToRepair, NeedsCleanup, NeedsRepair, Exists, LiveStatus, Gone
  <2>4. \A i \in clean : runtime[i]  BY DEF ToCleanUp, Running
  <2>. HIDE DEF clean, repair
  <2>5. ASSUME NEW i \in Instances
        PROVE  \/ i \in clean /\ row'[i].status = row[i].status
                  /\ op'[i] = NewOp(i, "destroy", "runtime_cleanup")
               \/ i \in repair /\ row'[i].status = row[i].status /\ row'[i].presence = "absent"
               \/ i \notin clean \cup repair /\ row'[i] = row[i] /\ op'[i] = op[i]
    <3>1. CASE i \in clean
      BY <2>2, <2>3, <3>1 DEF Rows
    <3>2. CASE i \in repair /\ i \notin clean
      BY <2>2, <2>3, <3>2 DEF Rows
    <3>3. CASE i \notin clean \cup repair
      BY <2>2, <3>3
    <3>. QED  BY <3>1, <3>2, <3>3
  <2>6. Calm'
    <3>1. \A i \in Instances : row'[i].status = "none" => row'[i] = row[i]
      BY <2>3, <2>5 DEF Gone
    <3>2. ASSUME NEW v \in Workers, wk[v].inst \in Instances
          PROVE  row'[wk[v].inst] = row[wk[v].inst]
      BY <1>1, <2>3, <2>5, <3>2, Unworked
    <3>. QED  BY <2>2, <3>1, <3>2, OthersCalm
  <2>7. SlotsLast
    <3>. SUFFICES ASSUME NEW k \in Instances, InSlot(row'[k], op'[k], runtime'[k])
                  PROVE  InSlot(row[k], op[k], runtime[k])
      BY DEF SlotsLast
    <3>1. CASE k \in clean  BY <1>1, <2>3, <2>4, <3>1, RunningInSlot
    <3>2. CASE k \in repair /\ k \notin clean  BY <2>5, <3>2 DEF InSlot
    <3>3. CASE k \notin clean \cup repair  BY <2>2, <2>5, <3>3
    <3>. QED  BY <3>1, <3>2, <3>3
  <2>. QED  BY <2>6, <2>7
<1>. QED  BY <1>2, <1>3, <1>4 DEF RecStep

LEMMA OutsideCap ==
  ASSUME CapInv, NEW i \in Instances,
         RequestStep(i) \/ RetryDelayOver(i) \/ LoseRuntime(i) \/ EraseRow(i)
  PROVE  Calm' /\ SlotsLast
<1>1. IInv /\ TruthInv /\ Calm  BY DEF CapInv, TruthInv
<1>2. row \in [Instances -> Rows] /\ op \in [Instances -> Ops] /\ budget \in [Faults -> Nat]
  BY <1>1 DEF IInv, RowsOK, OpsOK, RestOK
<1>3. ASSUME NEW r \in Requests, ReadRequest(i, r)
      PROVE  r = "reap" /\ UNCHANGED <<row, op, runtime, wk, budget>>
             /\ intents' = intents \cup {<<i, r>>}
  <2>1. budget["requests"] = 0  BY <1>1 DEF Calm, OnlyReaps
  <2>2. ~ Spend("requests")  BY <2>1 DEF Spend
  <2>. QED  BY <1>3, <2>2 DEF ReadRequest
<1>4. /\ UNCHANGED wk /\ budget'["requests"] = budget["requests"]
      /\ \A x \in intents' : x \in intents \/ x[2] = "reap"
  <2>1. CASE \E r \in Requests : ReadRequest(i, r)
    BY <1>3, <2>1
  <2>2. CASE LoseRuntime(i) \/ EraseRow(i)
    BY <1>2, <2>2 DEF LoseRuntime, EraseRow, Spend, Faults
  <2>3. CASE Launch(i) \/ (\E r \in Requests : EnqueueRequest(i, r)) \/ RetryDelayOver(i)
    BY <2>3 DEF Launch, EnqueueRequest, RetryDelayOver
  <2>. QED  BY <2>1, <2>2, <2>3 DEF RequestStep
<1>5. CASE Launch(i)
  <2>1. /\ row[i].status = "none" /\ row[i].presence = "absent"
        /\ row'[i].status = "queued" /\ row'[i].presence = "absent"
        /\ \A k \in Instances : k # i => row'[k] = row[k] /\ op'[k] = op[k]
        /\ UNCHANGED <<runtime, intents>>
    BY <1>1, <1>2, <1>5 DEF Launch, Enqueue, Calm, Unlaunched, Rows
  <2>2. \A w \in Workers : wk[w].inst \in Instances => wk[w].inst # i
    BY <1>1, <2>1, NoOneAssumption DEF TruthInv, JobsTrue, JobTrue
  <2>3. Calm'  BY <1>4, <2>1, <2>2, OthersCalm
  <2>4. SlotsLast  BY <2>1 DEF SlotsLast, InSlot
  <2>. QED  BY <2>3, <2>4
<1>6. CASE \E r \in Requests : ReadRequest(i, r)
  <2>1. UNCHANGED <<row, op, runtime>>  BY <1>3, <1>6
  <2>. QED  BY <1>4, <2>1, OthersCalm DEF SlotsLast
<1>7. CASE \E r \in Requests : EnqueueRequest(i, r)
  <2>1. PICK r \in Requests : EnqueueRequest(i, r)  BY <1>7
  <2>2. <<i, r>>[2] = r  OBVIOUS
  <2>3. <<i, r>> \in intents  BY <2>1 DEF EnqueueRequest
  <2>4. r = "reap"  BY <1>1, <2>2, <2>3 DEF Calm, OnlyReaps
  <2>5. UNCHANGED op \/ Enqueue(i, "destroy", "auto")
    BY <2>1, <2>4 DEF EnqueueRequest
  <2>6. UNCHANGED <<row, runtime>>  BY <2>1 DEF EnqueueRequest
  <2>7. \A k \in Instances : op'[k] = op[k] \/ op'[k].kind = "destroy"
    BY <1>2, <2>5, NewOpFields DEF Enqueue
  <2>8. SlotsLast
    <3>. SUFFICES ASSUME NEW k \in Instances, InSlot(row'[k], op'[k], runtime'[k])
                  PROVE  InSlot(row[k], op[k], runtime[k])
      BY DEF SlotsLast
    <3>. QED  BY <1>1, <2>6, <2>7, RunningInSlot DEF InSlot
  <2>. QED  BY <1>4, <2>6, <2>8, OthersCalm
<1>8. CASE RetryDelayOver(i)
  <2>1. /\ UNCHANGED <<row, runtime>>
        /\ \A k \in Instances : op'[k].state = op[k].state /\ op'[k].kind = op[k].kind
    BY <1>2, <1>8 DEF RetryDelayOver, Ops
  <2>. QED  BY <1>4, <2>1, OthersCalm DEF SlotsLast, InSlot
<1>9. CASE LoseRuntime(i)
  <2>1. UNCHANGED <<row, op>> /\ \A k \in Instances : runtime'[k] => runtime[k]
    BY <1>1, <1>9, RuntimeMoves DEF LoseRuntime
  <2>. QED  BY <1>4, <2>1, OthersCalm DEF SlotsLast, InSlot
<1>10. CASE EraseRow(i)
  <2>1. /\ row'[i].status = "deleted" /\ UNCHANGED runtime
        /\ \A k \in Instances : k # i => row'[k] = row[k] /\ op'[k] = op[k]
    BY <1>2, <1>10 DEF EraseRow, NoRow
  <2>2. Calm'  BY <1>4, <2>1, OthersCalm DEF Gone
  <2>3. SlotsLast
    <3>. SUFFICES ASSUME NEW k \in Instances, InSlot(row'[k], op'[k], runtime'[k])
                  PROVE  InSlot(row[k], op[k], runtime[k])
      BY DEF SlotsLast
    <3>. QED  BY <2>1 DEF InSlot, Gone
  <2>. QED  BY <2>2, <2>3
<1>. QED  BY <1>5, <1>6, <1>7, <1>8, <1>9, <1>10 DEF RequestStep

LEMMA NextCap ==
  ASSUME CapInv, OneIncarnation, [Next]_vars
  PROVE  CapInv'
<1>1. TruthInv'  BY NextTruth DEF CapInv
<1>2. PICK w : Workers = {w}  BY DEF OneIncarnation
<1>3. w \in Workers  BY <1>2
<1>4. CASE WorkerStep(w)
  <2>1. CASE Reserve(w)
    BY <1>1, <1>2, <1>3, <2>1, ReserveCap DEF CapInv
  <2>2. CASE ~ Reserve(w)
    <3>1. Calm' /\ SlotsLast
      BY <1>2, <1>3, <1>4, <2>2, StartWorkerCap, PollStuckCap, ClaimCap, EndDrainCap, StaleCap,
         BeginWorkCap, DeferForCapacityCap, WorkCap, SettleCap
      DEF WorkerStep
    <3>. QED  BY <1>1, <3>1, SlotsHeld DEF CapInv
  <2>. QED  BY <2>1, <2>2
<1>5. CASE CrashWorker(w)
  BY <1>2, <1>5 DEF CrashWorker, Up
<1>6. CASE RecStep
  BY <1>1, <1>2, <1>3, <1>6, RecCap, SlotsHeld DEF CapInv
<1>7. CASE \E i \in Instances : RequestStep(i) \/ RetryDelayOver(i) \/ LoseRuntime(i) \/ EraseRow(i)
  BY <1>1, <1>7, OutsideCap, SlotsHeld DEF CapInv
<1>8. CASE UNCHANGED vars
  <2>1. UNCHANGED <<row, op, runtime, wk, intents, budget>>  BY <1>8 DEF vars
  <2>2. Calm'  BY <2>1, OthersCalm
  <2>3. SlotsLast  BY <2>1 DEF SlotsLast
  <2>. QED  BY <1>1, <2>2, <2>3, SlotsHeld DEF CapInv
<1>. QED  BY <1>2, <1>4, <1>5, <1>6, <1>7, <1>8 DEF Next

\* While the one worker runs on, nothing stalls and no learner resets a lab,
\* the cap is never exceeded, whatever deploys and destroys fail and whatever
\* labs are lost, repaired, reaped and erased (admission, _capacity_available).
THEOREM CapacityAlwaysHeld ==
  ASSUME StallFree, OneIncarnation, NoResets
  PROVE  Spec => []CapacityHeld
<1>1. Init => CapInv
  <2>. SUFFICES ASSUME Init PROVE CapInv  OBVIOUS
  <2>1. TruthInv  BY InitTruth
  <2>2. Calm
    BY NoOneAssumption
    DEF Init, Calm, NeverKilled, Unlaunched, OnlyReaps, CountedStays, NoJob, NoRow, NoResets
  <2>3. Slots = {}  BY DEF Init, Slots, InSlot, NoRow, Gone
  <2>. QED  BY <2>1, <2>2, <2>3, FS_EmptySet, CapacityAssumption DEF CapInv
<1>2. CapInv /\ [Next]_vars => CapInv'  BY NextCap
<1>3. CapInv => CapacityHeld
  <2>. SUFFICES ASSUME CapInv PROVE CapacityHeld  OBVIOUS
  <2>. DEFINE up == {i \in Instances : Exists(i) /\ runtime[i]}
  <2>1. up \subseteq Slots
    BY RunningInSlot DEF CapInv, Slots, Exists, Gone
  <2>2. IsFiniteSet(Slots) /\ Cardinality(Slots) \in Nat
    <3>1. Slots \subseteq Instances  BY DEF Slots
    <3>. QED  BY <3>1, InstancesAssumption, FS_Subset, FS_CardinalityType
  <2>3. Cardinality(up) <= Cardinality(Slots) /\ Cardinality(up) \in Nat
    BY <2>1, <2>2, FS_Subset, FS_CardinalityType
  <2>. HIDE DEF up
  <2>4. Cardinality(up) <= MaxLabs  BY <2>2, <2>3, CapacityAssumption DEF CapInv
  <2>. QED  BY <2>4 DEF CapacityHeld, up
<1>. QED  BY <1>1, <1>2, <1>3, PTL DEF Spec
=============================================================================
