---------------------------- MODULE EmailOutboxProofs ----------------------------
(* Proofs about EmailOutbox, for any messages, jobs, runs and limits: its   *)
(* types and counts, and that it keeps the contract of MailContract.        *)
EXTENDS EmailOutbox, FiniteSetTheorems, TLAPS

-----------------------------------------------------------------------------
(* The inductive invariant.                                                *)

Caller == [asked : BOOLEAN, new : SUBSET Messages, count : Nat]
Worker == [pc : {"idle", "open", "sending"}, at : SUBSET Messages, sends : 0 .. MaxBatch,
           held : SUBSET Messages, row : [Messages -> Row]]

Types ==
  /\ rows \in [Messages -> Row] /\ caller \in [Callers -> Caller]
  /\ queued \in Nat /\ worker \in [Workers -> Worker]
  /\ copies \in [Messages -> Nat] /\ budget \in [Acts -> Nat]
  /\ \A a \in Acts : budget[a] <= Budget[a]

\* An open transaction has inserted one new key, or found it taken.
Asked(x) ==
  \/ x.new = {} /\ x.count = 0
  \/ \E m \in Messages : x.new = {m} /\ x.count = 1 /\ rows[m].status = "none"

Inserted ==
  /\ \A c \in Callers : Asked(caller[c])
  /\ \A c, d \in Callers : c # d => caller[c].new \cap caller[d].new = {}

Present == {m \in Messages : rows[m].status # "none"}

Counted == IsFiniteSet(Present) /\ queued = Cardinality(Present)

\* A row that may be tried is below the limit.
InLimit(row) == row.status = "pending" => row.tries < MaxAttempts

\* What a run has locked is unsettled in the database, and what the run made of
\* it SMTP allows: nothing is written sent without a copy in sent.
Locked(x, sent) ==
  /\ x.pc = "idle" => x.held = {}
  /\ x.pc = "sending" => x.at \subseteq x.held /\ \A m \in x.at : x.row[m].status = "pending"
  /\ \A m \in x.held :
       /\ rows[m].status \in {"pending", "failed"}
       /\ x.row[m].status \in {"pending", "sent", "failed"} /\ InLimit(x.row[m])
       /\ x.row[m].status = "sent" => sent[m] > 0

\* Row locks exclude one another.
Locking ==
  /\ \A w \in Workers : Locked(worker[w], copies)
  /\ \A w, v \in Workers : w # v => worker[w].held \cap worker[v].held = {}

\* Faults so far, as the refinement counts them.
Faults == (Budget["crash"] - budget["crash"]) + (Budget["unclear"] - budget["unclear"])

\* The database says that the message is sent, or an open run will.
SaidSent(m) ==
  \/ rows[m].status = "sent"
  \/ \E w \in Workers : m \in worker[w].held /\ worker[w].row[m].status = "sent"

\* One copy more than there were faults is of a message that is known to be sent.
Paid == \A m \in Messages : copies[m] <= Faults \/ (copies[m] = Faults + 1 /\ SaidSent(m))

IInv ==
  /\ Types /\ Inserted /\ Counted /\ Locking /\ Paid
  /\ \A m \in Messages : InLimit(rows[m])

USE BudgetAssumption, LimitsAssumption

-----------------------------------------------------------------------------
(* Lemmas.                                                                 *)

LEMMA FaultsType == Types => Faults \in Nat
  BY DEF Types, Faults, Acts

\* What spending from the budget does to the count of faults.
LEMMA Spent ==
  ASSUME Types, NEW a \in Acts, Spend(a)
  PROVE  /\ budget' \in [Acts -> Nat] /\ \A b \in Acts : budget'[b] <= budget[b]
         /\ Faults' = IF a \in {"crash", "unclear"} THEN Faults + 1 ELSE Faults
<1>1. budget[a] > 0 /\ budget' = [budget EXCEPT ![a] = @ - 1]  BY DEF Spend
<1>2. \A b \in Acts : budget'[b] = IF b = a THEN budget[b] - 1 ELSE budget[b]
  BY <1>1 DEF Types
<1>3. budget' \in [Acts -> Nat] /\ \A b \in Acts : budget'[b] <= budget[b]
  BY <1>1, <1>2 DEF Types
<1>4. "crash" \in Acts /\ "unclear" \in Acts  BY DEF Acts
<1>5. \A b \in Acts : Budget[b] \in Nat /\ budget[b] \in Nat  BY DEF Types
<1> QED  BY <1>2, <1>3, <1>4, <1>5 DEF Faults

LEMMA RowsTyped ==
  /\ NoRow \in Row /\ NoRow.status = "none" /\ InLimit(NoRow)
  /\ Fresh \in Row /\ Fresh.status = "pending" /\ InLimit(Fresh)
  BY DEF NoRow, Fresh, Row, RowStatus, InLimit

LEMMA IdleTyped == Idle \in Worker /\ Idle.pc = "idle" /\ Idle.held = {}
  BY RowsTyped DEF Idle, Worker

\* A run that has ended keeps nothing locked.
LEMMA IdleLocked == ASSUME NEW sent PROVE Locked(Idle, sent)
  BY IdleTyped DEF Locked

LEMMA NoAskTyped == NoAsk \in Caller /\ NoAsk.new = {} /\ NoAsk.count = 0
  BY DEF NoAsk, Caller

\* One run goes on and the database stays: what it holds it holds alone.
LEMMA Ran ==
  ASSUME IInv, NEW w \in Workers, NEW x \in Worker, worker' = [worker EXCEPT ![w] = x],
         UNCHANGED <<rows, caller, queued>>,
         copies' \in [Messages -> Nat], \A m \in Messages : copies'[m] >= copies[m],
         budget' \in [Acts -> Nat], \A a \in Acts : budget'[a] <= budget[a],
         Locked(x, copies'), \A v \in Workers \ {w} : x.held \cap worker[v].held = {},
         Paid'
  PROVE  IInv'
<1> USE DEF IInv
<1>1. /\ worker' \in [Workers -> Worker] /\ worker'[w] = x
      /\ \A v \in Workers \ {w} : worker'[v] = worker[v]
  BY DEF Types
<1>2. Types'
  <2>1. \A a \in Acts : budget'[a] <= Budget[a]  BY DEF Types
  <2> QED  BY <1>1, <2>1 DEF Types
<1>3. Inserted' /\ Counted'  BY DEF Inserted, Asked, Counted, Present
<1>4. ASSUME NEW v \in Workers \ {w} PROVE Locked(worker[v], copies)'
  <2>1. Locked(worker[v], copies) /\ worker[v] \in Worker  BY DEF Locking, Types
  <2>2. \A m \in worker[v].held : m \in Messages  BY <2>1 DEF Worker
  <2>3. \A m \in worker[v].held : copies[m] > 0 => copies'[m] > 0  BY <2>2 DEF Types
  <2> QED  BY <1>1, <2>1, <2>3 DEF Locked
<1>5. \A v, u \in Workers : v # u => worker'[v].held \cap worker'[u].held = {}
  BY <1>1 DEF Locking
<1>6. Locking'
  <2>1. Locked(worker[w], copies)'  BY <1>1 DEF Locked
  <2> QED  BY <1>4, <1>5, <2>1 DEF Locking
<1>7. \A m \in Messages : InLimit(rows[m])'  BY DEF InLimit
<1> QED  BY <1>2, <1>3, <1>6, <1>7

LEMMA InitInv == Init => IInv
<1> SUFFICES ASSUME Init PROVE IInv  OBVIOUS
<1>1. Types  BY RowsTyped, IdleTyped, NoAskTyped DEF Init, Types
<1>2. Inserted  BY NoAskTyped DEF Init, Inserted, Asked
<1>3. Present = {}  BY RowsTyped DEF Init, Present
<1>4. Counted  BY <1>3, FS_EmptySet DEF Init, Counted
<1>5. Locking  BY IdleTyped, IdleLocked DEF Init, Locking
<1>6. Faults \in Nat /\ \A m \in Messages : copies[m] = 0
  BY <1>1, FaultsType DEF Init
<1>7. Paid  BY <1>6 DEF Paid
<1>8. \A m \in Messages : InLimit(rows[m])  BY RowsTyped DEF Init
<1> QED  BY <1>1, <1>2, <1>4, <1>5, <1>7, <1>8 DEF IInv

-----------------------------------------------------------------------------
(* Jobs.                                                                   *)

\* The insert is of a key that is neither committed nor inserted elsewhere.
LEMMA EnqueueEmailInv ==
  ASSUME IInv, NEW c \in Callers, NEW m \in Messages, EnqueueEmail(c, m)
  PROVE  IInv'
<1> USE DEF IInv
<1> DEFINE x == [asked |-> TRUE, new |-> IF rows[m].status = "none" THEN {m} ELSE {},
                 count |-> IF Created(m) THEN 1 ELSE 0]
<1>1. x \in Caller /\ Asked(x) /\ x.new \subseteq {m}
  BY DEF Caller, Asked, Created
<1>2. /\ caller' \in [Callers -> Caller] /\ caller'[c] = x
      /\ \A d \in Callers \ {c} : caller'[d] = caller[d]
  BY <1>1 DEF EnqueueEmail, Types
<1>3. Types'  BY <1>2 DEF EnqueueEmail, Types
<1>4. Inserted'
  <2>1. \A d \in Callers : m \notin caller[d].new  BY DEF EnqueueEmail
  <2> QED  BY <1>1, <1>2, <2>1 DEF EnqueueEmail, Inserted, Asked
<1>5. Counted' /\ Locking'
  BY DEF EnqueueEmail, Counted, Present, Locking, Locked
<1>6. Paid'  BY DEF EnqueueEmail, Paid, SaidSent, Faults
<1>7. \A n \in Messages : InLimit(rows[n])'  BY DEF EnqueueEmail, InLimit
<1> QED  BY <1>3, <1>4, <1>5, <1>6, <1>7

\* The rows a job adds are new, so that its count is theirs, and no run holds
\* one.
LEMMA CommitCallerInv ==
  ASSUME IInv, NEW c \in Callers, CommitCaller(c)
  PROVE  IInv'
<1> USE DEF IInv
<1> DEFINE x == caller[c]
<1>1. x \in Caller /\ Asked(x)  BY DEF Types, Inserted
<1>2. /\ caller' \in [Callers -> Caller] /\ caller'[c] = NoAsk
      /\ \A d \in Callers \ {c} : caller'[d] = caller[d]
  BY NoAskTyped DEF CommitCaller, Types
<1>3. /\ rows' \in [Messages -> Row]
      /\ \A m \in Messages : rows'[m] = IF m \in x.new THEN Fresh ELSE rows[m]
  BY RowsTyped DEF CommitCaller, Types
<1>4. \A m \in x.new : m \in Messages /\ rows[m].status = "none"
  BY <1>1 DEF Asked
<1>5. Types'
  <2>1. x.count \in Nat  BY <1>1 DEF Caller
  <2> QED  BY <1>2, <1>3, <2>1 DEF CommitCaller, Types
<1>6. Inserted'
  <2> SUFFICES ASSUME NEW d \in Callers \ {c} PROVE Asked(caller[d])'
    BY <1>2, NoAskTyped DEF Inserted, Asked
  <2>1. Asked(caller[d]) /\ caller'[d] = caller[d] /\ caller[d].new \cap x.new = {}
    BY <1>2 DEF Inserted
  <2> QED  BY <1>3, <2>1 DEF Asked
<1>7. Counted'
  <2>1. Present' = Present \cup x.new /\ x.new \cap Present = {}
    BY <1>3, <1>4, RowsTyped DEF Present
  <2>2. CASE x.new = {} /\ x.count = 0
    BY <2>1, <2>2 DEF CommitCaller, Counted, Types
  <2>3. CASE \E m \in Messages : x.new = {m} /\ x.count = 1 /\ rows[m].status = "none"
    BY <2>1, <2>3, FS_AddElement DEF CommitCaller, Counted
  <2> QED  BY <1>1, <2>2, <2>3 DEF Asked
<1>8. Locking'
  <2> SUFFICES ASSUME NEW w \in Workers PROVE Locked(worker[w], copies)'
    BY DEF CommitCaller, Locking
  <2>1. Locked(worker[w], copies) /\ worker[w] \in Worker  BY DEF Locking, Types
  <2>2. \A m \in worker[w].held : m \in Messages /\ rows'[m] = rows[m]
    BY <1>3, <1>4, <2>1 DEF Locked, Worker
  <2> QED  BY <2>1, <2>2 DEF CommitCaller, Locked
<1>9. Paid'
  <2>1. \A m \in Messages : SaidSent(m) => SaidSent(m)'
    BY <1>3, <1>4 DEF CommitCaller, SaidSent
  <2> QED  BY <2>1 DEF CommitCaller, Paid, Faults
<1>10. \A m \in Messages : InLimit(rows[m])'  BY <1>3, RowsTyped DEF InLimit
<1> QED  BY <1>5, <1>6, <1>7, <1>8, <1>9, <1>10

LEMMA RollBackCallerInv ==
  ASSUME IInv, NEW c \in Callers, RollBackCaller(c)
  PROVE  IInv'
<1> USE DEF IInv
<1>1. /\ budget' \in [Acts -> Nat] /\ \A b \in Acts : budget'[b] <= budget[b]
      /\ Faults' = Faults
  BY Spent DEF RollBackCaller, Acts
<1>2. /\ caller' \in [Callers -> Caller] /\ caller'[c] = NoAsk
      /\ \A d \in Callers \ {c} : caller'[d] = caller[d]
  BY NoAskTyped DEF RollBackCaller, Types
<1>3. Types'
  <2>1. \A a \in Acts : budget'[a] <= Budget[a]  BY <1>1 DEF Types
  <2> QED  BY <1>1, <1>2, <2>1 DEF RollBackCaller, Types
<1>4. Inserted'  BY <1>2, NoAskTyped DEF RollBackCaller, Inserted, Asked
<1>5. Counted' /\ Locking'
  BY DEF RollBackCaller, Counted, Present, Locking, Locked
<1>6. Paid'  BY <1>1 DEF RollBackCaller, Paid, SaidSent
<1>7. \A n \in Messages : InLimit(rows[n])'  BY DEF RollBackCaller, InLimit
<1> QED  BY <1>3, <1>4, <1>5, <1>6, <1>7

-----------------------------------------------------------------------------
(* Runs.                                                                   *)

\* What a run has before it hands a row to SMTP: the row alone, unsettled, and
\* no copy that a fault does not pay for.
LEMMA Sending ==
  ASSUME IInv, NEW w \in Workers, worker[w].pc = "sending", NEW m \in worker[w].at
  PROVE  /\ m \in Messages /\ m \in worker[w].held
         /\ rows[m].status \in {"pending", "failed"}
         /\ worker[w].row[m] \in Row /\ worker[w].row[m].status = "pending"
         /\ worker[w].row[m].tries < MaxAttempts
         /\ ~SaidSent(m) /\ copies[m] <= Faults
<1> USE DEF IInv
<1>1. worker[w] \in Worker /\ Locked(worker[w], copies)  BY DEF Types, Locking
<1>2. m \in Messages /\ m \in worker[w].held /\ worker[w].row[m].status = "pending"
  BY <1>1 DEF Worker, Locked
<1>3. rows[m].status \in {"pending", "failed"} /\ worker[w].row[m] \in Row
  BY <1>1, <1>2 DEF Locked, Worker
<1>4. worker[w].row[m].tries < MaxAttempts  BY <1>1, <1>2 DEF Locked, InLimit
<1>5. ~SaidSent(m)
  <2>1. \A v \in Workers \ {w} : m \notin worker[v].held  BY <1>2 DEF Locking
  <2> QED  BY <1>2, <1>3, <2>1 DEF SaidSent
<1> QED  BY <1>2, <1>3, <1>4, <1>5 DEF Paid

\* What SMTP answered is written to the row that the run holds.
LEMMA SettledInv ==
  ASSUME IInv, NEW w \in Workers, worker[w].pc = "sending", NEW m \in worker[w].at,
         NEW row \in Row, row.status \in {"pending", "sent", "failed"}, InLimit(row),
         Settled(w, m, row), UNCHANGED <<rows, caller, queued>>,
         copies' \in [Messages -> Nat], \A n \in Messages : copies'[n] >= copies[n],
         budget' \in [Acts -> Nat], \A a \in Acts : budget'[a] <= budget[a],
         \A n \in Messages \ {m} : copies'[n] = copies[n],
         Faults' \in Nat, Faults' >= Faults,
         copies'[m] <= Faults' \/ (copies'[m] = Faults' + 1 /\ row.status = "sent"),
         row.status = "sent" => copies'[m] > 0
  PROVE  IInv'
<1> DEFINE x == [worker[w] EXCEPT !.pc = "open", !.at = {}, !.row[m] = row]
<1>1. worker[w] \in Worker /\ Locked(worker[w], copies)  BY DEF IInv, Types, Locking
<1>2. m \in Messages /\ m \in worker[w].held  BY Sending
<1>3. /\ x \in Worker /\ x.pc = "open" /\ x.at = {} /\ x.held = worker[w].held
      /\ x.row[m] = row /\ \A n \in Messages \ {m} : x.row[n] = worker[w].row[n]
  BY <1>1, <1>2 DEF Worker
<1>4. worker' = [worker EXCEPT ![w] = x]  BY <1>1 DEF Settled, IInv, Types
<1> HIDE DEF x
<1>5. Locked(x, copies')
  <2> SUFFICES ASSUME NEW n \in worker[w].held
               PROVE  /\ rows[n].status \in {"pending", "failed"}
                      /\ x.row[n].status \in {"pending", "sent", "failed"} /\ InLimit(x.row[n])
                      /\ x.row[n].status = "sent" => copies'[n] > 0
    BY <1>3 DEF Locked
  <2>1. n \in Messages /\ rows[n].status \in {"pending", "failed"}
    BY <1>1 DEF Locked, Worker
  <2>2. CASE n = m  BY <1>3, <2>1, <2>2
  <2>3. CASE n # m
    <3>1. x.row[n] = worker[w].row[n] /\ copies'[n] = copies[n]  BY <1>3, <2>1, <2>3
    <3> QED  BY <1>1, <2>1, <3>1 DEF Locked
  <2> QED  BY <2>2, <2>3
<1>6. \A v \in Workers \ {w} : x.held \cap worker[v].held = {}
  BY <1>3 DEF IInv, Locking
<1>7. Paid'
  <2> SUFFICES ASSUME NEW n \in Messages
               PROVE  copies'[n] <= Faults' \/ (copies'[n] = Faults' + 1 /\ SaidSent(n)')
    BY DEF Paid
  <2>1. \A v \in Workers : worker'[v] = IF v = w THEN x ELSE worker[v]
    BY <1>4 DEF IInv, Types
  <2>2. CASE n = m
    <3>1. row.status = "sent" => SaidSent(m)'  BY <1>2, <1>3, <2>1 DEF SaidSent
    <3> QED  BY <2>2, <3>1
  <2>3. CASE n # m
    <3>1. SaidSent(n) => SaidSent(n)'  BY <1>3, <2>1, <2>3 DEF SaidSent
    <3>2. copies[n] <= Faults \/ (copies[n] = Faults + 1 /\ SaidSent(n))
      BY DEF IInv, Paid
    <3>3. copies[n] \in Nat /\ Faults \in Nat /\ copies'[n] = copies[n]
      BY <2>3, FaultsType DEF IInv, Types
    <3> QED  BY <3>1, <3>2, <3>3
  <2> QED  BY <2>2, <2>3
<1> QED  BY <1>3, <1>4, <1>5, <1>6, <1>7, Ran

\* The row is locked by no other run, and is not known to be sent.
LEMMA ClaimInv ==
  ASSUME IInv, NEW w \in Workers, Claim(w)
  PROVE  IInv'
<1> USE DEF IInv
<1>1. PICK m \in Messages :
        /\ Claimable(w, m)
        /\ worker' = [worker EXCEPT ![w].pc = "sending", ![w].at = {m},
                                    ![w].sends = @ + 1, ![w].held = @ \cup {m},
                                    ![w].row[m] = View(w, m)]
  BY DEF Claim
<1> DEFINE x == [worker[w] EXCEPT !.pc = "sending", !.at = {m}, !.sends = @ + 1,
                                  !.held = @ \cup {m}, !.row[m] = View(w, m)]
<1>2. worker[w] \in Worker /\ Locked(worker[w], copies)  BY DEF Types, Locking
<1>3. View(w, m) \in Row /\ View(w, m).status = "pending" /\ InLimit(View(w, m))
  BY <1>1, <1>2 DEF Claimable, View, Types, Worker, Locked
<1>4. worker[w].sends + 1 \in 0 .. MaxBatch  BY <1>2 DEF Claim, Worker
<1>5. /\ x.pc = "sending" /\ x.at = {m} /\ x.held = worker[w].held \cup {m}
      /\ x.row[m] = View(w, m) /\ \A n \in Messages \ {m} : x.row[n] = worker[w].row[n]
  BY <1>2 DEF Worker
<1>6. x \in Worker  BY <1>2, <1>3, <1>4 DEF Worker
<1>7. worker' = [worker EXCEPT ![w] = x]
  <2>1. \A v \in Workers : worker'[v] = IF v = w THEN x ELSE worker[v]
    BY <1>1, <1>2 DEF Types, Worker
  <2>2. worker' \in [Workers -> Worker]  BY <1>1, <1>2, <1>6, <2>1 DEF Types
  <2> QED  BY <2>1, <2>2 DEF Types
<1> HIDE DEF x
<1>8. Locked(x, copies')
  <2>1. rows[m].status \in {"pending", "failed"}
    BY <1>1, <1>2 DEF Claimable, View, Locked
  <2>2. \A n \in worker[w].held \ {m} : x.row[n] = worker[w].row[n]
    BY <1>2, <1>5 DEF Worker
  <2> QED  BY <1>2, <1>3, <1>5, <2>1, <2>2 DEF Claim, Locked
<1>9. \A v \in Workers \ {w} : x.held \cap worker[v].held = {}
  BY <1>1, <1>5 DEF Claimable, Free, Locking
<1>10. Paid'
  <2>1. \A v \in Workers : worker'[v] = IF v = w THEN x ELSE worker[v]
    BY <1>7 DEF Types
  <2>2. \A n \in Messages : SaidSent(n) => SaidSent(n)'
    <3> SUFFICES ASSUME NEW n \in Messages, SaidSent(n) PROVE SaidSent(n)'  OBVIOUS
    <3>1. CASE rows[n].status = "sent"  BY <3>1 DEF Claim, SaidSent
    <3>2. CASE \E v \in Workers : n \in worker[v].held /\ worker[v].row[n].status = "sent"
      <4>1. PICK v \in Workers : n \in worker[v].held /\ worker[v].row[n].status = "sent"
        BY <3>2
      <4>2. CASE v = w
        <5>1. n # m  BY <1>3, <4>1, <4>2 DEF View
        <5> QED  BY <1>5, <2>1, <4>1, <4>2, <5>1 DEF SaidSent
      <4>3. CASE v # w  BY <2>1, <4>1, <4>3 DEF SaidSent
      <4> QED  BY <4>2, <4>3
    <3> QED  BY <3>1, <3>2 DEF SaidSent
  <2> QED  BY <2>2 DEF Claim, Paid, Faults
<1>11. \A n \in Messages : copies'[n] >= copies[n]  BY DEF Claim, Types
<1>12. \A a \in Acts : budget'[a] <= budget[a]  BY DEF Claim, Types
<1> QED  BY <1>6, <1>7, <1>8, <1>9, <1>10, <1>11, <1>12, Ran DEF Claim, Types

LEMMA SmtpAcceptsInv ==
  ASSUME IInv, NEW w \in Workers, SmtpAccepts(w)
  PROVE  IInv'
<1>1. PICK m \in worker[w].at :
        /\ copies' = [copies EXCEPT ![m] = @ + 1]
        /\ Settled(w, m, [worker[w].row[m] EXCEPT !.status = "sent", !.tries = @ + 1])
  BY DEF SmtpAccepts
<1> DEFINE row == [worker[w].row[m] EXCEPT !.status = "sent", !.tries = @ + 1]
<1>2. /\ m \in Messages /\ worker[w].row[m] \in Row /\ worker[w].row[m].tries < MaxAttempts
      /\ copies[m] <= Faults
  BY Sending DEF SmtpAccepts
<1>3. row \in Row /\ row.status = "sent" /\ InLimit(row)
  <2>1. worker[w].row[m].tries + 1 \in 0 .. MaxAttempts  BY <1>2 DEF Row
  <2> QED  BY <1>2, <2>1 DEF Row, RowStatus, InLimit
<1>8. Settled(w, m, row)  BY <1>1
<1> HIDE DEF row
<1>4. /\ copies' \in [Messages -> Nat] /\ copies'[m] = copies[m] + 1
      /\ \A n \in Messages \ {m} : copies'[n] = copies[n]
      /\ \A n \in Messages : copies'[n] >= copies[n]
  BY <1>1, <1>2 DEF IInv, Types
<1>5. budget' \in [Acts -> Nat] /\ \A a \in Acts : budget'[a] <= budget[a]
  BY DEF SmtpAccepts, IInv, Types
<1>6. Faults' = Faults /\ Faults \in Nat /\ copies[m] \in Nat
  BY <1>2, FaultsType DEF SmtpAccepts, Faults, IInv, Types
<1>7. copies'[m] > 0 /\ (copies'[m] <= Faults' \/ copies'[m] = Faults' + 1)
  BY <1>2, <1>4, <1>6
<1> QED  BY <1>3, <1>4, <1>5, <1>6, <1>7, <1>8, SettledInv DEF SmtpAccepts

LEMMA RefusedTyped ==
  ASSUME NEW row \in Row, row.tries < MaxAttempts
  PROVE  /\ Refused(row) \in Row /\ Refused(row).status \in {"pending", "failed"}
         /\ InLimit(Refused(row))
<1> DEFINE new == Refused(row)
           last == row.tries + 1 >= MaxAttempts
<1>1. row.tries + 1 \in 0 .. MaxAttempts  BY DEF Row
<1>2. new.tries = row.tries + 1 /\ new.status = IF last THEN "failed" ELSE "pending"
  BY DEF Row, Refused
<1>3. new \in [status : {"pending", "failed"}, tries : 0 .. MaxAttempts, due : BOOLEAN]
  BY <1>1 DEF Row, Refused
<1>4. ~last => new.tries < MaxAttempts  BY <1>1, <1>2
<1> HIDE DEF new, last
<1>5. new \in Row /\ new.status \in {"pending", "failed"}  BY <1>3 DEF Row, RowStatus
<1>6. InLimit(new)  BY <1>2, <1>4 DEF InLimit
<1> QED  BY <1>5, <1>6 DEF new

LEMMA SmtpRefusesInv ==
  ASSUME IInv, NEW w \in Workers, SmtpRefuses(w)
  PROVE  IInv'
<1>1. PICK m \in worker[w].at : Settled(w, m, Refused(worker[w].row[m]))
  BY DEF SmtpRefuses
<1> DEFINE row == Refused(worker[w].row[m])
<1>2. /\ m \in Messages /\ row \in Row /\ row.status \in {"pending", "failed"} /\ InLimit(row)
      /\ copies[m] <= Faults
  BY Sending, RefusedTyped DEF SmtpRefuses
<1>3. /\ copies' = copies /\ copies \in [Messages -> Nat]
      /\ budget' = budget /\ budget \in [Acts -> Nat]
  BY DEF SmtpRefuses, IInv, Types
<1>4. Faults' = Faults /\ Faults \in Nat
  BY FaultsType DEF SmtpRefuses, Faults, IInv
<1>5. /\ \A n \in Messages : copies'[n] >= copies[n]
      /\ \A a \in Acts : budget'[a] <= budget[a]
  BY <1>3
<1> QED  BY <1>1, <1>2, <1>3, <1>4, <1>5, SettledInv DEF SmtpRefuses

\* The lost reply pays for the copy.
LEMMA SmtpUnclearInv ==
  ASSUME IInv, NEW w \in Workers, SmtpUnclear(w)
  PROVE  IInv'
<1>1. PICK m \in worker[w].at :
        /\ copies' = [copies EXCEPT ![m] = @ + 1]
        /\ Settled(w, m, Refused(worker[w].row[m]))
  BY DEF SmtpUnclear
<1> DEFINE row == Refused(worker[w].row[m])
<1>2. /\ m \in Messages /\ row \in Row /\ row.status \in {"pending", "failed"} /\ InLimit(row)
      /\ copies[m] <= Faults
  BY Sending, RefusedTyped DEF SmtpUnclear
<1>3. /\ copies' \in [Messages -> Nat] /\ copies'[m] = copies[m] + 1
      /\ \A n \in Messages \ {m} : copies'[n] = copies[n]
      /\ \A n \in Messages : copies'[n] >= copies[n]
  BY <1>1, <1>2 DEF IInv, Types
<1>4. /\ budget' \in [Acts -> Nat] /\ \A a \in Acts : budget'[a] <= budget[a]
      /\ Faults' = Faults + 1
  BY Spent DEF SmtpUnclear, Acts, IInv
<1>5. Faults \in Nat /\ copies[m] \in Nat  BY <1>2, FaultsType DEF IInv, Types
<1>6. Faults' \in Nat /\ Faults' >= Faults /\ copies'[m] <= Faults'
  BY <1>2, <1>3, <1>4, <1>5
<1> QED  BY <1>1, <1>2, <1>3, <1>4, <1>6, SettledInv DEF SmtpUnclear

\* The database takes what the run made of its rows; the others keep theirs.
LEMMA Committed ==
  ASSUME IInv, NEW w \in Workers, CommitRun(w)
  PROVE  /\ rows' \in [Messages -> Row]
         /\ \A m \in Messages \ worker[w].held : rows'[m] = rows[m]
         /\ \A m \in worker[w].held :
              /\ m \in Messages /\ rows'[m] = worker[w].row[m] /\ InLimit(rows'[m])
              /\ rows[m].status \in {"pending", "failed"}
              /\ rows'[m].status \in {"pending", "sent", "failed"}
              /\ rows'[m].status = "sent" => copies[m] > 0
<1>1. worker[w] \in Worker /\ Locked(worker[w], copies)  BY DEF IInv, Types, Locking
<1>2. \A m \in Messages : rows'[m] = IF m \in worker[w].held THEN worker[w].row[m] ELSE rows[m]
  BY DEF CommitRun, View
<1>3. rows' \in [Messages -> Row]
  BY <1>1, <1>2 DEF CommitRun, IInv, Types, Worker
<1>4. worker[w].held \subseteq Messages  BY <1>1 DEF Worker
<1> QED  BY <1>1, <1>2, <1>3, <1>4 DEF Locked

LEMMA CommitRunInv ==
  ASSUME IInv, NEW w \in Workers, CommitRun(w)
  PROVE  IInv'
<1> USE DEF IInv
<1>1. /\ worker' \in [Workers -> Worker] /\ worker'[w] = Idle
      /\ \A v \in Workers \ {w} : worker'[v] = worker[v]
  BY IdleTyped DEF CommitRun, Types
<1>2. Types'  BY <1>1, Committed DEF CommitRun, Types
<1>3. \A m \in Messages : rows'[m].status = "none" <=> rows[m].status = "none"
  <2> SUFFICES ASSUME NEW m \in Messages
               PROVE  rows'[m].status = "none" <=> rows[m].status = "none"
    OBVIOUS
  <2>1. CASE m \in worker[w].held
    <3>1. rows[m].status \in {"pending", "failed"} /\ rows'[m].status \in {"pending", "sent", "failed"}
      BY <2>1, Committed
    <3> QED  BY <3>1
  <2>2. CASE m \notin worker[w].held  BY <2>2, Committed
  <2> QED  BY <2>1, <2>2
<1>4. Inserted'  BY <1>3 DEF CommitRun, Inserted, Asked
<1>5. Counted'
  <2>1. Present' = Present  BY <1>3 DEF Present
  <2> QED  BY <2>1 DEF CommitRun, Counted
<1>6. Locking'
  <2> SUFFICES ASSUME NEW v \in Workers \ {w} PROVE Locked(worker[v], copies)'
    BY <1>1, IdleTyped, IdleLocked DEF Locking, Locked
  <2>1. Locked(worker[v], copies) /\ worker[v] \in Worker  BY DEF Locking, Types
  <2>2. \A m \in worker[v].held : m \in Messages /\ m \notin worker[w].held
    BY <2>1 DEF Locking, Worker
  <2>3. \A m \in worker[v].held : rows'[m] = rows[m]  BY <2>2, Committed
  <2> QED  BY <1>1, <2>1, <2>3 DEF CommitRun, Locked
<1>7. Paid'
  <2> SUFFICES ASSUME NEW m \in Messages, SaidSent(m) PROVE SaidSent(m)'
    BY DEF CommitRun, Paid, Faults
  <2>1. CASE rows[m].status = "sent"
    <3>1. m \notin worker[w].held  BY <2>1, Committed
    <3> QED  BY <2>1, <3>1, Committed DEF SaidSent
  <2>2. CASE \E v \in Workers : m \in worker[v].held /\ worker[v].row[m].status = "sent"
    <3>1. PICK v \in Workers : m \in worker[v].held /\ worker[v].row[m].status = "sent"
      BY <2>2
    <3>2. CASE v = w  BY <3>1, <3>2, Committed DEF SaidSent
    <3>3. CASE v # w  BY <1>1, <3>1, <3>3 DEF SaidSent
    <3> QED  BY <3>2, <3>3
  <2> QED  BY <2>1, <2>2 DEF SaidSent
<1>8. \A m \in Messages : InLimit(rows[m])'
  <2> SUFFICES ASSUME NEW m \in Messages PROVE InLimit(rows'[m])  BY DEF InLimit
  <2>1. CASE m \in worker[w].held  BY <2>1, Committed
  <2>2. CASE m \notin worker[w].held  BY <2>2, Committed
  <2> QED  BY <2>1, <2>2
<1> QED  BY <1>2, <1>4, <1>5, <1>6, <1>7, <1>8

\* A crash forgets who knew what was sent, and pays for one more copy of each.
LEMMA CrashRunInv ==
  ASSUME IInv, NEW w \in Workers, CrashRun(w)
  PROVE  IInv'
<1>1. /\ budget' \in [Acts -> Nat] /\ \A a \in Acts : budget'[a] <= budget[a]
      /\ Faults' = Faults + 1
  BY Spent DEF CrashRun, Acts, IInv
<1>2. Paid'
  <2>1. Faults \in Nat /\ \A m \in Messages : copies'[m] \in Nat /\ copies'[m] <= Faults + 1
    BY FaultsType DEF CrashRun, IInv, Types, Paid
  <2> QED  BY <1>1, <2>1 DEF Paid
<1>3. \A m \in Messages : copies'[m] >= copies[m]  BY DEF CrashRun, IInv, Types
<1> QED  BY <1>1, <1>2, <1>3, IdleTyped, IdleLocked, Ran DEF CrashRun, IInv, Types

\* An idle run holds nothing; what it takes back was given up, and is free.
LEMMA RequeueFailedInv ==
  ASSUME IInv, NEW w \in Workers, RequeueFailed(w)
  PROVE  IInv'
<1> DEFINE row == [m \in Messages |-> IF m \in Failed THEN Fresh ELSE NoRow]
           x == [worker[w] EXCEPT !.pc = "open", !.held = Failed, !.row = row]
<1>1. worker[w] \in Worker /\ worker[w].held = {}
  BY DEF RequeueFailed, IInv, Types, Locking, Locked
<1>2. row \in [Messages -> Row] /\ Failed \subseteq Messages
  BY RowsTyped DEF Failed
<1>3. worker' = [worker EXCEPT ![w] = x]  BY <1>1 DEF RequeueFailed, IInv, Types
<1>4. \A m \in Failed : row[m] = Fresh /\ rows[m].status = "failed"  BY DEF Failed
<1> HIDE DEF row
<1>5. x \in Worker /\ x.pc = "open" /\ x.held = Failed /\ x.row = row
  BY <1>1, <1>2 DEF Worker
<1> HIDE DEF x
<1>6. /\ budget' \in [Acts -> Nat] /\ \A a \in Acts : budget'[a] <= budget[a]
      /\ Faults' = Faults
  BY Spent DEF RequeueFailed, Acts, IInv
<1>7. Locked(x, copies')  BY <1>4, <1>5, RowsTyped DEF Locked
<1>8. \A v \in Workers \ {w} : x.held \cap worker[v].held = {}
  BY <1>5 DEF RequeueFailed, Free
<1>9. Paid'
  <2>1. \A v \in Workers : worker'[v] = IF v = w THEN x ELSE worker[v]
    BY <1>3 DEF IInv, Types
  <2>2. \A m \in Messages : SaidSent(m) => SaidSent(m)'
    BY <1>1, <2>1 DEF RequeueFailed, SaidSent
  <2> QED  BY <1>6, <2>2 DEF RequeueFailed, IInv, Paid
<1>10. \A m \in Messages : copies'[m] >= copies[m]  BY DEF RequeueFailed, IInv, Types
<1> QED  BY <1>3, <1>5, <1>6, <1>7, <1>8, <1>9, <1>10, Ran DEF RequeueFailed, IInv, Types

LEMMA BackoffEndsInv ==
  ASSUME IInv, NEW m \in Messages, BackoffEnds(m)
  PROVE  IInv'
<1> USE DEF IInv
<1>1. /\ rows' \in [Messages -> Row]
      /\ \A n \in Messages : rows'[n].status = rows[n].status /\ rows'[n].tries = rows[n].tries
  BY DEF BackoffEnds, Types, Row
<1>2. Types'  BY <1>1 DEF BackoffEnds, Types
<1>3. Inserted'  BY <1>1 DEF BackoffEnds, Inserted, Asked
<1>4. Counted'
  <2>1. Present' = Present  BY <1>1 DEF Present
  <2> QED  BY <2>1 DEF BackoffEnds, Counted
<1>5. Locking'
  <2> SUFFICES ASSUME NEW w \in Workers PROVE Locked(worker[w], copies)'
    BY DEF BackoffEnds, Locking
  <2>1. Locked(worker[w], copies) /\ worker[w] \in Worker  BY DEF Locking, Types
  <2>2. \A n \in worker[w].held : n \in Messages  BY <2>1 DEF Worker
  <2> QED  BY <1>1, <2>1, <2>2 DEF BackoffEnds, Locked
<1>6. Paid'  BY <1>1 DEF BackoffEnds, Paid, SaidSent, Faults
<1>7. \A n \in Messages : InLimit(rows[n])'  BY <1>1 DEF InLimit
<1> QED  BY <1>2, <1>3, <1>4, <1>5, <1>6, <1>7

-----------------------------------------------------------------------------
(* Types and counts.                                                       *)

LEMMA StutterInv ==
  ASSUME IInv, UNCHANGED vars
  PROVE  IInv'
<1> USE DEF IInv, vars
<1>1. Types' /\ Inserted'  BY DEF Types, Inserted, Asked
<1>2. Counted' /\ Locking'  BY DEF Counted, Present, Locking, Locked
<1>3. Paid' /\ \A m \in Messages : InLimit(rows[m])'
  BY DEF Paid, SaidSent, Faults, InLimit
<1> QED  BY <1>1, <1>2, <1>3

LEMMA NextInv ==
  ASSUME IInv, [Next]_vars
  PROVE  IInv'
<1>1. CASE UNCHANGED vars  BY <1>1, StutterInv
<1>2. ASSUME NEW w \in Workers, Run(w) PROVE IInv'
  BY <1>2, ClaimInv, SmtpAcceptsInv, SmtpRefusesInv, CommitRunInv DEF Run
<1>3. ASSUME NEW w \in Workers, SmtpUnclear(w) \/ CrashRun(w) \/ RequeueFailed(w) PROVE IInv'
  BY <1>3, SmtpUnclearInv, CrashRunInv, RequeueFailedInv
<1>4. ASSUME NEW c \in Callers, Job(c) PROVE IInv'
  BY <1>4, EnqueueEmailInv, CommitCallerInv, RollBackCallerInv DEF Job
<1>5. ASSUME NEW m \in Messages, BackoffEnds(m) PROVE IInv'
  BY <1>5, BackoffEndsInv
<1> QED  BY <1>1, <1>2, <1>3, <1>4, <1>5 DEF Next

\* The inductive invariant holds of every reachable state.
THEOREM Invariance == Spec => []IInv
  BY InitInv, NextInv, PTL DEF Spec

LEMMA InvTypeOK == IInv => TypeOK
<1> SUFFICES ASSUME IInv PROVE TypeOK  OBVIOUS
<1>1. QueuedIsCounted  BY DEF IInv, Counted, Present, QueuedIsCounted
<1>2. \A m \in Messages : rows[m].status = "pending" => rows[m].tries < MaxAttempts
  BY DEF IInv, InLimit
<1>3. \A w \in Workers : worker[w].pc = "idle" => worker[w].held = {}
  BY DEF IInv, Locking, Locked
<1> QED  BY <1>1, <1>2, <1>3 DEF IInv, Types, Caller, Worker, TypeOK

\* Types, the limit of attempts, and the counts the jobs report (enqueue_email,
\* deliver_pending).
THEOREM OutboxTypeCorrect == Spec => []TypeOK
  BY Invariance, InvTypeOK, PTL

-----------------------------------------------------------------------------
(* The outbox implements MailContract.                                     *)

Intent == [m \in Messages |-> rows[m].status]

\* A step that changes no status, no copy and counts no fault.
LEMMA Silent ==
  ASSUME UNCHANGED copies, Faults' = Faults,
         \A m \in Messages : rows'[m].status = rows[m].status
  PROVE  UNCHANGED <<Intent, copies, Faults>>
  BY DEF Intent

\* A copy is handed over while the database says that the message is unsettled.
LEMMA Handed ==
  ASSUME IInv, NEW w \in Workers, worker[w].pc = "sending", NEW m \in worker[w].at,
         copies' = [copies EXCEPT ![m] = @ + 1], rows' = rows,
         Faults' \in {Faults, Faults + 1}
  PROVE  Mailbox!Hand
<1>1. m \in Messages /\ rows[m].status \in {"pending", "failed"} /\ copies[m] <= Faults
  BY Sending
<1>2. Intent[m] \in {"pending", "failed"} /\ Intent' = Intent
  BY <1>1 DEF Intent
<1> QED  BY <1>1, <1>2 DEF Mailbox!Hand, Intent, Faults

LEMMA CommitCallerRefines ==
  ASSUME IInv, NEW c \in Callers, CommitCaller(c)
  PROVE  Mailbox!Commit
<1>1. \A m \in caller[c].new : m \in Messages /\ rows[m].status = "none"
  BY DEF IInv, Inserted, Asked
<1>2. \A m \in Messages : Intent[m] = rows[m].status /\ Intent'[m] = rows'[m].status
  BY DEF Intent
<1>3. \A m \in Messages : rows'[m] = IF m \in caller[c].new THEN Fresh ELSE rows[m]
  BY DEF CommitCaller
<1>4. \A m \in Messages : Intent'[m] = Intent[m] \/ Mailbox!Moves(Intent[m], Intent'[m], copies[m])
  BY <1>1, <1>2, <1>3, RowsTyped DEF Mailbox!Moves
<1> QED  BY <1>4 DEF CommitCaller, Mailbox!Commit, Intent, Faults

LEMMA CommitRunRefines ==
  ASSUME IInv, NEW w \in Workers, CommitRun(w)
  PROVE  Mailbox!Commit
<1>1. ASSUME NEW m \in Messages
      PROVE  Intent'[m] = Intent[m] \/ Mailbox!Moves(Intent[m], Intent'[m], copies[m])
  <2>1. Intent[m] = rows[m].status /\ Intent'[m] = rows'[m].status  BY DEF Intent
  <2>2. CASE m \in worker[w].held
    BY <2>1, <2>2, Committed DEF Mailbox!Moves
  <2>3. CASE m \notin worker[w].held  BY <2>1, <2>3, Committed
  <2> QED  BY <2>2, <2>3
<1> QED  BY <1>1 DEF CommitRun, Mailbox!Commit, Intent, Faults

LEMMA InitRefines == Init => Mailbox!Init
<1> SUFFICES ASSUME Init PROVE Mailbox!Init  OBVIOUS
<1>1. Faults = 0  BY DEF Init, Faults, Acts
<1> QED  BY <1>1, RowsTyped DEF Init, Mailbox!Init, Faults

LEMMA NextRefines ==
  ASSUME IInv, [Next]_vars
  PROVE  Mailbox!Next \/ UNCHANGED <<Intent, copies, Faults>>
<1>1. CASE UNCHANGED vars  BY <1>1 DEF vars, Intent, Faults
<1>2. ASSUME NEW w \in Workers, Claim(w) \/ SmtpRefuses(w)
      PROVE  UNCHANGED <<Intent, copies, Faults>>
  BY <1>2 DEF Claim, SmtpRefuses, Intent, Faults
<1>3. ASSUME NEW w \in Workers, SmtpAccepts(w) PROVE Mailbox!Next
  <2>1. Faults' = Faults  BY <1>3 DEF SmtpAccepts, Faults
  <2> QED  BY <1>3, <2>1, Handed DEF SmtpAccepts, Mailbox!Next
<1>4. ASSUME NEW w \in Workers, SmtpUnclear(w) PROVE Mailbox!Next
  <2>1. Faults' = Faults + 1  BY <1>4, Spent DEF SmtpUnclear, Acts, IInv
  <2> QED  BY <1>4, <2>1, Handed DEF SmtpUnclear, Mailbox!Next
<1>5. ASSUME NEW w \in Workers, CommitRun(w) PROVE Mailbox!Next
  BY <1>5, CommitRunRefines DEF Mailbox!Next
<1>6. ASSUME NEW w \in Workers, CrashRun(w) PROVE Mailbox!Next
  <2>1. Faults' = Faults + 1  BY <1>6, Spent DEF CrashRun, Acts, IInv
  <2> QED  BY <1>6, <2>1 DEF CrashRun, Mailbox!Next, Mailbox!Fault, Faults
<1>7. ASSUME NEW w \in Workers, RequeueFailed(w) PROVE UNCHANGED <<Intent, copies, Faults>>
  <2>1. Faults' = Faults  BY <1>7, Spent DEF RequeueFailed, Acts, IInv
  <2> QED  BY <1>7, <2>1 DEF RequeueFailed, Intent
<1>8. ASSUME NEW c \in Callers, NEW m \in Messages, EnqueueEmail(c, m)
      PROVE  UNCHANGED <<Intent, copies, Faults>>
  BY <1>8 DEF EnqueueEmail, Intent, Faults
<1>9. ASSUME NEW c \in Callers, CommitCaller(c) PROVE Mailbox!Next
  BY <1>9, CommitCallerRefines DEF Mailbox!Next
<1>10. ASSUME NEW c \in Callers, RollBackCaller(c) PROVE UNCHANGED <<Intent, copies, Faults>>
  <2>1. Faults' = Faults  BY <1>10, Spent DEF RollBackCaller, Acts, IInv
  <2> QED  BY <1>10, <2>1 DEF RollBackCaller, Intent
<1>11. ASSUME NEW m \in Messages, BackoffEnds(m) PROVE UNCHANGED <<Intent, copies, Faults>>
  <2>1. \A n \in Messages : rows'[n].status = rows[n].status
    BY <1>11 DEF BackoffEnds, IInv, Types, Row
  <2> QED  BY <1>11, <2>1, Silent DEF BackoffEnds, Faults
<1> QED  BY <1>1, <1>2, <1>3, <1>4, <1>5, <1>6, <1>7, <1>8, <1>9, <1>10, <1>11
         DEF Next, Run, Job

\* The outbox keeps the contract of a transactional outbox: nothing is settled
\* unsent, and a copy beyond the first is paid for by a crash or a lost reply
\* (deliver_pending).
THEOREM OutboxImplementsContract == Spec => ImplementsMailbox
<1>1. IInv /\ [Next]_vars => [Mailbox!Next]_<<Intent, copies, Faults>>
  BY NextRefines
<1> QED  BY <1>1, InitRefines, Invariance, PTL
         DEF Spec, ImplementsMailbox, Mailbox!Spec, Intent, Faults
=============================================================================
