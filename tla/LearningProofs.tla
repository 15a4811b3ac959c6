----------------------------- MODULE LearningProofs -----------------------------
(* Proofs about Learning, for every course, every number of transactions and *)
(* every limit.                                                              *)
EXTENDS Learning, FiniteSetTheorems, TLAPS

-----------------------------------------------------------------------------
(* The inductive invariant.                                                *)

\* The types alone, with the bounds that a recomputation can reach.
Types ==
  /\ published \subseteq Activities /\ published # {} /\ passed \subseteq published
  /\ open \subseteq Pools
  /\ grants \in [Activities -> 0 .. MaxGrants]
  /\ subs \in [Activities -> Nat]
  /\ rec \in Record /\ Share(rec) \in Progress /\ cert \in BOOLEAN
  /\ tx \in [Writers -> Transaction]
  /\ synced \in [share : Progress, stamp : BOOLEAN]
  /\ push \in Push
  /\ erp \subseteq Progress

InFlight(x, kind) == x # Idle /\ x.kind = kind

\* The person's row, the record's row and the worker's lab checks have one
\* transaction each.
Compatible(x, y) ==
  /\ ~(InFlight(x, "submit") /\ InFlight(y, "submit"))
  /\ ~(InFlight(x, "check") /\ InFlight(y, "check"))
  /\ ~(x.at = "counted" /\ y.at = "counted")

Exclusive == \A w, o \in Writers : w # o => Compatible(tx[w], tx[o])

\* The submissions of an activity stay within its limit, and are all of the course.
Limited ==
  /\ AttemptsHeld
  /\ \A a \in Labs : subs[a] <= MaxChecks
  /\ \A a \in Activities : subs[a] > 0 => a \in published

\* A record's stamp is what its numbers say.
Stamped(r) == r.stamped <=> r.total > 0 /\ Cardinality(r.passed) = r.total

\* What a transaction was let in with still holds: the attempt it takes is left,
\* and what it counted is what is committed, with its own score.
Sound(x) ==
  x # Idle =>
    /\ x.act \in published
    /\ x.kind = "submit" => x.act \notin Labs /\ subs[x.act] < MaxAttempts + grants[x.act]
    /\ x.kind = "check" => x.act \in Labs /\ subs[x.act] < MaxChecks
    /\ x.kind # "override" /\ x.act \in Manuals => ~x.pass /\ x.at = "scored"
    /\ x.at = "counted" =>
         /\ x.rec.passed = passed \cup (IF x.pass THEN {x.act} ELSE {})
         /\ Share(x.rec) \in Progress /\ Stamped(x.rec)
         /\ x.rec.stamped => x.cert

AllSound == \A w \in Writers : Sound(tx[w])

\* An answer that counts as a delivery is one: ERP has the share, or has the
\* course as complete already.
Answered ==
  push # Quiet /\ push.at = "answered" /\ push.ok =>
    push.read \in erp \/ (Complete(push.read) /\ synced.stamp)

IInv == Types /\ Exclusive /\ Limited /\ AllSound /\ CompletionExact /\ Answered /\ ErpAccepted

USE ActivitiesAssumption, LimitsAssumption

-----------------------------------------------------------------------------
(* Lemmas.                                                                 *)

\* What is counted is at most the activities there are.
LEMMA CountType ==
  ASSUME NEW S \in SUBSET Activities
  PROVE  /\ IsFiniteSet(S) /\ Cardinality(S) \in 0 .. Cardinality(Activities)
         /\ Cardinality(S) = 0 <=> S = {}
<1>1. Cardinality(Activities) \in Nat /\ Cardinality(Activities) >= Cardinality(S)
  BY FS_Subset, FS_CardinalityType
<1>2. IsFiniteSet(S) /\ Cardinality(S) \in Nat  BY FS_Subset, FS_CardinalityType
<1> QED  BY <1>1, <1>2, FS_EmptySet

LEMMA IdleTyped == Idle \in Transaction /\ Idle.at = "idle"
  BY DEF Idle, Transaction

\* What is in flight has all its fields.
LEMMA InFlightTyped ==
  ASSUME NEW x \in Transaction, x # Idle
  PROVE  x \in [at : {"scored", "counted"}, kind : Kinds, act : Activities, pass : BOOLEAN,
                rec : Record, cert : BOOLEAN]
  BY DEF Transaction

\* Nothing is excluded by a transaction that has ended.
LEMMA IdleCompatible ==
  ASSUME NEW x
  PROVE  Compatible(Idle, x) /\ Sound(Idle)
  BY IdleTyped DEF Compatible, InFlight, Sound

\* One transaction moves on.
LEMMA Moved ==
  ASSUME Types, Exclusive, NEW w \in Writers, NEW x \in Transaction,
         tx' = [tx EXCEPT ![w] = x],
         \A o \in Writers \ {w} : Compatible(x, tx[o])
  PROVE  /\ tx' \in [Writers -> Transaction] /\ tx'[w] = x
         /\ \A o \in Writers \ {w} : tx'[o] = tx[o]
         /\ Exclusive'
<1>1. /\ tx' \in [Writers -> Transaction] /\ tx'[w] = x
      /\ \A o \in Writers \ {w} : tx'[o] = tx[o]
  BY DEF Types
<1>2. \A o \in Writers \ {w} : Compatible(tx[o], x)
  BY DEF Compatible
<1> QED  BY <1>1, <1>2 DEF Exclusive

\* A step that only moves one transaction on, to where it is sound.
LEMMA Advanced ==
  ASSUME IInv, NEW w \in Writers, NEW x \in Transaction,
         tx' = [tx EXCEPT ![w] = x],
         UNCHANGED <<published, grants, open, subs, passed, rec, cert, projection>>,
         \A o \in Writers \ {w} : Compatible(x, tx[o]),
         Sound(x)
  PROVE  IInv'
<1> USE DEF IInv
<1>1. /\ tx' \in [Writers -> Transaction] /\ tx'[w] = x
      /\ \A o \in Writers \ {w} : tx'[o] = tx[o]
      /\ Exclusive'
  BY Moved
<1>2. Types'  BY <1>1 DEF Types, projection, Share
<1>3. AllSound'  BY <1>1 DEF AllSound, Sound
<1>4. Limited' /\ CompletionExact' /\ Answered' /\ ErpAccepted'
  BY DEF Limited, AttemptsHeld, CompletionExact, Answered, ErpAccepted, projection
<1> QED  BY <1>1, <1>2, <1>3, <1>4

LEMMA InitInv == Init => IInv
<1> SUFFICES ASSUME Init PROVE IInv  OBVIOUS
<1>1. /\ Cardinality({}) = 0 /\ Cardinality(Activities) \in Nat
  BY FS_EmptySet, FS_CardinalityType
<1>2. Types
  <2>1. NoRecord \in Record /\ Share(NoRecord) = Nothing
    BY <1>1 DEF NoRecord, Record, Share, Nothing
  <2>2. Nothing \in Progress  BY <1>1 DEF Nothing, Progress
  <2>3. tx \in [Writers -> Transaction]  BY IdleTyped DEF Init
  <2>4. synced \in [share : Progress, stamp : BOOLEAN] /\ push \in Push
    BY <2>2 DEF Init, Push
  <2>5. grants \in [Activities -> 0 .. MaxGrants] /\ subs \in [Activities -> Nat]
    BY DEF Init
  <2>6. rec \in Record /\ Share(rec) \in Progress /\ cert \in BOOLEAN
    BY <2>1, <2>2 DEF Init
  <2> QED  BY <2>3, <2>4, <2>5, <2>6 DEF Init, Types
<1>3. Exclusive /\ AllSound  BY IdleCompatible DEF Init, Exclusive, AllSound
<1>4. Limited  BY DEF Init, Limited, AttemptsHeld
<1>5. CompletionExact  BY DEF Init, CompletionExact, NoRecord
<1>6. Answered /\ ErpAccepted  BY DEF Init, Answered, ErpAccepted
<1> QED  BY <1>2, <1>3, <1>4, <1>5, <1>6 DEF IInv

-----------------------------------------------------------------------------
(* Attempts.                                                               *)

\* A step on the course or the attempts: nothing that a transaction was let in
\* with gets narrower.
LEMMA OpenAttemptInv ==
  ASSUME IInv, NEW a \in Activities, OpenAttempt(a)
  PROVE  IInv'
<1> USE DEF IInv
<1>1. Types'  BY DEF OpenAttempt, Drawn, Paperless, Types, projection, Share
<1>2. Exclusive' /\ AllSound'
  BY DEF OpenAttempt, Exclusive, AllSound, Sound
<1>3. Limited' /\ CompletionExact' /\ Answered' /\ ErpAccepted'
  BY DEF OpenAttempt, Limited, AttemptsHeld, CompletionExact, Answered, ErpAccepted,
         projection
<1> QED  BY <1>1, <1>2, <1>3

LEMMA GrantInv ==
  ASSUME IInv, NEW a \in Activities, Grant(a)
  PROVE  IInv'
<1> USE DEF IInv
<1>1. /\ grants' \in [Activities -> 0 .. MaxGrants]
      /\ \A b \in Activities : grants'[b] >= grants[b]
  BY DEF Grant, Granted, Types
<1>2. Types'  BY <1>1 DEF Grant, Types, projection, Share
<1>3. Exclusive'  BY DEF Grant, Exclusive
<1>4. AllSound'
  <2> SUFFICES ASSUME NEW w \in Writers PROVE Sound(tx[w])'  BY DEF AllSound
  <2>1. Sound(tx[w])  BY DEF AllSound
  <2>2. CASE tx[w] = Idle  BY <2>2 DEF Grant, Sound
  <2>3. CASE tx[w] # Idle
    <3>1. tx[w].act \in Activities  BY <2>3, InFlightTyped DEF Types
    <3> QED  BY <1>1, <2>1, <3>1 DEF Grant, Sound, Types
  <2> QED  BY <2>2, <2>3
<1>5. Limited'  BY <1>1 DEF Grant, Limited, AttemptsHeld, Types
<1>6. CompletionExact' /\ Answered' /\ ErpAccepted'
  BY DEF Grant, CompletionExact, Answered, ErpAccepted, projection
<1> QED  BY <1>2, <1>3, <1>4, <1>5, <1>6

\* A new activity leaves the completion record as it was counted.
LEMMA PublishInv ==
  ASSUME IInv, NEW a \in Activities, Publish(a)
  PROVE  IInv'
<1> USE DEF IInv
<1>1. Types'  BY DEF Publish, Types, projection, Share
<1>2. Exclusive' /\ AllSound'
  BY DEF Publish, Exclusive, AllSound, Sound
<1>3. Limited' /\ CompletionExact' /\ Answered' /\ ErpAccepted'
  BY DEF Publish, Limited, AttemptsHeld, CompletionExact, Answered, ErpAccepted,
         projection
<1> QED  BY <1>1, <1>2, <1>3

-----------------------------------------------------------------------------
(* Transactions.                                                           *)

\* A transaction begins: what it needs to be let in with.
LEMMA Begun ==
  ASSUME IInv, NEW w \in Writers, NEW kind \in Kinds, NEW a \in published, NEW pass \in BOOLEAN,
         Begin(w, kind, a, pass),
         UNCHANGED <<published, grants, open, subs, passed, rec, cert, projection>>,
         kind \in {"submit", "check"} => \A o \in Writers : ~InFlight(tx[o], kind),
         kind = "submit" => a \notin Labs /\ subs[a] < MaxAttempts + grants[a],
         kind = "check" => a \in Labs /\ subs[a] < MaxChecks,
         kind # "override" /\ a \in Manuals => ~pass
  PROVE  IInv'
<1> DEFINE x == [at |-> "scored", kind |-> kind, act |-> a, pass |-> pass,
                 rec |-> NoRecord, cert |-> FALSE]
<1>1. NoRecord \in Record /\ a \in Activities  BY DEF NoRecord, Record, IInv, Types
<1>2. x \in Transaction  BY <1>1 DEF Transaction
<1>3. Sound(x)  BY DEF Sound
<1>4. \A o \in Writers : Compatible(x, tx[o])  BY DEF Compatible, InFlight, Kinds
<1> QED  BY <1>2, <1>3, <1>4, Advanced DEF Begin

\* The attempt is checked under the lock on the learner, so it is still left
\* when the submission commits.
LEMMA SubmitInv ==
  ASSUME IInv, NEW w \in Writers, NEW a \in Activities, NEW pass \in BOOLEAN,
         Submit(w, a, pass)
  PROVE  IInv'
<1>1. subs[a] < MaxAttempts + grants[a]  BY DEF Submit, Exhausted, IInv, Types
<1>2. \A o \in Writers : ~InFlight(tx[o], "submit")
  BY DEF Submit, LearnerFree, InFlight
<1> QED  BY <1>1, <1>2, Begun DEF Submit, Kinds

LEMMA GradeLabInv ==
  ASSUME IInv, NEW w \in Writers, NEW a \in Activities, NEW pass \in BOOLEAN,
         GradeLab(w, a, pass)
  PROVE  IInv'
<1>1. \A o \in Writers : ~InFlight(tx[o], "check")  BY DEF GradeLab, InFlight
<1> QED  BY <1>1, Begun DEF GradeLab, Kinds

LEMMA OverrideInv ==
  ASSUME IInv, NEW w \in Writers, NEW a \in Activities, NEW pass \in BOOLEAN,
         Override(w, a, pass)
  PROVE  IInv'
<1>1. a \in published  BY DEF Override, IInv, Limited
<1> QED  BY <1>1, Begun DEF Override, Kinds

\* Under the record's lock the count is of what is committed, and only who
\* holds the lock adds to that.
LEMMA RecomputeInv ==
  ASSUME IInv, NEW w \in Writers, Recompute(w)
  PROVE  IInv'
<1> USE DEF IInv
<1>1. /\ tx[w] \in Transaction /\ tx[w] # Idle /\ Sound(tx[w])
  BY IdleTyped DEF Types, Recompute, AllSound
<1>2. /\ tx[w].kind \in Kinds /\ tx[w].act \in Activities /\ tx[w].pass \in BOOLEAN
  BY <1>1, InFlightTyped
<1> DEFINE best == passed \cup Own(w)
           r == [passed |-> best, total |-> Cardinality(published),
                 stamped |-> best = published]
           c == Issued(best = published, rec.stamped)
           x == [tx[w] EXCEPT !.at = "counted", !.rec = r, !.cert = c]
<1>3. best \subseteq published /\ Own(w) = IF tx[w].pass THEN {tx[w].act} ELSE {}
  BY <1>1 DEF Sound, Own, Types
<1>4. /\ IsFiniteSet(published)
      /\ Cardinality(best) \in 0 .. Cardinality(Activities)
      /\ Cardinality(published) \in 1 .. Cardinality(Activities)
  BY <1>3, CountType DEF Types
<1>5. Cardinality(best) = Cardinality(published) <=> best = published
  BY <1>3, <1>4, FS_Subset
<1>6. c \in BOOLEAN /\ (r.stamped => c)
  BY DEF Issued, CompletionExact, Types
<1>7. r \in Record  BY <1>3, <1>4 DEF Record, Types
<1> HIDE DEF c, r
<1>8. x \in Transaction /\ x # Idle
  BY <1>1, <1>6, <1>7, InFlightTyped DEF Transaction, Idle
<1>9. /\ x.at = "counted" /\ x.kind = tx[w].kind /\ x.act = tx[w].act
      /\ x.pass = tx[w].pass /\ x.rec = r /\ x.cert = c
  BY <1>1, InFlightTyped
<1>10. tx' = [tx EXCEPT ![w] = x]
  BY <1>1 DEF Recompute, Types, r, c
<1>11. r.passed = best /\ Share(r) \in Progress /\ Stamped(r)
  <2>1. /\ r.passed = best /\ r.total = Cardinality(published)
        /\ r.stamped <=> best = published
    BY DEF r
  <2>2. <<Cardinality(best), Cardinality(published)>> \in Progress
    BY <1>4 DEF Progress
  <2> QED  BY <1>4, <1>5, <2>1, <2>2 DEF Share, Stamped
<1>12. Sound(x)
  BY <1>1, <1>3, <1>6, <1>9, <1>11 DEF Sound, Recompute, Scored
<1>13. \A o \in Writers \ {w} : Compatible(x, tx[o])
  BY <1>1, <1>8, <1>9 DEF Recompute, RecordFree, Exclusive, Compatible, InFlight
<1> QED  BY <1>8, <1>10, <1>12, <1>13, Advanced DEF Recompute

LEMMA AbortInv ==
  ASSUME IInv, NEW w \in Writers, Abort(w)
  PROVE  IInv'
  BY IdleTyped, IdleCompatible, Advanced DEF Abort

\* What is committed is what was counted under the record's lock; work that is
\* not counted leaves no score.
LEMMA CommitInv ==
  ASSUME IInv, NEW w \in Writers, Commit(w)
  PROVE  IInv'
<1> USE DEF IInv
<1> DEFINE a == tx[w].act
           new == tx[w].kind # "override"
<1>1. /\ tx[w] \in Transaction /\ tx[w] # Idle /\ Sound(tx[w])
  BY IdleTyped DEF Types, Commit, AllSound
<1>2. /\ tx[w].kind \in Kinds /\ a \in Activities /\ tx[w].pass \in BOOLEAN
      /\ tx[w].rec \in Record /\ tx[w].cert \in BOOLEAN
  BY <1>1, InFlightTyped
<1>3. a \in published  BY <1>1 DEF Sound
<1>4. /\ tx' \in [Writers -> Transaction] /\ tx'[w] = Idle
      /\ \A o \in Writers \ {w} : tx'[o] = tx[o]
      /\ Exclusive'
  <2>1. \A o \in Writers : Compatible(Idle, tx[o])  BY IdleCompatible
  <2> QED  BY <2>1, IdleTyped, Moved DEF Commit
<1>5. /\ subs' \in [Activities -> Nat]
      /\ \A b \in Activities \ {a} : subs'[b] = subs[b]
      /\ subs'[a] = subs[a] + IF new THEN 1 ELSE 0
  BY <1>2 DEF Commit, Types
<1>6. /\ passed' \subseteq published /\ rec' \in Record /\ cert' \in BOOLEAN
      /\ rec'.passed = passed' /\ Share(rec') \in Progress /\ Stamped(rec')
      /\ rec'.stamped => cert'
      /\ \A o \in Writers \ {w} : tx[o] # Idle /\ tx[o].at = "counted" => passed' = passed
  <2>1. passed' = passed \cup (IF tx[w].pass THEN {a} ELSE {})
    BY DEF Commit, Own
  <2>2. passed' \subseteq published  BY <1>3, <2>1 DEF Types
  <2>3. CASE tx[w].at = "counted"
    <3>1. rec' = tx[w].rec /\ cert' = tx[w].cert  BY <2>3 DEF Commit
    <3>2. /\ rec'.passed = passed' /\ Share(rec') \in Progress /\ Stamped(rec')
          /\ rec'.stamped => cert'
      BY <1>1, <2>1, <2>3, <3>1 DEF Sound
    <3>3. \A o \in Writers \ {w} : tx[o].at # "counted"
      BY <2>3 DEF Exclusive, Compatible
    <3> QED  BY <1>2, <2>2, <3>1, <3>2, <3>3
  <2>4. CASE tx[w].at = "scored" /\ ~Scored(w)
    <3>1. rec' = rec /\ cert' = cert  BY <2>4 DEF Commit
    <3>2. ~tx[w].pass  BY <1>1, <2>4 DEF Sound, Scored
    <3>3. Stamped(rec)  BY DEF CompletionExact, Stamped
    <3> QED  BY <2>1, <2>2, <3>1, <3>2, <3>3 DEF CompletionExact, Types
  <2> QED  BY <2>3, <2>4 DEF Commit
<1>7. Types'
  <2>1. open' \subseteq Pools  BY DEF Commit, Closed, Types
  <2> QED  BY <1>4, <1>5, <1>6, <2>1 DEF Commit, Types, projection
<1>8. Limited'
  <2>1. \A b \in Labs : b \in Activities /\ subs'[b] <= MaxChecks
    BY <1>1, <1>2, <1>5 DEF Sound, Limited, Types, Kinds
  <2>2. AttemptsHeld'
    BY <1>1, <1>2, <1>5 DEF Commit, Sound, Limited, AttemptsHeld, Types, Kinds
  <2>3. \A b \in Activities : subs'[b] > 0 => b \in published
    BY <1>3, <1>5 DEF Limited
  <2> QED  BY <2>1, <2>2, <2>3 DEF Commit, Limited
<1>9. AllSound'
  <2> SUFFICES ASSUME NEW o \in Writers \ {w}, tx[o] # Idle PROVE Sound(tx[o])'
    BY <1>4, IdleCompatible DEF AllSound, Sound
  <2>1. Sound(tx[o]) /\ tx'[o] = tx[o]  BY <1>4 DEF AllSound
  <2>2. tx[o].act \in Activities /\ tx[o].kind \in Kinds
    BY InFlightTyped DEF Types
  <2>3. tx[o].kind \in {"submit", "check"} => subs'[tx[o].act] = subs[tx[o].act]
    <3>1. ~(tx[o].kind = tx[w].kind /\ tx[o].kind \in {"submit", "check"})
      BY <1>1 DEF Exclusive, Compatible, InFlight
    <3>2. new /\ tx[o].kind \in {"submit", "check"} => tx[o].act # a
      BY <1>1, <1>2, <2>1, <2>2, <3>1 DEF Sound, Kinds
    <3> QED  BY <1>2, <1>5, <2>2, <3>2 DEF Types
  <2> QED  BY <1>6, <2>1, <2>3 DEF Commit, Sound
<1>10. CompletionExact'  BY <1>6 DEF CompletionExact, Stamped
<1>11. Answered' /\ ErpAccepted'  BY DEF Commit, Answered, ErpAccepted, projection
<1> QED  BY <1>4, <1>7, <1>8, <1>9, <1>10, <1>11

-----------------------------------------------------------------------------
(* The projection to ERP.                                                  *)

\* The sweep touches nothing of the learner's.
LEMMA LearnerKept ==
  ASSUME IInv, UNCHANGED learner,
         synced' \in [share : Progress, stamp : BOOLEAN], push' \in Push,
         erp' \subseteq Progress, Answered', ErpAccepted'
  PROVE  IInv'
<1> USE DEF IInv, learner
<1>1. Types'  BY DEF Types, Share
<1>2. Exclusive' /\ AllSound'  BY DEF Exclusive, AllSound, Sound
<1>3. Limited' /\ CompletionExact'
  BY DEF Limited, AttemptsHeld, CompletionExact
<1> QED  BY <1>1, <1>2, <1>3

\* A stamped record is complete: what is not sent, ERP has as complete.
LEMMA PushReadInv ==
  ASSUME IInv, PushRead
  PROVE  IInv'
<1>1. push' \in Push /\ push'.read = Share(rec) /\ push'.ok
  BY DEF PushRead, IInv, Types, Push
<1>2. push'.at = "answered" => rec.stamped /\ synced.stamp
  BY DEF PushRead, Checkpointed
<1>3. rec.stamped => Complete(Share(rec))
  BY DEF IInv, CompletionExact, Share, Complete
<1>4. Answered'  BY <1>1, <1>2, <1>3 DEF PushRead, Answered, Complete
<1>5. ErpAccepted'  BY DEF PushRead, IInv, ErpAccepted
<1> QED  BY <1>1, <1>4, <1>5, LearnerKept DEF PushRead, IInv, Types

\* An acknowledgement that was heard is of a share that was taken.
LEMMA PushSendInv ==
  ASSUME IInv, PushSend
  PROVE  IInv'
<1>1. PICK taken \in BOOLEAN, heard \in BOOLEAN :
        /\ erp' = IF taken THEN erp \cup {push.read} ELSE erp
        /\ push' = [push EXCEPT !.at = "answered", !.ok = Outcome(taken, heard)]
  BY DEF PushSend
<1>2. push \in [at : {"reading", "answered"}, read : Progress, ok : BOOLEAN]
  BY DEF PushSend, IInv, Types, Push, Quiet
<1>3. /\ push' \in Push /\ push'.read = push.read /\ push'.ok = (taken /\ heard)
  BY <1>1, <1>2 DEF Push, Outcome
<1>4. erp \subseteq erp' /\ erp' \subseteq Progress
  BY <1>1, <1>2 DEF IInv, Types
<1>5. Answered'  BY <1>1, <1>3 DEF Answered
<1>6. ErpAccepted'  BY <1>4 DEF PushSend, IInv, ErpAccepted
<1> QED  BY <1>3, <1>4, <1>5, <1>6, LearnerKept DEF PushSend, IInv, Types

\* The marker and the checkpoint take what was sent, not what is there now.
LEMMA PushCommitInv ==
  ASSUME IInv, PushCommit
  PROVE  IInv'
<1>1. /\ push \in [at : {"reading", "answered"}, read : Progress, ok : BOOLEAN]
      /\ push # Quiet
  BY DEF PushCommit, IInv, Types, Push, Quiet
<1>2. Quiet \in Push /\ ~(Quiet.at = "answered")  BY DEF Push, Quiet
<1>3. CASE ~push.ok
  <2>1. Answered'  BY <1>2 DEF PushCommit, Answered
  <2>2. ErpAccepted'  BY <1>3 DEF PushCommit, IInv, ErpAccepted
  <2> QED  BY <1>2, <1>3, <2>1, <2>2, LearnerKept DEF PushCommit, IInv, Types
<1>4. CASE push.ok
  <2>1. push.read \in erp \/ (Complete(push.read) /\ synced.stamp)
    BY <1>1, <1>4 DEF PushCommit, IInv, Answered
  <2>2. /\ synced'.share = push.read
        /\ synced'.stamp <=> synced.stamp \/ Complete(push.read)
        /\ synced' \in [share : Progress, stamp : BOOLEAN]
    BY <1>1, <1>4 DEF PushCommit, Marked, IInv, Types, Complete
  <2>3. Answered'  BY <1>2 DEF PushCommit, Answered
  <2>4. ErpAccepted'
    <3>1. synced.stamp => \E p \in erp : Complete(p)  BY DEF IInv, ErpAccepted
    <3>2. Complete(synced'.share) <=> Complete(push.read)  BY <2>2 DEF Complete
    <3> QED  BY <2>1, <2>2, <3>1, <3>2 DEF PushCommit, ErpAccepted, Complete
  <2> QED  BY <1>2, <2>2, <2>3, <2>4, LearnerKept DEF PushCommit, IInv, Types
<1> QED  BY <1>3, <1>4

LEMMA PushCrashInv ==
  ASSUME IInv, PushCrash
  PROVE  IInv'
<1>1. Quiet \in Push  BY DEF Push
<1>2. Answered'  BY DEF PushCrash, Answered
<1>3. ErpAccepted'  BY DEF PushCrash, IInv, ErpAccepted
<1> QED  BY <1>1, <1>2, <1>3, LearnerKept DEF PushCrash, IInv, Types

-----------------------------------------------------------------------------
(* The theorems.                                                           *)

LEMMA StutterInv ==
  ASSUME IInv, UNCHANGED vars
  PROVE  IInv'
<1> USE DEF IInv, vars, projection, learner
<1>1. Types'  BY DEF Types, Share
<1>2. Exclusive' /\ AllSound'  BY DEF Exclusive, AllSound, Sound
<1>3. Limited' /\ CompletionExact' /\ Answered' /\ ErpAccepted'
  BY DEF Limited, AttemptsHeld, CompletionExact, Answered, ErpAccepted
<1> QED  BY <1>1, <1>2, <1>3

LEMMA NextInv ==
  ASSUME IInv, [Next]_vars
  PROVE  IInv'
<1>1. CASE UNCHANGED vars  BY <1>1, StutterInv
<1>2. ASSUME NEW a \in Activities, OpenAttempt(a) \/ Grant(a) \/ Publish(a) PROVE IInv'
  BY <1>2, OpenAttemptInv, GrantInv, PublishInv
<1>3. ASSUME NEW w \in Writers, NEW a \in Activities, NEW pass \in BOOLEAN,
             Submit(w, a, pass) \/ GradeLab(w, a, pass) \/ Override(w, a, pass)
      PROVE  IInv'
  BY <1>3, SubmitInv, GradeLabInv, OverrideInv
<1>4. ASSUME NEW w \in Writers, Recompute(w) \/ Commit(w) \/ Abort(w) PROVE IInv'
  BY <1>4, RecomputeInv, CommitInv, AbortInv
<1>5. CASE PushRead \/ PushSend \/ PushCommit \/ PushCrash
  BY <1>5, PushReadInv, PushSendInv, PushCommitInv, PushCrashInv
<1> QED  BY <1>1, <1>2, <1>3, <1>4, <1>5 DEF Next

\* The inductive invariant holds of every reachable state.
THEOREM Invariance == Spec => []IInv
  BY InitInv, NextInv, PTL DEF Spec

\* TypeOK follows: what is submitted is within the limits, one transaction
\* holds the completion record.
LEMMA InvTypeOK == IInv => TypeOK
<1> SUFFICES ASSUME IInv PROVE TypeOK  OBVIOUS
<1> USE DEF IInv
<1>1. \A a \in Activities : subs[a] \in 0 .. IF a \in Labs THEN MaxChecks
                                                  ELSE MaxAttempts + MaxGrants
  <2> SUFFICES ASSUME NEW a \in Activities
               PROVE  subs[a] \in 0 .. IF a \in Labs THEN MaxChecks ELSE MaxAttempts + MaxGrants
    OBVIOUS
  <2>1. subs[a] \in Nat /\ grants[a] \in 0 .. MaxGrants  BY DEF Types
  <2> QED  BY <2>1 DEF Limited, AttemptsHeld
<1>2. \A w, o \in Writers : tx[w].at = "counted" /\ tx[o].at = "counted" => w = o
  BY DEF Exclusive, Compatible
<1> QED  BY <1>1, <1>2 DEF Types, TypeOK

\* Every variable keeps its type; the completion record's row lock has one
\* holder (recompute_completion, submit_activity).
THEOREM LearningTypeCorrect == Spec => []TypeOK
  BY Invariance, InvTypeOK, PTL

\* However many submissions arrive at once, no activity has more than its limit
\* and its grants (submit_activity).
THEOREM AttemptsAlwaysHeld == Spec => []AttemptsHeld
<1>1. IInv => AttemptsHeld  BY DEF IInv, Limited
<1> QED  BY <1>1, Invariance, PTL

\* The completion record counts every committed passing score, and a completed
\* course has its certificate (recompute_completion).
THEOREM CompletionAlwaysExact == Spec => []CompletionExact
<1>1. IInv => CompletionExact  BY DEF IInv
<1> QED  BY <1>1, Invariance, PTL

\* What the marker and the checkpoint say ERP has, ERP has accepted
\* (push_completion).
THEOREM ErpAlwaysAccepted == Spec => []ErpAccepted
<1>1. IInv => ErpAccepted  BY DEF IInv
<1> QED  BY <1>1, Invariance, PTL
=============================================================================
