---------------------------- MODULE RemindersProofs ----------------------------
(***************************************************************************)
(* Proofs about Reminders, for every set of occurrences and of sweepers,   *)
(* every number of spells, windows and hours, every quiet time, and every  *)
(* budget of overlaps, resends, failures and changes.                      *)
(*                                                                         *)
(* The invariant has four parts: the types; what an open transaction holds *)
(* of the ledger; how many messages carry an item and how many open        *)
(* digests may still add one; and which nudges are on their way.           *)
(***************************************************************************)
EXTENDS Reminders, FiniteSetTheorems, TLAPS

-----------------------------------------------------------------------------
(* Keys. Each form of key names what its message carries.                  *)

\* A key tells what its message carries, and the three kinds of message apart.
LEMMA KeyFacts ==
  /\ \A x : Single(x)[1] = "reminder" /\ Single(x)[2] = {x}
  /\ \A x, n : Resent(x, n)[1] = "resend" /\ Resent(x, n)[2] = {x}
  /\ \A b : DigestKey(b)[1] = "digest" /\ DigestKey(b)[2] = b
  /\ NoKey[1] = "none"
  BY DEF Single, Resent, DigestKey, NoKey

\* The keys the code builds are keys of the outbox, and no key is the absent one.
LEMMA KeysTyped ==
  /\ \A x \in Items : Single(x) \in Keys /\ Single(x) # NoKey
  /\ \A x \in Items : \A n \in 1 .. Budget["resend"] : Resent(x, n) \in Keys /\ Resent(x, n) # NoKey
  /\ \A b \in SUBSET Items : DigestKey(b) \in Keys /\ DigestKey(b) # NoKey
  BY KeyFacts DEF Keys

\* Only the budget an act names is spent, and the rest of the budget stays.
LEMMA SpendBudget ==
  ASSUME budget \in [Acts -> Nat], calm \in Nat, NEW a \in Acts, Spend(a)
  PROVE  /\ budget' \in [Acts -> Nat] /\ calm' \in Nat
         /\ budget[a] > 0 /\ budget'[a] = budget[a] - 1
         /\ \A b \in Acts : b # a => budget'[b] = budget[b]
<1>1. budget[a] \in Nat /\ budget[a] > 0 BY DEF Spend
<1> DEFINE n == budget[a] - 1
<1>2. n \in Nat BY <1>1
<1>3. budget' = [budget EXCEPT ![a] = n] BY DEF Spend
<1> HIDE DEF n
<1>4. budget' \in [Acts -> Nat] /\ budget'[a] = n /\ \A b \in Acts : b # a => budget'[b] = budget[b]
  BY <1>2, <1>3
<1>5. calm' \in Nat BY DEF Spend
<1> QED BY <1>1, <1>4, <1>5 DEF n

-----------------------------------------------------------------------------
(* Types. A decision names a message exactly when it is mailed at once, and *)
(* no act is left more often than it was granted.                           *)

Txns == [pc : {"idle", "started", "detected", "recorded", "gathered"}, hour : Clock,
         spell : [number : 1 .. Spells + 1, window : 0 .. Windows], seen : SUBSET Items, pref : Person,
         entry : [Items -> Entry], batch : SUBSET Items]

Types == /\ TypeOK
         /\ \A a \in Acts : budget[a] <= Budget[a]
         /\ \A s \in Sweepers : \A x \in Items :
              sweep[s].entry[x].status = "sent" <=> sweep[s].entry[x].key # NoKey

\* A row nobody inserted has its type, and names nothing.
LEMMA NoEntryTyped ==
  /\ NoEntry \in Entry
  /\ NoEntry.status = "none" /\ NoEntry.key = NoKey
  BY DEF NoEntry, Entry

\* Clock, preferences and spells start within their types.
LEMMA StartTyped ==
  /\ Nobody \in Person /\ 0 \in Clock
  /\ FirstSpell \in [number : 1 .. Spells + 1, window : 0 .. Windows]
  BY HoursAssumption, SpellsAssumption DEF Nobody, Person, Frequencies, Clock, FirstSpell

\* A sweeper at rest holds nothing.
LEMMA RestingTyped ==
  /\ Resting \in Txns
  /\ Resting.pc = "idle" /\ Resting.seen = {} /\ Resting.batch = {}
  /\ \A x \in Items : Resting.entry[x] = NoEntry
<1> DEFINE e == [x \in Items |-> NoEntry]
<1>1. e \in [Items -> Entry] /\ \A x \in Items : e[x] = NoEntry BY NoEntryTyped
<1>2. Resting = [pc |-> "idle", hour |-> 0, spell |-> FirstSpell, seen |-> {}, pref |-> Nobody,
                  entry |-> e, batch |-> {}]
  BY DEF Resting
<1> HIDE DEF e
<1> QED BY <1>1, <1>2, StartTyped DEF Txns

\* A step of one transaction leaves the others and the typed rest alone.
LEMMA TypesSweep ==
  ASSUME Types, NEW s \in Sweepers, NEW t \in Txns, sweep' = [sweep EXCEPT ![s] = t],
         \A x \in Items : t.entry[x].status = "sent" <=> t.entry[x].key # NoKey,
         world' = world, ledger' = ledger, mails' = mails,
         budget' \in [Acts -> Nat], calm' \in Nat, \A a \in Acts : budget'[a] <= Budget[a]
  PROVE  Types'
<1>1. sweep \in [Sweepers -> Txns] BY DEF Types, TypeOK, Txns
<1>2. sweep' \in [Sweepers -> Txns] BY <1>1
<1>3. sweep'[s] = t /\ \A r \in Sweepers \ {s} : sweep'[r] = sweep[r] BY <1>1
<1>4. TypeOK' BY <1>2 DEF Types, TypeOK, world, Txns
<1> QED BY <1>3, <1>4 DEF Types

\* Spending lowers the budget.
LEMMA TypesSpend ==
  ASSUME Types, NEW a \in Acts, Spend(a)
  PROVE  budget' \in [Acts -> Nat] /\ calm' \in Nat /\ \A b \in Acts : budget'[b] <= Budget[b]
<1>1. budget \in [Acts -> Nat] /\ calm \in Nat BY DEF Types, TypeOK
<1>2. \A b \in Acts : budget[b] \in Nat /\ Budget[b] \in Nat /\ budget[b] <= Budget[b]
  BY <1>1, BudgetAssumption DEF Types
<1>3. \A b \in Acts : budget'[b] = budget[b] \/ budget'[b] = budget[b] - 1 BY <1>1, SpendBudget
<1> QED BY <1>1, <1>2, <1>3, SpendBudget

\* What is detected is an occurrence or a nudge.
LEMMA DetectedTyped ==
  ASSUME Types, NEW s
  PROVE  Detected(s) \subseteq Items
  BY DEF Detected, Items, Types, TypeOK

\* A decision is an entry, and names its own message exactly when mailed at once.
LEMMA DecideTyped ==
  ASSUME NEW s, NEW x \in Items
  PROVE  /\ Decide(s, x) \in Entry
         /\ Decide(s, x).status = "sent" <=> Decide(s, x).key # NoKey
         /\ Decide(s, x).status = "sent" => Decide(s, x).key = Single(x)
         /\ Decide(s, x) # NoEntry
<1>1. Single(x) \in Keys /\ Single(x) # NoKey BY KeysTyped
<1>2. \/ Decide(s, x) = [status |-> "skipped", key |-> NoKey]
      \/ Decide(s, x) = [status |-> "sent", key |-> Single(x)]
      \/ Decide(s, x) = [status |-> "queued", key |-> NoKey]
  BY DEF Decide
<1> QED BY <1>1, <1>2 DEF Entry, NoEntry

\* What each step of a sweep makes of its own transaction.
LEMMA SweepMoves ==
  ASSUME Types, NEW s \in Sweepers
  PROVE  /\ SweepStart(s) =>
              \E t \in Txns : /\ sweep' = [sweep EXCEPT ![s] = t]
                              /\ t.pc = "started" /\ t.seen = {} /\ t.batch = {}
                              /\ \A x \in Items : t.entry[x] = NoEntry
         /\ SweepDetect(s) =>
              \E t \in Txns : /\ sweep' = [sweep EXCEPT ![s] = t]
                              /\ t.pc = "detected" /\ t.seen = Detected(s)
                              /\ t.entry = sweep[s].entry /\ t.batch = sweep[s].batch
         /\ SweepRecord(s) =>
              \E t \in Txns : /\ sweep' = [sweep EXCEPT ![s] = t]
                              /\ t.pc = "recorded" /\ t.seen = {} /\ t.batch = sweep[s].batch
                              /\ \A x \in Items :
                                   t.entry[x] = IF x \in New(s) THEN Decide(s, x) ELSE NoEntry
         /\ SweepGather(s) =>
              \E t \in Txns : /\ sweep' = [sweep EXCEPT ![s] = t]
                              /\ t.pc = "gathered" /\ t.seen = sweep[s].seen
                              /\ t.entry = sweep[s].entry
                              /\ t.batch = IF FlushDue(s) THEN Queued(s) ELSE {}
<1>0. sweep[s] \in Txns /\ person \in Person /\ clock \in Clock /\ sweep \in [Sweepers -> Txns]
      /\ spell \in [number : 1 .. Spells + 1, window : 0 .. Windows]
  BY DEF Types, TypeOK, Txns
<1>1. ASSUME SweepStart(s)
      PROVE  \E t \in Txns : /\ sweep' = [sweep EXCEPT ![s] = t]
                             /\ t.pc = "started" /\ t.seen = {} /\ t.batch = {}
                             /\ \A x \in Items : t.entry[x] = NoEntry
  <2> DEFINE t == [Resting EXCEPT !.pc = "started", !.hour = clock, !.spell = spell]
  <2>1. sweep' = [sweep EXCEPT ![s] = t] BY <1>1 DEF SweepStart
  <2>2. t \in Txns /\ t.pc = "started" /\ t.seen = {} /\ t.batch = {} /\ t.entry = Resting.entry
    BY <1>0, RestingTyped DEF Txns
  <2> HIDE DEF t
  <2> QED BY <2>1, <2>2, RestingTyped
<1>1a. ASSUME SweepDetect(s)
      PROVE  \E t \in Txns : /\ sweep' = [sweep EXCEPT ![s] = t]
                             /\ t.pc = "detected" /\ t.seen = Detected(s)
                             /\ t.entry = sweep[s].entry /\ t.batch = sweep[s].batch
  <2> DEFINE d == Detected(s)
             t == [sweep[s] EXCEPT !.pc = "detected", !.pref = person, !.seen = d, !.spell = FirstSpell]
  <2>1. d \in SUBSET Items BY DetectedTyped
  <2>2. sweep' = [sweep EXCEPT ![s] = t] BY <1>0, <1>1a DEF SweepDetect
  <2> HIDE DEF d
  <2>3. /\ t \in Txns /\ t.pc = "detected" /\ t.seen = d /\ t.entry = sweep[s].entry
        /\ t.batch = sweep[s].batch
    BY <1>0, <2>1, StartTyped DEF Txns
  <2> HIDE DEF t
  <2> QED BY <2>2, <2>3 DEF d
<1>2. ASSUME SweepRecord(s)
      PROVE  \E t \in Txns : /\ sweep' = [sweep EXCEPT ![s] = t]
                             /\ t.pc = "recorded" /\ t.seen = {} /\ t.batch = sweep[s].batch
                             /\ \A x \in Items :
                                  t.entry[x] = IF x \in New(s) THEN Decide(s, x) ELSE NoEntry
  <2> DEFINE e == [x \in Items |-> IF x \in New(s) THEN Decide(s, x) ELSE NoEntry]
             t == [sweep[s] EXCEPT !.pc = "recorded", !.seen = {}, !.entry = e]
  <2>1. e \in [Items -> Entry] BY DecideTyped, NoEntryTyped
  <2>2. sweep' = [sweep EXCEPT ![s] = t] BY <1>0, <1>2 DEF SweepRecord
  <2>3. \A x \in Items : e[x] = IF x \in New(s) THEN Decide(s, x) ELSE NoEntry OBVIOUS
  <2> HIDE DEF e
  <2>4. t \in Txns /\ t.pc = "recorded" /\ t.seen = {} /\ t.batch = sweep[s].batch /\ t.entry = e
    BY <1>0, <2>1 DEF Txns
  <2> HIDE DEF t
  <2> QED BY <2>2, <2>3, <2>4
<1>3. ASSUME SweepGather(s)
      PROVE  \E t \in Txns : /\ sweep' = [sweep EXCEPT ![s] = t]
                             /\ t.pc = "gathered" /\ t.seen = sweep[s].seen
                             /\ t.entry = sweep[s].entry
                             /\ t.batch = IF FlushDue(s) THEN Queued(s) ELSE {}
  <2> DEFINE b == IF FlushDue(s) THEN Queued(s) ELSE {}
             t == [sweep[s] EXCEPT !.pc = "gathered", !.pref = Nobody, !.batch = b]
  <2>1. b \in SUBSET Items BY DEF Queued
  <2>2. sweep' = [sweep EXCEPT ![s] = t] BY <1>0, <1>3 DEF SweepGather
  <2> HIDE DEF b
  <2>3. /\ t \in Txns /\ t.pc = "gathered" /\ t.seen = sweep[s].seen /\ t.entry = sweep[s].entry
        /\ t.batch = b
    BY <1>0, <2>1, StartTyped DEF Txns
  <2> HIDE DEF t
  <2> QED BY <2>2, <2>3 DEF b
<1> QED BY <1>1, <1>1a, <1>2, <1>3

\* Enqueueing adds at most the one message, and the key is in the outbox afterwards.
LEMMA EnqueueMoves ==
  ASSUME NEW k, NEW is
  PROVE  /\ \A m \in Enqueue(k, is) : m = [key |-> k, items |-> is]
         /\ \E m \in mails \cup Enqueue(k, is) : m.key = k
<1> DEFINE new == [key |-> k, items |-> is]
<1>1. new.key = k OBVIOUS
<1>2. CASE \E m \in mails : m.key = k
  <2>1. Enqueue(k, is) = {} BY <1>2 DEF Enqueue
  <2> QED BY <1>2, <2>1
<1>3. CASE ~ \E m \in mails : m.key = k
  <2>1. Enqueue(k, is) = {new} BY <1>3 DEF Enqueue
  <2> HIDE DEF new
  <2>2. (\A m \in Enqueue(k, is) : m = new) /\ \E m \in mails \cup Enqueue(k, is) : m.key = k
    BY <1>1, <2>1
  <2> QED BY <2>2 DEF new
<1> QED BY <1>2, <1>3

\* What a commit makes of the ledger, of the outbox and of the transaction. An item
\* is carried by a new message when it was mailed at once or is in the digest.
LEMMA CommitMoves ==
  ASSUME Types, NEW s \in Sweepers, SweepCommit(s)
  PROVE  /\ sweep' = [sweep EXCEPT ![s] = Resting] /\ world' = world /\ limits' = limits
         /\ sweep[s].pc = "gathered" /\ sweep[s].batch \in SUBSET Items
         /\ \A x \in Items :
              ledger'[x] = IF x \in sweep[s].batch
                             THEN [status |-> "sent", key |-> DigestKey(sweep[s].batch)]
                             ELSE IF x \in Inserted(s) THEN sweep[s].entry[x] ELSE ledger[x]
         /\ ledger' \in [Items -> Entry]
         /\ mails \subseteq mails'
         /\ \A m \in mails' :
              \/ m \in mails
              \/ \E x \in Immediate(s) : m = [key |-> Single(x), items |-> {x}]
              \/ m = [key |-> DigestKey(sweep[s].batch), items |-> sweep[s].batch]
         /\ \A x \in Immediate(s) : \E m \in mails' : m.key = Single(x)
         /\ sweep[s].batch # {} => \E m \in mails' : m.key = DigestKey(sweep[s].batch)
<1> DEFINE b == sweep[s].batch
           own(x) == Enqueue(Single(x), {x})
           digest == Enqueue(DigestKey(b), b)
           all == UNION {own(x) : x \in Immediate(s)}
<1>0. /\ sweep[s] \in Txns /\ ledger \in [Items -> Entry] /\ b \in SUBSET Items
      /\ sweep[s].entry \in [Items -> Entry]
  BY DEF Types, TypeOK, Txns
<1>1. ledger' = [x \in Items |->
        IF x \in b THEN [status |-> "sent", key |-> DigestKey(b)]
        ELSE IF x \in Inserted(s) THEN sweep[s].entry[x] ELSE ledger[x]]
  BY DEF SweepCommit
<1>2. mails' = mails \cup all \cup (IF b = {} THEN {} ELSE digest)
  BY DEF SweepCommit
<1>3. /\ sweep' = [sweep EXCEPT ![s] = Resting] /\ world' = world /\ limits' = limits
      /\ sweep[s].pc = "gathered"
  BY DEF SweepCommit
<1>4. [status |-> "sent", key |-> DigestKey(b)] \in Entry BY <1>0, KeysTyped DEF Entry
<1> HIDE DEF b
<1>5. ledger' \in [Items -> Entry] BY <1>0, <1>1, <1>4
<1>6. \A x \in Items :
        ledger'[x] = IF x \in b THEN [status |-> "sent", key |-> DigestKey(b)]
                     ELSE IF x \in Inserted(s) THEN sweep[s].entry[x] ELSE ledger[x]
  BY <1>1
<1>7. mails \subseteq mails' BY <1>2
<1>8. /\ \A m \in all : \E x \in Immediate(s) : m \in own(x)
      /\ \A x \in Immediate(s) : own(x) \subseteq all
  OBVIOUS
<1>9. /\ \A x \in Immediate(s) : /\ \A m \in own(x) : m = [key |-> Single(x), items |-> {x}]
                               /\ \E m \in mails \cup own(x) : m.key = Single(x)
      /\ \A m \in digest : m = [key |-> DigestKey(b), items |-> b]
      /\ \E m \in mails \cup digest : m.key = DigestKey(b)
  BY EnqueueMoves
<1> HIDE DEF own, digest, all
<1>10. /\ \A m \in mails' : m \in mails \/ m \in all \/ m \in digest
       /\ all \subseteq mails'
  BY <1>2
<1>11. ASSUME b # {} PROVE digest \subseteq mails' BY <1>2, <1>11
<1>12. ASSUME NEW m \in mails'
      PROVE  \/ m \in mails
             \/ \E x \in Immediate(s) : m = [key |-> Single(x), items |-> {x}]
             \/ m = [key |-> DigestKey(b), items |-> b]
  <2>1. CASE m \in mails BY <2>1
  <2>2. ASSUME NEW x \in Immediate(s), m \in own(x)
        PROVE  m = [key |-> Single(x), items |-> {x}]
    BY <1>8, <1>9, <1>10, <2>2
  <2>3. CASE m \in digest BY <1>8, <1>9, <1>10, <2>3
  <2> QED BY <1>8, <1>9, <1>10, <2>1, <2>2, <2>3
<1>13. ASSUME NEW x \in Immediate(s) PROVE \E m \in mails' : m.key = Single(x)
  <2>1. own(x) \subseteq mails' BY <1>8, <1>10
  <2> QED BY <1>7, <1>9, <2>1
<1>14. ASSUME b # {} PROVE \E m \in mails' : m.key = DigestKey(b)
  <2>1. digest \subseteq mails' BY <1>11, <1>14
  <2> QED BY <1>7, <1>9, <2>1
<1> QED BY <1>0, <1>3, <1>5, <1>6, <1>7, <1>12, <1>13, <1>14 DEF b

\* What a resend makes of the ledger and of the outbox.
LEMMA ResendMoves ==
  ASSUME Types, NEW x \in Items, Resend(x)
  PROVE  /\ world' = world /\ sweep' = sweep /\ Spend("resend") /\ ledger[x] # NoEntry
         /\ ledger' \in [Items -> Entry] /\ ledger'[x].status = "sent"
         /\ \A y \in Items \ {x} : ledger'[y] = ledger[y]
         /\ mails \subseteq mails'
         /\ \E n \in 1 .. Budget["resend"] :
              /\ ledger'[x].key = Resent(x, n)
              /\ \A m \in mails' : m \in mails \/ m = [key |-> Resent(x, n), items |-> {x}]
              /\ \E m \in mails' : m.key = Resent(x, n)
<1> DEFINE n == budget["resend"]
           k == Resent(x, n)
           e == [status |-> "sent", key |-> k]
<1>0. ledger \in [Items -> Entry] /\ budget \in [Acts -> Nat] BY DEF Types, TypeOK
<1>1. n \in 1 .. Budget["resend"]
  <2>1. Spend("resend") BY DEF Resend
  <2>2. "resend" \in Acts BY DEF Acts
  <2> QED BY <1>0, <2>1, <2>2, BudgetAssumption DEF Spend, Types
<1>2. k \in Keys /\ k # NoKey BY <1>1, KeysTyped
<1>3. e \in Entry /\ e.status = "sent" /\ e.key = k BY <1>2 DEF Entry
<1>4. /\ world' = world /\ sweep' = sweep /\ Spend("resend") /\ ledger[x] # NoEntry
      /\ mails' = mails \cup Enqueue(k, {x}) /\ ledger' = [ledger EXCEPT ![x] = e]
  BY DEF Resend
<1> HIDE DEF e, k, n
<1>5. ledger' \in [Items -> Entry] /\ ledger'[x] = e /\ \A y \in Items \ {x} : ledger'[y] = ledger[y]
  BY <1>0, <1>3, <1>4
<1>6. /\ \A m \in mails' : m \in mails \/ m = [key |-> k, items |-> {x}]
      /\ \E m \in mails' : m.key = k
  BY <1>4, EnqueueMoves
<1> QED BY <1>1, <1>3, <1>4, <1>5, <1>6 DEF k

-----------------------------------------------------------------------------
(* The world: what happens outside sweeps and resends.                      *)

World == \/ \E o \in Occurrences : Happens(o)
         \/ SavePreference \/ PersonChanges \/ LearnerActive \/ WindowPasses \/ HourPasses

\* Occurrences, preferences and time touch no ledger, message or transaction, and
\* spend no overlap.
LEMMA WorldMoves ==
  ASSUME Types, World
  PROVE  /\ ledger' = ledger /\ mails' = mails /\ sweep' = sweep
         /\ budget'["overlap"] = budget["overlap"]
         /\ Types'
<1>0. /\ budget \in [Acts -> Nat] /\ calm \in Nat /\ person \in Person /\ clock \in Clock
      /\ happens \in SUBSET Occurrences
      /\ spell \in [number : 1 .. Spells + 1, window : 0 .. Windows]
  BY DEF Types, TypeOK
<1>1. ledger' = ledger /\ mails' = mails /\ sweep' = sweep
  BY DEF World, Happens, SavePreference, PersonChanges, LearnerActive, WindowPasses, HourPasses
<1>2. limits' = limits \/ Spend("prefs") \/ Spend("person")
  BY DEF World, Happens, SavePreference, PersonChanges, LearnerActive, WindowPasses, HourPasses
<1>3. /\ budget' \in [Acts -> Nat] /\ calm' \in Nat /\ \A a \in Acts : budget'[a] <= Budget[a]
      /\ budget'["overlap"] = budget["overlap"]
  <2>1. CASE limits' = limits BY <1>0, <2>1 DEF limits, Types
  <2>2. "prefs" \in Acts /\ "person" \in Acts /\ "overlap" \in Acts BY DEF Acts
  <2>3. CASE Spend("prefs") BY <1>0, <2>2, <2>3, TypesSpend, SpendBudget
  <2>4. CASE Spend("person") BY <1>0, <2>2, <2>4, TypesSpend, SpendBudget
  <2> QED BY <1>2, <2>1, <2>3, <2>4
<1>4. happens' \in SUBSET Occurrences
  BY <1>0 DEF World, Happens, SavePreference, PersonChanges, LearnerActive, WindowPasses, HourPasses
<1>5. person' \in Person
  <2>1. CASE SavePreference
    <3>1. PICK f \in Frequencies, out \in SUBSET Kinds :
            person' = [person EXCEPT !.freq = f, !.optouts = out]
      BY <2>1 DEF SavePreference
    <3> QED BY <1>0, <3>1 DEF Person
  <2>2. CASE PersonChanges
    <3>1. (~person.active) \in BOOLEAN OBVIOUS
    <3>2. person' = [person EXCEPT !.active = ~person.active] BY <2>2 DEF PersonChanges
    <3> QED BY <1>0, <3>1, <3>2 DEF Person
  <2> QED BY <1>0, <2>1, <2>2 DEF World, Happens, LearnerActive, WindowPasses, HourPasses
<1>6. spell' \in [number : 1 .. Spells + 1, window : 0 .. Windows]
  <2>1. CASE LearnerActive BY <1>0, <2>1, SpellsAssumption DEF LearnerActive
  <2>2. CASE WindowPasses BY <1>0, <2>2, SpellsAssumption DEF WindowPasses
  <2> QED BY <1>0, <2>1, <2>2 DEF World, Happens, SavePreference, PersonChanges, HourPasses
<1>7. clock' \in Clock
  <2>1. CASE HourPasses BY <1>0, <2>1, HoursAssumption DEF HourPasses, Clock
  <2> QED BY <1>0, <2>1 DEF World, Happens, SavePreference, PersonChanges, LearnerActive, WindowPasses
<1>8. Types' BY <1>1, <1>3, <1>4, <1>5, <1>6, <1>7 DEF Types, TypeOK
<1> QED BY <1>1, <1>3, <1>8

\* Next, grouped by what moves.
LEMMA NextCases ==
  ASSUME [Next]_vars
  PROVE  \/ UNCHANGED vars \/ World \/ \E x \in Items : Resend(x)
         \/ \E s \in Sweepers : \/ SweepStart(s) \/ SweepDetect(s) \/ SweepRecord(s) \/ SweepGather(s)
                                \/ SweepCommit(s) \/ SweepAborts(s)
  BY DEF Next, Goes, World

\* No step leaves the types.
LEMMA TypesStep ==
  ASSUME Types, [Next]_vars
  PROVE  Types'
<1>0. /\ budget \in [Acts -> Nat] /\ calm \in Nat /\ sweep \in [Sweepers -> Txns]
      /\ \A a \in Acts : budget[a] <= Budget[a]
      /\ "abort" \in Acts /\ "overlap" \in Acts /\ "resend" \in Acts
  BY DEF Types, TypeOK, Txns, Acts
<1>1. CASE UNCHANGED vars BY <1>1 DEF vars, Types, TypeOK
<1>2. CASE World BY <1>2, WorldMoves
<1>3. ASSUME NEW x \in Items, Resend(x) PROVE Types'
  <2>1. PICK n \in 1 .. Budget["resend"] :
          /\ ledger'[x].key = Resent(x, n)
          /\ \A m \in mails' : m \in mails \/ m = [key |-> Resent(x, n), items |-> {x}]
    BY <1>3, ResendMoves
  <2>2. Resent(x, n) \in Keys /\ Resent(x, n) # NoKey BY KeysTyped
  <2>3. mails' \in SUBSET [key : Keys, items : SUBSET Items]
    BY <2>1, <2>2 DEF Types, TypeOK
  <2>4. /\ ledger' \in [Items -> Entry] /\ ledger'[x].status = "sent" /\ world' = world
        /\ \A y \in Items \ {x} : ledger'[y] = ledger[y]
        /\ Spend("resend") /\ sweep' = sweep
    BY <1>3, ResendMoves
  <2>5. \A y \in Items : ledger'[y].status = "sent" <=> ledger'[y].key # NoKey
    BY <2>1, <2>2, <2>4 DEF Types, TypeOK
  <2>6. budget' \in [Acts -> Nat] /\ calm' \in Nat /\ \A b \in Acts : budget'[b] <= Budget[b]
    BY <1>0, <2>4, TypesSpend
  <2> QED BY <2>3, <2>4, <2>5, <2>6 DEF Types, TypeOK, world
<1>4. ASSUME NEW s \in Sweepers, SweepStart(s) PROVE Types'
  <2>1. PICK t \in Txns : sweep' = [sweep EXCEPT ![s] = t] /\ \A x \in Items : t.entry[x] = NoEntry
    BY <1>4, SweepMoves
  <2>2. limits' = limits \/ Spend("overlap") BY <1>4 DEF SweepStart
  <2>3. budget' \in [Acts -> Nat] /\ calm' \in Nat /\ \A b \in Acts : budget'[b] <= Budget[b]
    BY <1>0, <2>2, TypesSpend DEF limits
  <2>4. world' = world /\ ledger' = ledger /\ mails' = mails BY <1>4 DEF SweepStart
  <2>5. \A x \in Items : t.entry[x].status = "sent" <=> t.entry[x].key # NoKey
    BY <2>1, NoEntryTyped
  <2> QED BY <2>1, <2>3, <2>4, <2>5, TypesSweep
<1>4a. ASSUME NEW s \in Sweepers, SweepDetect(s) PROVE Types'
  <2>1. PICK t \in Txns : sweep' = [sweep EXCEPT ![s] = t] /\ t.entry = sweep[s].entry
    BY <1>4a, SweepMoves
  <2>2. world' = world /\ ledger' = ledger /\ mails' = mails /\ budget' = budget /\ calm' = calm
    BY <1>4a DEF SweepDetect, limits
  <2>3. \A x \in Items : t.entry[x].status = "sent" <=> t.entry[x].key # NoKey
    BY <2>1 DEF Types
  <2> QED BY <1>0, <2>1, <2>2, <2>3, TypesSweep
<1>5. ASSUME NEW s \in Sweepers, SweepRecord(s) PROVE Types'
  <2>1. PICK t \in Txns : /\ sweep' = [sweep EXCEPT ![s] = t]
                          /\ \A x \in Items :
                               t.entry[x] = IF x \in New(s) THEN Decide(s, x) ELSE NoEntry
    BY <1>5, SweepMoves
  <2>2. world' = world /\ ledger' = ledger /\ mails' = mails /\ budget' = budget /\ calm' = calm
    BY <1>5 DEF SweepRecord, limits
  <2>3. \A x \in Items : t.entry[x].status = "sent" <=> t.entry[x].key # NoKey
    BY <2>1, NoEntryTyped, DecideTyped
  <2> QED BY <1>0, <2>1, <2>2, <2>3, TypesSweep
<1>6. ASSUME NEW s \in Sweepers, SweepGather(s) PROVE Types'
  <2>1. PICK t \in Txns : sweep' = [sweep EXCEPT ![s] = t] /\ t.entry = sweep[s].entry
    BY <1>6, SweepMoves
  <2>2. world' = world /\ ledger' = ledger /\ mails' = mails /\ budget' = budget /\ calm' = calm
    BY <1>6 DEF SweepGather, limits
  <2>3. \A x \in Items : t.entry[x].status = "sent" <=> t.entry[x].key # NoKey
    BY <2>1 DEF Types
  <2> QED BY <1>0, <2>1, <2>2, <2>3, TypesSweep
<1>7. ASSUME NEW s \in Sweepers, SweepCommit(s) PROVE Types'
  <2> DEFINE b == sweep[s].batch
  <2>1. /\ sweep' = [sweep EXCEPT ![s] = Resting] /\ world' = world /\ limits' = limits
        /\ b \in SUBSET Items /\ ledger' \in [Items -> Entry]
        /\ \A x \in Items :
              ledger'[x] = IF x \in b THEN [status |-> "sent", key |-> DigestKey(b)]
                           ELSE IF x \in Inserted(s) THEN sweep[s].entry[x] ELSE ledger[x]
    BY <1>7, CommitMoves
  <2>2. \A m \in mails' : \/ m \in mails
                          \/ \E x \in Immediate(s) : m = [key |-> Single(x), items |-> {x}]
                          \/ m = [key |-> DigestKey(b), items |-> b]
    BY <1>7, CommitMoves
  <2> HIDE DEF b
  <2>3. DigestKey(b) \in Keys /\ DigestKey(b) # NoKey BY <2>1, KeysTyped
  <2>4. \A x \in Immediate(s) : x \in Items /\ Single(x) \in Keys BY KeysTyped DEF Immediate
  <2>5. mails' \in SUBSET [key : Keys, items : SUBSET Items]
    <3>1. mails \in SUBSET [key : Keys, items : SUBSET Items] BY DEF Types, TypeOK
    <3>2. ASSUME NEW x \in Immediate(s)
          PROVE  [key |-> Single(x), items |-> {x}] \in [key : Keys, items : SUBSET Items]
      BY <2>4
    <3>3. [key |-> DigestKey(b), items |-> b] \in [key : Keys, items : SUBSET Items]
      BY <2>1, <2>3
    <3> QED BY <2>2, <3>1, <3>2, <3>3
  <2>6. \A x \in Items : ledger'[x].status = "sent" <=> ledger'[x].key # NoKey
    BY <2>1, <2>3 DEF Types, TypeOK
  <2>7. sweep' \in [Sweepers -> Txns] /\ sweep'[s] = Resting
        /\ \A r \in Sweepers \ {s} : sweep'[r] = sweep[r]
    BY <1>0, <2>1, RestingTyped
  <2>8. \A r \in Sweepers : \A x \in Items :
          sweep'[r].entry[x].status = "sent" <=> sweep'[r].entry[x].key # NoKey
    BY <2>7, RestingTyped, NoEntryTyped DEF Types
  <2>9. TypeOK' BY <2>1, <2>5, <2>6, <2>7 DEF Types, TypeOK, world, limits, Txns
  <2> QED BY <2>1, <2>8, <2>9 DEF Types, limits
<1>8. ASSUME NEW s \in Sweepers, SweepAborts(s) PROVE Types'
  <2>1. sweep' = [sweep EXCEPT ![s] = Resting] /\ Spend("abort") BY <1>8 DEF SweepAborts
  <2>2. world' = world /\ ledger' = ledger /\ mails' = mails BY <1>8 DEF SweepAborts
  <2>3. budget' \in [Acts -> Nat] /\ calm' \in Nat /\ \A b \in Acts : budget'[b] <= Budget[b]
    BY <1>0, <2>1, TypesSpend
  <2>4. \A x \in Items : Resting.entry[x].status = "sent" <=> Resting.entry[x].key # NoKey
    BY RestingTyped, NoEntryTyped
  <2> QED BY <2>1, <2>2, <2>3, <2>4, RestingTyped, TypesSweep
<1> QED BY <1>1, <1>2, <1>3, <1>4, <1>4a, <1>5, <1>6, <1>7, <1>8, NextCases

\* The types hold at the start.
LEMMA TypesInit ==
  ASSUME Init
  PROVE  Types
<1>1. sweep \in [Sweepers -> Txns] /\ \A s \in Sweepers : sweep[s] = Resting
  BY RestingTyped DEF Init
<1>2. ledger \in [Items -> Entry] /\ \A x \in Items : ledger[x] = NoEntry
  BY NoEntryTyped DEF Init
<1>3. person \in Person BY DEF Init, Person
<1>4. clock \in Clock BY StartTyped DEF Init
<1>5. spell \in [number : 1 .. Spells + 1, window : 0 .. Windows] BY StartTyped DEF Init
<1>6. budget \in [Acts -> Nat] /\ calm \in Nat /\ budget = Budget BY BudgetAssumption DEF Init
<1>7. \A a \in Acts : budget[a] <= Budget[a] BY <1>6
<1>8. TypeOK BY <1>1, <1>2, <1>3, <1>4, <1>5, <1>6, NoEntryTyped DEF Init, TypeOK, Txns
<1> QED BY <1>1, <1>7, <1>8, RestingTyped, NoEntryTyped DEF Types

\* Rows of the ledger and open transactions hold values of their types, and a ledger row
\* names a message exactly when it is sent.
THEOREM RemindersTypeCorrect == Spec => []TypeOK
<1>1. Types => TypeOK BY DEF Types
<1> QED BY <1>1, TypesInit, TypesStep, PTL DEF Spec

-----------------------------------------------------------------------------
(* Open transactions and the ledger. A row that a sweep inserted and has not *)
(* committed is in no other sweep and not in the ledger; a row in an open    *)
(* digest was queued when it was gathered, by the ledger or by the sweep     *)
(* itself, and can only have been sent since.                                *)

Phases ==
  \A s \in Sweepers :
    /\ sweep[s].pc \in {"idle", "started", "detected"} => Inserted(s) = {}
    /\ sweep[s].pc # "detected" => sweep[s].seen = {}
    /\ sweep[s].pc # "gathered" => sweep[s].batch = {}
    /\ \A x \in Items : sweep[s].entry[x].status = "sent" => sweep[s].entry[x].key = Single(x)

Exclusive == \A s, r \in Sweepers : s # r => Inserted(s) \cap Inserted(r) = {}

Fresh == \A s \in Sweepers : \A x \in Inserted(s) : ledger[x] = NoEntry

Held == \A s \in Sweepers : \A x \in sweep[s].batch :
          sweep[s].entry[x].status = "queued" \/ ledger[x].status \in {"queued", "sent"}

Book == Phases /\ Exclusive /\ Fresh /\ Held

\* A step that touches neither ledger nor transactions.
LEMMA BookIdle ==
  ASSUME Book, ledger' = ledger, sweep' = sweep
  PROVE  Book'
  BY DEF Book, Phases, Exclusive, Fresh, Held, Inserted

\* A transaction that ends, kept or not, holds nothing any more.
LEMMA RestsMoves ==
  ASSUME Types, NEW s \in Sweepers, sweep' = [sweep EXCEPT ![s] = Resting]
  PROVE  /\ sweep'[s].pc = "idle" /\ sweep'[s].seen = {} /\ sweep'[s].batch = {}
         /\ Inserted(s)' = {} /\ \A x \in Items : sweep'[s].entry[x] = NoEntry
         /\ \A r \in Sweepers \ {s} : sweep'[r] = sweep[r] /\ Inserted(r)' = Inserted(r)
<1>1. sweep \in [Sweepers -> Txns] BY DEF Types, TypeOK, Txns
<1>2. sweep'[s] = Resting /\ \A r \in Sweepers \ {s} : sweep'[r] = sweep[r] BY <1>1
<1>3. Inserted(s)' = {} BY <1>2, RestingTyped DEF Inserted
<1>4. \A r \in Sweepers \ {s} : Inserted(r)' = Inserted(r) BY <1>2 DEF Inserted
<1> QED BY <1>2, <1>3, <1>4, RestingTyped

\* What a sweep that commits makes of the rows of the others.
LEMMA BookCommit ==
  ASSUME Types, Book, NEW s \in Sweepers, SweepCommit(s)
  PROVE  Book'
<1> DEFINE b == sweep[s].batch
<1>1. /\ sweep' = [sweep EXCEPT ![s] = Resting]
      /\ b \in SUBSET Items
      /\ \A x \in Items :
           ledger'[x] = IF x \in b THEN [status |-> "sent", key |-> DigestKey(b)]
                        ELSE IF x \in Inserted(s) THEN sweep[s].entry[x] ELSE ledger[x]
  BY CommitMoves
<1>2. /\ sweep'[s].pc = "idle" /\ sweep'[s].seen = {} /\ sweep'[s].batch = {}
      /\ Inserted(s)' = {} /\ \A x \in Items : sweep'[s].entry[x] = NoEntry
      /\ \A r \in Sweepers \ {s} : sweep'[r] = sweep[r] /\ Inserted(r)' = Inserted(r)
  BY <1>1, RestsMoves
<1>3. Phases'
  <2>1. ASSUME NEW r \in Sweepers
        PROVE  /\ sweep'[r].pc \in {"idle", "started", "detected"} => Inserted(r)' = {}
               /\ sweep'[r].pc # "detected" => sweep'[r].seen = {}
               /\ sweep'[r].pc # "gathered" => sweep'[r].batch = {}
               /\ \A x \in Items :
                    sweep'[r].entry[x].status = "sent" => sweep'[r].entry[x].key = Single(x)
    BY <1>2, NoEntryTyped DEF Book, Phases
  <2> QED BY <2>1 DEF Phases
<1>4. Exclusive' BY <1>2 DEF Book, Exclusive
<1>5. Fresh'
  <2>1. ASSUME NEW r \in Sweepers \ {s}, NEW x \in Inserted(r) PROVE ledger'[x] = NoEntry
    <3>1. x \in Items /\ ledger[x] = NoEntry /\ x \notin Inserted(s)
      BY <2>1 DEF Book, Fresh, Exclusive, Inserted
    <3>2. x \notin b
      BY <3>1, NoEntryTyped DEF Book, Held, Inserted
    <3> QED BY <1>1, <3>1, <3>2
  <2> QED BY <1>2, <2>1 DEF Fresh
<1>6. Held'
  <2>1. ASSUME NEW r \in Sweepers \ {s}, NEW x \in sweep[r].batch
        PROVE  sweep[r].entry[x].status = "queued" \/ ledger'[x].status \in {"queued", "sent"}
    <3>1. x \in Items BY DEF Types, TypeOK
    <3>2. CASE sweep[r].entry[x].status = "queued" BY <3>2
    <3>3. CASE ledger[x].status \in {"queued", "sent"}
      <4>1. x \notin Inserted(s) BY <3>3, NoEntryTyped DEF Book, Fresh
      <4> QED BY <1>1, <3>1, <3>3, <4>1
    <3> QED BY <3>2, <3>3 DEF Book, Held
  <2> QED BY <1>2, <2>1 DEF Held
<1> QED BY <1>3, <1>4, <1>5, <1>6 DEF Book

\* A step of one sweep that leaves the ledger alone.
LEMMA BookSweep ==
  ASSUME Types, Book, NEW s \in Sweepers, NEW t \in Txns, sweep' = [sweep EXCEPT ![s] = t],
         ledger' = ledger,
         NEW new, new = {x \in Items : t.entry[x] # NoEntry},
         t.pc \in {"idle", "started", "detected"} => new = {},
         t.pc # "detected" => t.seen = {},
         t.pc # "gathered" => t.batch = {},
         \A x \in Items : t.entry[x].status = "sent" => t.entry[x].key = Single(x),
         \A r \in Sweepers \ {s} : Inserted(r) \cap new = {},
         \A x \in new : ledger[x] = NoEntry,
         \A x \in t.batch : t.entry[x].status = "queued" \/ ledger[x].status \in {"queued", "sent"}
  PROVE  Book'
<1>1. sweep \in [Sweepers -> Txns] BY DEF Types, TypeOK, Txns
<1>2. sweep'[s] = t /\ \A r \in Sweepers \ {s} : sweep'[r] = sweep[r] BY <1>1
<1>3. Inserted(s)' = new BY <1>2 DEF Inserted
<1>4. \A r \in Sweepers \ {s} : Inserted(r)' = Inserted(r) BY <1>2 DEF Inserted
<1>5. Phases'
  <2>1. ASSUME NEW r \in Sweepers
        PROVE  /\ sweep'[r].pc \in {"idle", "started", "detected"} => Inserted(r)' = {}
               /\ sweep'[r].pc # "detected" => sweep'[r].seen = {}
               /\ sweep'[r].pc # "gathered" => sweep'[r].batch = {}
               /\ \A x \in Items :
                    sweep'[r].entry[x].status = "sent" => sweep'[r].entry[x].key = Single(x)
    BY <1>2, <1>3, <1>4 DEF Book, Phases
  <2> QED BY <2>1 DEF Phases
<1>6. Exclusive' BY <1>3, <1>4 DEF Book, Exclusive
<1>7. Fresh' BY <1>3, <1>4 DEF Book, Fresh
<1>8. Held' BY <1>2 DEF Book, Held
<1> QED BY <1>5, <1>6, <1>7, <1>8 DEF Book

\* No step breaks the book of open transactions.
LEMMA BookStep ==
  ASSUME Types, Book, [Next]_vars
  PROVE  Book'
<1>0. sweep \in [Sweepers -> Txns] BY DEF Types, TypeOK, Txns
<1>1. CASE UNCHANGED vars BY <1>1, BookIdle DEF vars
<1>2. CASE World BY <1>2, WorldMoves, BookIdle
<1>3. ASSUME NEW x \in Items, Resend(x) PROVE Book'
  <2>1. /\ sweep' = sweep /\ ledger[x] # NoEntry /\ ledger'[x].status = "sent"
        /\ \A y \in Items \ {x} : ledger'[y] = ledger[y]
    BY <1>3, ResendMoves
  <2>2. Phases' /\ Exclusive' BY <2>1 DEF Book, Phases, Exclusive, Inserted
  <2>3. Fresh' BY <2>1 DEF Book, Fresh, Inserted
  <2>4. \A s \in Sweepers : sweep[s].batch \subseteq Items BY <1>0 DEF Txns
  <2>5. Held' BY <2>1, <2>4 DEF Book, Held
  <2> QED BY <2>2, <2>3, <2>5 DEF Book
<1>4. ASSUME NEW s \in Sweepers, SweepStart(s) PROVE Book'
  <2>1. PICK t \in Txns : /\ sweep' = [sweep EXCEPT ![s] = t]
                          /\ t.pc = "started" /\ t.seen = {} /\ t.batch = {}
                          /\ \A x \in Items : t.entry[x] = NoEntry
    BY <1>4, SweepMoves
  <2>2. ledger' = ledger BY <1>4 DEF SweepStart
  <2> DEFINE new == {x \in Items : t.entry[x] # NoEntry}
  <2>3. new = {} BY <2>1
  <2>4. \A x \in Items : t.entry[x].status # "sent" BY <2>1, NoEntryTyped
  <2> HIDE DEF new
  <2> QED BY <2>1, <2>2, <2>3, <2>4, BookSweep DEF new
<1>4a. ASSUME NEW s \in Sweepers, SweepDetect(s) PROVE Book'
  <2>1. PICK t \in Txns : /\ sweep' = [sweep EXCEPT ![s] = t]
                          /\ t.pc = "detected" /\ t.entry = sweep[s].entry
                          /\ t.batch = sweep[s].batch
    BY <1>4a, SweepMoves
  <2>2. ledger' = ledger /\ sweep[s].pc = "started" BY <1>4a DEF SweepDetect
  <2>3. Inserted(s) = {x \in Items : t.entry[x] # NoEntry} BY <2>1 DEF Inserted
  <2>4. t.batch = {} /\ Inserted(s) = {} BY <2>1, <2>2 DEF Book, Phases
  <2>5. \A x \in Items : t.entry[x].status = "sent" => t.entry[x].key = Single(x)
    BY <2>1 DEF Book, Phases
  <2> QED BY <2>1, <2>2, <2>3, <2>4, <2>5, BookSweep
<1>5. ASSUME NEW s \in Sweepers, SweepRecord(s) PROVE Book'
  <2>1. PICK t \in Txns : /\ sweep' = [sweep EXCEPT ![s] = t]
                          /\ t.pc = "recorded" /\ t.seen = {} /\ t.batch = sweep[s].batch
                          /\ \A x \in Items :
                               t.entry[x] = IF x \in New(s) THEN Decide(s, x) ELSE NoEntry
    BY <1>5, SweepMoves
  <2>2. /\ ledger' = ledger /\ sweep[s].pc = "detected"
        /\ \A r \in Sweepers \ {s} : Inserted(r) \cap sweep[s].seen = {}
    BY <1>5 DEF SweepRecord
  <2> DEFINE new == {x \in Items : t.entry[x] # NoEntry}
  <2>3. new \subseteq New(s) BY <2>1
  <2>4. \A x \in new : ledger[x] = NoEntry /\ x \in sweep[s].seen BY <2>3 DEF New
  <2>5. \A x \in Items : t.entry[x].status = "sent" => t.entry[x].key = Single(x)
    BY <2>1, NoEntryTyped, DecideTyped
  <2>6. t.batch = {} BY <2>1, <2>2 DEF Book, Phases
  <2>7. \A r \in Sweepers \ {s} : Inserted(r) \cap new = {} BY <2>2, <2>4
  <2> HIDE DEF new
  <2> QED BY <2>1, <2>2, <2>4, <2>5, <2>6, <2>7, BookSweep DEF new
<1>6. ASSUME NEW s \in Sweepers, SweepGather(s) PROVE Book'
  <2>1. PICK t \in Txns : /\ sweep' = [sweep EXCEPT ![s] = t]
                          /\ t.pc = "gathered" /\ t.seen = sweep[s].seen
                          /\ t.entry = sweep[s].entry
                          /\ t.batch = IF FlushDue(s) THEN Queued(s) ELSE {}
    BY <1>6, SweepMoves
  <2>2. ledger' = ledger /\ sweep[s].pc = "recorded" BY <1>6 DEF SweepGather
  <2>3. Inserted(s) = {x \in Items : t.entry[x] # NoEntry} BY <2>1 DEF Inserted
  <2>4. t.seen = {} BY <2>1, <2>2 DEF Book, Phases
  <2>5. \A x \in t.batch : t.entry[x].status = "queued" \/ ledger[x].status \in {"queued", "sent"}
    BY <2>1 DEF Queued
  <2>6. \A x \in Items : t.entry[x].status = "sent" => t.entry[x].key = Single(x)
    BY <2>1 DEF Book, Phases
  <2>7. /\ \A r \in Sweepers \ {s} : Inserted(r) \cap Inserted(s) = {}
        /\ \A x \in Inserted(s) : ledger[x] = NoEntry
    BY DEF Book, Exclusive, Fresh
  <2> QED BY <2>1, <2>2, <2>3, <2>4, <2>5, <2>6, <2>7, BookSweep
<1>7. ASSUME NEW s \in Sweepers, SweepCommit(s) PROVE Book'
  BY <1>7, BookCommit
<1>8. ASSUME NEW s \in Sweepers, SweepAborts(s) PROVE Book'
  <2>1. sweep' = [sweep EXCEPT ![s] = Resting] /\ ledger' = ledger BY <1>8 DEF SweepAborts
  <2> DEFINE new == {x \in Items : Resting.entry[x] # NoEntry}
  <2>2. new = {} BY RestingTyped
  <2>3. \A x \in Items : Resting.entry[x].status # "sent" BY RestingTyped, NoEntryTyped
  <2> HIDE DEF new
  <2> QED BY <2>1, <2>2, <2>3, RestingTyped, BookSweep DEF new
<1> QED BY <1>1, <1>2, <1>3, <1>4, <1>4a, <1>5, <1>6, <1>7, <1>8, NextCases

\* At the start nothing is open and the ledger is empty.
LEMMA BookInit ==
  ASSUME Init
  PROVE  Book
<1>1. \A s \in Sweepers : sweep[s] = Resting BY DEF Init
<1>2. \A s \in Sweepers : Inserted(s) = {} BY <1>1, RestingTyped DEF Inserted
<1>3. Phases BY <1>1, <1>2, RestingTyped, NoEntryTyped DEF Phases
<1>4. Held BY <1>1, RestingTyped DEF Held
<1> QED BY <1>2, <1>3, <1>4 DEF Book, Exclusive, Fresh

-----------------------------------------------------------------------------
(* Messages. MailedOnce is not inductive: a digest that has been gathered    *)
(* and not committed will carry its rows whatever the ledger says by then.   *)
(* The count that stays is the messages that carry an item and the open      *)
(* digests that hold it, taken together: it is at most one, and one more for *)
(* each sweep that overlapped another, because an item only enters a digest  *)
(* while no message carries it, and there are that many sweeps at most.      *)

Spent == Budget["overlap"] - budget["overlap"]
Active == {s \in Sweepers : sweep[s].pc # "idle"}
Gathered(x) == {s \in Sweepers : x \in sweep[s].batch}
Carrying(x) == {m.key : m \in {n \in mails : n.key[1] # "resend" /\ x \in n.items}}

Contents == \A m \in mails : m.items = m.key[2]

Unmailed == \A x \in Items : ledger[x].status # "sent" => Carrying(x) = {}

Alone == \A x \in Items : Single(x) \in Carrying(x) =>
                            Carrying(x) = {Single(x)} /\ Gathered(x) = {}

Overlapped == IsFiniteSet(Active) /\ Cardinality(Active) <= 1 + Spent

Counted == \A x \in Items : /\ IsFiniteSet(Carrying(x))
                            /\ Cardinality(Carrying(x)) + Cardinality(Gathered(x)) <= 1 + Spent

Mail == Contents /\ ReminderCarried /\ Unmailed /\ Alone /\ Overlapped /\ Counted

\* Overlaps that happened are a number, and it never falls.
LEMMA SpentGrows ==
  ASSUME Types, [Next]_vars
  PROVE  Spent \in Nat /\ Spent' \in Nat /\ Spent <= Spent'
<1>0. budget \in [Acts -> Nat] /\ calm \in Nat /\ "overlap" \in Acts
  BY DEF Types, TypeOK, Acts
<1>1. Budget["overlap"] \in Nat /\ budget["overlap"] \in Nat /\ budget["overlap"] <= Budget["overlap"]
  BY <1>0, BudgetAssumption DEF Types
<1>2. budget'["overlap"] \in Nat /\ budget'["overlap"] <= budget["overlap"]
  <2>1. CASE budget' = budget BY <1>1, <2>1
  <2>2. ASSUME NEW a \in Acts, Spend(a)
        PROVE  budget'["overlap"] \in Nat /\ budget'["overlap"] <= budget["overlap"]
    BY <1>0, <1>1, <2>2, SpendBudget
  <2>3. CASE World
    <3>1. budget'["overlap"] = budget["overlap"] BY <2>3, WorldMoves
    <3> QED BY <1>1, <3>1
  <2>4. \A a \in {"abort", "overlap", "resend"} : a \in Acts BY DEF Acts
  <2> QED
    BY <2>1, <2>2, <2>3, <2>4, NextCases
    DEF vars, limits, Resend, SweepStart, SweepDetect, SweepRecord, SweepGather, SweepCommit, SweepAborts
<1> QED BY <1>1, <1>2 DEF Spent

\* The sweeps that are open are one, and one more for each overlap.
LEMMA OverlappedStep ==
  ASSUME Types, Overlapped, [Next]_vars
  PROVE  Overlapped'
<1>0. /\ Spent \in Nat /\ Spent' \in Nat /\ Spent <= Spent'
      /\ sweep \in [Sweepers -> Txns] /\ budget \in [Acts -> Nat] /\ calm \in Nat
  BY SpentGrows DEF Types, TypeOK, Txns
<1>1. IsFiniteSet(Active) /\ Cardinality(Active) <= 1 + Spent /\ Cardinality(Active) \in Nat
  BY FS_CardinalityType DEF Overlapped
<1>2. CASE Active' = Active BY <1>0, <1>1, <1>2 DEF Overlapped
<1>3. CASE UNCHANGED vars \/ World \/ \E x \in Items : Resend(x)
  <2>1. sweep' = sweep BY <1>3, WorldMoves, ResendMoves DEF vars
  <2> QED BY <1>2, <2>1 DEF Active
<1>4. ASSUME NEW s \in Sweepers, SweepDetect(s) \/ SweepRecord(s) \/ SweepGather(s)
      PROVE  Overlapped'
  <2>1. PICK t \in Txns : sweep' = [sweep EXCEPT ![s] = t] /\ t.pc # "idle"
    BY <1>4, SweepMoves
  <2>2. sweep[s].pc # "idle" BY <1>4 DEF SweepDetect, SweepRecord, SweepGather
  <2>3. sweep'[s] = t /\ \A r \in Sweepers \ {s} : sweep'[r] = sweep[r] BY <1>0, <2>1
  <2>4. Active' = Active BY <2>1, <2>2, <2>3 DEF Active
  <2> QED BY <1>2, <2>4
<1>5. ASSUME NEW s \in Sweepers, SweepCommit(s) \/ SweepAborts(s) PROVE Overlapped'
  <2>1. sweep' = [sweep EXCEPT ![s] = Resting] BY <1>5 DEF SweepCommit, SweepAborts
  <2>2. sweep'[s].pc = "idle" /\ \A r \in Sweepers \ {s} : sweep'[r] = sweep[r]
    BY <2>1, RestsMoves
  <2>3. Active' \subseteq Active BY <2>2 DEF Active
  <2>4. /\ IsFiniteSet(Active') /\ Cardinality(Active') \in Nat
        /\ Cardinality(Active') <= Cardinality(Active)
    BY <1>1, <2>3, FS_Subset, FS_CardinalityType
  <2> QED BY <1>0, <1>1, <2>4 DEF Overlapped
<1>6. ASSUME NEW s \in Sweepers, SweepStart(s) PROVE Overlapped'
  <2>1. PICK t \in Txns : sweep' = [sweep EXCEPT ![s] = t] BY <1>6, SweepMoves
  <2>2. \A r \in Sweepers \ {s} : sweep'[r] = sweep[r] BY <1>0, <2>1
  <2>3. Active' \subseteq Active \cup {s} BY <2>2 DEF Active
  <2>4. /\ IsFiniteSet(Active \cup {s}) /\ Cardinality(Active \cup {s}) <= Cardinality(Active) + 1
        /\ Cardinality(Active \cup {s}) \in Nat
    <3>1. /\ IsFiniteSet(Active \cup {s})
          /\ Cardinality(Active \cup {s})
             = IF s \in Active THEN Cardinality(Active) ELSE Cardinality(Active) + 1
      BY <1>1, FS_AddElement
    <3> QED BY <1>1, <3>1
  <2>5. /\ IsFiniteSet(Active') /\ Cardinality(Active') \in Nat
        /\ Cardinality(Active') <= Cardinality(Active \cup {s})
    BY <2>3, <2>4, FS_Subset, FS_CardinalityType
  <2>6. CASE Between
    <3>1. Active = {} BY <2>6 DEF Between, Active
    <3>2. Cardinality(Active) = 0 BY <3>1, FS_EmptySet
    <3> QED BY <1>0, <2>4, <2>5, <3>2 DEF Overlapped
  <2>7. CASE Spend("overlap")
    <3>1. "overlap" \in Acts BY DEF Acts
    <3>2. budget'["overlap"] = budget["overlap"] - 1 BY <1>0, <2>7, <3>1, SpendBudget
    <3>3. budget["overlap"] \in Nat /\ Budget["overlap"] \in Nat
      BY <1>0, <3>1, BudgetAssumption
    <3>4. Spent' = Spent + 1 BY <3>2, <3>3 DEF Spent
    <3> QED BY <1>0, <1>1, <2>4, <2>5, <3>4 DEF Overlapped
  <2> QED BY <1>6, <2>6, <2>7 DEF SweepStart
<1> QED BY <1>3, <1>4, <1>5, <1>6, NextCases

\* Only an open sweep holds a digest.
LEMMA GatheredActive ==
  ASSUME Phases, Overlapped, NEW x
  PROVE  /\ Gathered(x) \subseteq Active /\ IsFiniteSet(Gathered(x))
         /\ Cardinality(Gathered(x)) <= Cardinality(Active)
<1>1. Gathered(x) \subseteq Active BY DEF Gathered, Active, Phases
<1> QED BY <1>1, FS_Subset DEF Overlapped

\* A step that sends nothing, and gathers nothing.
LEMMA MailQuiet ==
  ASSUME Mail, Phases, Overlapped', Spent \in Nat, Spent' \in Nat, Spent <= Spent',
         ledger' = ledger, mails' = mails, \A x \in Items : Gathered(x)' \subseteq Gathered(x)
  PROVE  Mail'
<1>1. \A x : Carrying(x)' = Carrying(x) BY DEF Carrying
<1>2. Contents' /\ ReminderCarried' BY DEF Mail, Contents, ReminderCarried
<1>3. Unmailed' BY <1>1 DEF Mail, Unmailed
<1>4. Alone' BY <1>1 DEF Mail, Alone
<1>5. Counted'
  <2>1. ASSUME NEW x \in Items
        PROVE  /\ IsFiniteSet(Carrying(x))
               /\ Cardinality(Carrying(x)) + Cardinality(Gathered(x)') <= 1 + Spent'
    <3>1. IsFiniteSet(Carrying(x)) /\ Cardinality(Carrying(x)) + Cardinality(Gathered(x)) <= 1 + Spent
      BY DEF Mail, Counted
    <3>2. IsFiniteSet(Gathered(x)) BY GatheredActive DEF Mail
    <3>3. IsFiniteSet(Gathered(x)') /\ Cardinality(Gathered(x)') <= Cardinality(Gathered(x))
      BY <3>2, FS_Subset
    <3>4. /\ Cardinality(Carrying(x)) \in Nat /\ Cardinality(Gathered(x)) \in Nat
          /\ Cardinality(Gathered(x)') \in Nat
      BY <3>1, <3>2, <3>3, FS_CardinalityType
    <3> QED BY <3>1, <3>3, <3>4
  <2> QED BY <1>1, <2>1 DEF Counted
<1> QED BY <1>2, <1>3, <1>4, <1>5 DEF Mail

\* A resend is of no kind that counts, and is carried by the message it names.
LEMMA MailResend ==
  ASSUME Types, Mail, Phases, Overlapped', Spent \in Nat, Spent' \in Nat, Spent <= Spent',
         NEW y \in Items, Resend(y)
  PROVE  Mail'
<1>1. PICK n \in 1 .. Budget["resend"] :
        /\ ledger'[y].key = Resent(y, n)
        /\ \A m \in mails' : m \in mails \/ m = [key |-> Resent(y, n), items |-> {y}]
        /\ \E m \in mails' : m.key = Resent(y, n)
  BY ResendMoves
<1>2. /\ sweep' = sweep /\ mails \subseteq mails' /\ ledger'[y].status = "sent"
      /\ \A x \in Items \ {y} : ledger'[x] = ledger[x]
  BY ResendMoves
<1>3. \A x : Carrying(x)' = Carrying(x)
  <2>1. \A m \in mails' : m.key[1] # "resend" => m \in mails BY <1>1, KeyFacts
  <2>2. \A x : {n1 \in mails' : n1.key[1] # "resend" /\ x \in n1.items}
               = {n1 \in mails : n1.key[1] # "resend" /\ x \in n1.items}
    BY <1>2, <2>1
  <2> QED BY <2>2 DEF Carrying
<1>4. Contents'
  <2>1. [key |-> Resent(y, n), items |-> {y}].items = Resent(y, n)[2] BY KeyFacts
  <2>2. [key |-> Resent(y, n), items |-> {y}].key = Resent(y, n) OBVIOUS
  <2> QED BY <1>1, <2>1, <2>2 DEF Mail, Contents
<1>5. ReminderCarried'
  <2>1. ASSUME NEW x \in Items, ledger'[x].status = "sent"
        PROVE  \E m \in mails' : m.key = ledger'[x].key /\ x \in m.items
    <3>1. CASE x = y
      <4>1. PICK m \in mails' : m.key = Resent(y, n) BY <1>1
      <4>2. m.items = {y} BY <1>4, <4>1, KeyFacts DEF Contents
      <4> QED BY <1>1, <3>1, <4>1, <4>2
    <3>2. CASE x # y BY <1>2, <2>1, <3>2 DEF Mail, ReminderCarried
    <3> QED BY <3>1, <3>2
  <2> QED BY <2>1 DEF ReminderCarried
<1>6. \A x : Gathered(x)' = Gathered(x) BY <1>2 DEF Gathered
<1>7. Unmailed' BY <1>2, <1>3 DEF Mail, Unmailed
<1>8. Alone' BY <1>3, <1>6 DEF Mail, Alone
<1>9. Counted'
  <2>1. ASSUME NEW x \in Items
        PROVE  /\ IsFiniteSet(Carrying(x))
               /\ Cardinality(Carrying(x)) + Cardinality(Gathered(x)) <= 1 + Spent'
    <3>1. IsFiniteSet(Carrying(x)) /\ Cardinality(Carrying(x)) + Cardinality(Gathered(x)) <= 1 + Spent
      BY DEF Mail, Counted
    <3>2. IsFiniteSet(Gathered(x)) BY GatheredActive DEF Mail
    <3>3. Cardinality(Carrying(x)) \in Nat /\ Cardinality(Gathered(x)) \in Nat
      BY <3>1, <3>2, FS_CardinalityType
    <3> QED BY <3>1, <3>3
  <2> QED BY <1>3, <1>6, <2>1 DEF Counted
<1> QED BY <1>4, <1>5, <1>7, <1>8, <1>9 DEF Mail

\* A digest gathers what no message carries yet.
LEMMA MailGather ==
  ASSUME Types, Book, Mail, Overlapped', Phases', Spent \in Nat, Spent' = Spent,
         NEW s \in Sweepers, SweepGather(s)
  PROVE  Mail'
<1>0. sweep \in [Sweepers -> Txns] BY DEF Types, TypeOK, Txns
<1>1. PICK t \in Txns : /\ sweep' = [sweep EXCEPT ![s] = t]
                        /\ t.batch = IF FlushDue(s) THEN Queued(s) ELSE {}
  BY SweepMoves
<1>2. ledger' = ledger /\ mails' = mails BY DEF SweepGather
<1>3. sweep'[s] = t /\ \A r \in Sweepers \ {s} : sweep'[r] = sweep[r] BY <1>0, <1>1
<1>4. \A x : Carrying(x)' = Carrying(x) BY <1>2 DEF Carrying
<1>5. Contents' /\ ReminderCarried' BY <1>2 DEF Mail, Contents, ReminderCarried
<1>6. Unmailed' BY <1>2, <1>4 DEF Mail, Unmailed
<1>7. ASSUME NEW x \in Items
      PROVE  Carrying(x) = {} \/ Gathered(x)' \subseteq Gathered(x)
  <2>1. CASE x \in t.batch
    <3>1. "queued" \in {ledger[x].status, sweep[s].entry[x].status} BY <1>1, <2>1 DEF Queued
    <3>2. ledger[x].status # "sent"
      <4>1. CASE ledger[x].status = "queued" BY <4>1
      <4>2. CASE sweep[s].entry[x].status = "queued"
        <5>1. x \in Inserted(s) BY <4>2, NoEntryTyped DEF Inserted
        <5> QED BY <5>1, NoEntryTyped DEF Book, Fresh
      <4> QED BY <3>1, <4>1, <4>2
    <3> QED BY <3>2 DEF Mail, Unmailed
  <2>2. CASE x \notin t.batch BY <1>3, <2>2 DEF Gathered
  <2> QED BY <2>1, <2>2
<1>8. Alone' BY <1>4, <1>7 DEF Mail, Alone
<1>9. Counted'
  <2>1. ASSUME NEW x \in Items
        PROVE  /\ IsFiniteSet(Carrying(x))
               /\ Cardinality(Carrying(x)) + Cardinality(Gathered(x)') <= 1 + Spent
    <3>1. IsFiniteSet(Carrying(x)) /\ Cardinality(Carrying(x)) + Cardinality(Gathered(x)) <= 1 + Spent
      BY DEF Mail, Counted
    <3>2. IsFiniteSet(Gathered(x)) BY GatheredActive DEF Mail, Book
    <3>3. IsFiniteSet(Gathered(x)') /\ Cardinality(Gathered(x)') <= Cardinality(Active')
      <4>1. Gathered(x)' \subseteq Active' BY DEF Gathered, Active, Phases
      <4> QED BY <4>1, FS_Subset DEF Overlapped
    <3>4. /\ Cardinality(Carrying(x)) \in Nat /\ Cardinality(Gathered(x)) \in Nat
          /\ Cardinality(Gathered(x)') \in Nat
          /\ Cardinality(Active') \in Nat /\ Cardinality(Active') <= 1 + Spent
      BY <3>1, <3>2, <3>3, FS_CardinalityType DEF Overlapped
    <3>5. CASE Carrying(x) = {}
      <4>1. Cardinality(Carrying(x)) = 0 BY <3>5, FS_EmptySet
      <4> QED BY <3>1, <3>3, <3>4, <4>1
    <3>6. CASE Gathered(x)' \subseteq Gathered(x)
      <4>1. Cardinality(Gathered(x)') <= Cardinality(Gathered(x)) BY <3>2, <3>6, FS_Subset
      <4> QED BY <3>1, <3>4, <4>1
    <3> QED BY <1>7, <3>5, <3>6
  <2> QED BY <1>4, <2>1 DEF Counted
<1> QED BY <1>5, <1>6, <1>8, <1>9 DEF Mail

\* A row mailed at once was in no message and is in no open digest.
LEMMA ImmediateIsFirst ==
  ASSUME Types, Book, Mail, NEW s \in Sweepers, NEW x \in Immediate(s)
  PROVE  Carrying(x) = {} /\ Gathered(x) = {} /\ x \in Inserted(s) /\ x \in Items
<1>1. x \in Items /\ sweep[s].entry[x].status = "sent" BY DEF Immediate
<1>2. x \in Inserted(s) BY <1>1, NoEntryTyped DEF Inserted
<1>3. ledger[x] = NoEntry BY <1>2 DEF Book, Fresh
<1>4. Carrying(x) = {} BY <1>1, <1>3, NoEntryTyped DEF Mail, Unmailed
<1>5. ASSUME NEW r \in Gathered(x) PROVE FALSE
  <2>1. r \in Sweepers /\ x \in sweep[r].batch BY <1>5 DEF Gathered
  <2>2. sweep[r].entry[x].status = "queued" BY <1>3, <2>1, NoEntryTyped DEF Book, Held
  <2>3. x \in Inserted(r) BY <1>1, <2>2, NoEntryTyped DEF Inserted
  <2>4. r = s BY <1>2, <2>1, <2>3 DEF Book, Exclusive
  <2> QED BY <1>1, <2>2, <2>4
<1> QED BY <1>1, <1>2, <1>4, <1>5

\* A commit sends what it decided and what it gathered, and nothing twice.
LEMMA MailCommit ==
  ASSUME Types, Book, Mail, Overlapped', Spent \in Nat, Spent' = Spent,
         NEW s \in Sweepers, SweepCommit(s)
  PROVE  Mail'
<1> DEFINE b == sweep[s].batch
<1>1. /\ sweep' = [sweep EXCEPT ![s] = Resting]
      /\ b \in SUBSET Items
      /\ \A x \in Items :
           ledger'[x] = IF x \in b THEN [status |-> "sent", key |-> DigestKey(b)]
                        ELSE IF x \in Inserted(s) THEN sweep[s].entry[x] ELSE ledger[x]
  BY CommitMoves
<1>2. /\ mails \subseteq mails'
      /\ \A m \in mails' : \/ m \in mails
                           \/ \E x \in Immediate(s) : m = [key |-> Single(x), items |-> {x}]
                           \/ m = [key |-> DigestKey(b), items |-> b]
      /\ \A x \in Immediate(s) : \E m \in mails' : m.key = Single(x)
      /\ b # {} => \E m \in mails' : m.key = DigestKey(b)
  BY CommitMoves
<1>3. /\ sweep'[s].batch = {}
      /\ \A r \in Sweepers \ {s} : sweep'[r] = sweep[r]
  BY <1>1, RestsMoves
<1>4. /\ \A x : x \in b => s \in Gathered(x)
      /\ \A x : Gathered(x)' = Gathered(x) \ {s}
  BY <1>3 DEF Gathered
<1> HIDE DEF b
<1>5. Contents'
  <2>1. \A x : [key |-> Single(x), items |-> {x}].items = Single(x)[2] BY KeyFacts
  <2>2. [key |-> DigestKey(b), items |-> b].items = DigestKey(b)[2] BY KeyFacts
  <2>3. ASSUME NEW m \in mails' PROVE m.items = m.key[2]
    <3>1. CASE m \in mails BY <3>1 DEF Mail, Contents
    <3>2. ASSUME NEW x \in Immediate(s), m = [key |-> Single(x), items |-> {x}]
          PROVE  m.items = m.key[2]
      BY <2>1, <3>2
    <3>3. CASE m = [key |-> DigestKey(b), items |-> b] BY <2>2, <3>3
    <3> QED BY <1>2, <3>1, <3>2, <3>3
  <2> QED BY <2>3 DEF Contents
<1>6. ASSUME NEW x \in Items, NEW k \in Carrying(x)'
      PROVE  k \in Carrying(x) \/ (x \in Immediate(s) /\ k = Single(x)) \/ (x \in b /\ k = DigestKey(b))
  <2>1. PICK m \in mails' : m.key = k /\ m.key[1] # "resend" /\ x \in m.items
    BY <1>6 DEF Carrying
  <2>2. CASE m \in mails BY <2>1, <2>2 DEF Carrying
  <2>3. ASSUME NEW y \in Immediate(s), m = [key |-> Single(y), items |-> {y}]
        PROVE  x \in Immediate(s) /\ k = Single(x)
    BY <2>1, <2>3
  <2>4. CASE m = [key |-> DigestKey(b), items |-> b] BY <2>1, <2>4
  <2> QED BY <1>2, <2>2, <2>3, <2>4
<1>7. \A x \in Immediate(s) : Carrying(x) = {} /\ Gathered(x) = {} /\ x \in Inserted(s) /\ x \notin b
  BY <1>4, ImmediateIsFirst
<1>8. Unmailed'
  <2>1. ASSUME NEW x \in Items, ledger'[x].status # "sent" PROVE Carrying(x)' = {}
    <3>1. x \notin b
      <4>1. [status |-> "sent", key |-> DigestKey(b)].status = "sent" OBVIOUS
      <4> QED BY <1>1, <2>1, <4>1
    <3>2. x \notin Immediate(s) BY <1>1, <1>7, <2>1, <3>1 DEF Immediate
    <3>3. ledger[x].status # "sent"
      <4>1. CASE x \in Inserted(s) BY <4>1, NoEntryTyped DEF Book, Fresh
      <4>2. CASE x \notin Inserted(s) BY <1>1, <2>1, <3>1, <4>2
      <4> QED BY <4>1, <4>2
    <3>4. Carrying(x) = {} BY <3>3 DEF Mail, Unmailed
    <3> QED BY <1>6, <3>1, <3>2, <3>4
  <2> QED BY <2>1 DEF Unmailed
<1>9. ReminderCarried'
  <2>1. ASSUME NEW x \in Items, ledger'[x].status = "sent"
        PROVE  \E m \in mails' : m.key = ledger'[x].key /\ x \in m.items
    <3>1. CASE x \in b
      <4>1. ledger'[x].key = DigestKey(b) BY <1>1, <3>1
      <4>2. PICK m \in mails' : m.key = DigestKey(b) BY <1>2, <3>1
      <4>3. m.items = b BY <1>5, <4>2, KeyFacts DEF Contents
      <4> QED BY <3>1, <4>1, <4>2, <4>3
    <3>2. CASE x \notin b /\ x \in Inserted(s)
      <4>1. ledger'[x] = sweep[s].entry[x] BY <1>1, <3>2
      <4>2. x \in Immediate(s) /\ ledger'[x].key = Single(x)
        BY <2>1, <4>1 DEF Immediate, Book, Phases
      <4>3. PICK m \in mails' : m.key = Single(x) BY <1>2, <4>2
      <4>4. m.items = {x} BY <1>5, <4>3, KeyFacts DEF Contents
      <4> QED BY <4>2, <4>3, <4>4
    <3>3. CASE x \notin b /\ x \notin Inserted(s)
      BY <1>1, <1>2, <2>1, <3>3 DEF Mail, ReminderCarried
    <3> QED BY <3>1, <3>2, <3>3
  <2> QED BY <2>1 DEF ReminderCarried
<1>10. Alone'
  <2>1. ASSUME NEW x \in Items, Single(x) \in Carrying(x)'
        PROVE  Carrying(x)' = {Single(x)} /\ Gathered(x)' = {}
    <3>1. Single(x) # DigestKey(b)
      <4>1. Single(x)[1] # DigestKey(b)[1] BY KeyFacts
      <4> QED BY <4>1
    <3>2. CASE Single(x) \in Carrying(x)
      <4>1. Carrying(x) = {Single(x)} /\ Gathered(x) = {} BY <3>2 DEF Mail, Alone
      <4>2. x \notin b BY <1>4, <4>1
      <4>3. \A k \in Carrying(x)' : k = Single(x) BY <1>6, <4>1, <4>2
      <4> QED BY <1>4, <2>1, <4>1, <4>3
    <3>3. CASE x \in Immediate(s)
      <4>1. Carrying(x) = {} /\ Gathered(x) = {} /\ x \notin b BY <1>7, <3>3
      <4>2. \A k \in Carrying(x)' : k = Single(x) BY <1>6, <4>1
      <4> QED BY <1>4, <2>1, <4>1, <4>2
    <3> QED BY <1>6, <2>1, <3>1, <3>2, <3>3
  <2> QED BY <2>1 DEF Alone
<1>11. Counted'
  <2>1. ASSUME NEW x \in Items
        PROVE  /\ IsFiniteSet(Carrying(x)')
               /\ Cardinality(Carrying(x)') + Cardinality(Gathered(x)') <= 1 + Spent
    <3>1. /\ IsFiniteSet(Carrying(x)) /\ IsFiniteSet(Gathered(x))
          /\ Cardinality(Carrying(x)) + Cardinality(Gathered(x)) <= 1 + Spent
          /\ Cardinality(Carrying(x)) \in Nat /\ Cardinality(Gathered(x)) \in Nat
      BY GatheredActive, FS_CardinalityType DEF Mail, Counted, Book
    <3>2. CASE x \in Immediate(s)
      <4>1. Carrying(x)' \subseteq {Single(x)} /\ Gathered(x)' = {} BY <1>4, <1>6, <1>7, <3>2
      <4>2. IsFiniteSet(Carrying(x)') /\ Cardinality(Carrying(x)') <= 1
        <5>1. IsFiniteSet({Single(x)}) /\ Cardinality({Single(x)}) = 1 BY FS_Singleton
        <5>2. /\ IsFiniteSet(Carrying(x)')
              /\ Cardinality(Carrying(x)') <= Cardinality({Single(x)})
          BY <4>1, <5>1, FS_Subset
        <5> QED BY <5>1, <5>2
      <4>3. Cardinality(Gathered(x)') = 0 BY <4>1, FS_EmptySet
      <4>4. Cardinality(Carrying(x)') \in Nat BY <4>2, FS_CardinalityType
      <4> QED BY <4>2, <4>3, <4>4
    <3>3. CASE x \in b
      <4>1. x \notin Immediate(s) BY <1>7, <3>3
      <4>2. Carrying(x)' \subseteq Carrying(x) \cup {DigestKey(b)} BY <1>6, <4>1
      <4>3. /\ IsFiniteSet(Carrying(x) \cup {DigestKey(b)})
            /\ Cardinality(Carrying(x) \cup {DigestKey(b)})
               = IF DigestKey(b) \in Carrying(x) THEN Cardinality(Carrying(x))
                 ELSE Cardinality(Carrying(x)) + 1
        BY <3>1, FS_AddElement
      <4>4. /\ IsFiniteSet(Carrying(x)')
            /\ Cardinality(Carrying(x)') <= Cardinality(Carrying(x) \cup {DigestKey(b)})
        BY <4>2, <4>3, FS_Subset
      <4>5. Cardinality(Gathered(x)') = Cardinality(Gathered(x)) - 1
        BY <1>4, <3>1, <3>3, FS_RemoveElement
      <4>6. Cardinality(Carrying(x)') \in Nat BY <4>4, FS_CardinalityType
      <4> QED BY <3>1, <4>3, <4>4, <4>5, <4>6
    <3>4. CASE x \notin b /\ x \notin Immediate(s)
      <4>1. Carrying(x)' \subseteq Carrying(x) /\ Gathered(x)' \subseteq Gathered(x)
        BY <1>4, <1>6, <3>4
      <4>2. /\ IsFiniteSet(Carrying(x)') /\ Cardinality(Carrying(x)') <= Cardinality(Carrying(x))
            /\ IsFiniteSet(Gathered(x)') /\ Cardinality(Gathered(x)') <= Cardinality(Gathered(x))
        BY <3>1, <4>1, FS_Subset
      <4>3. Cardinality(Carrying(x)') \in Nat /\ Cardinality(Gathered(x)') \in Nat
        BY <4>2, FS_CardinalityType
      <4> QED BY <3>1, <4>2, <4>3
    <3> QED BY <3>2, <3>3, <3>4
  <2> QED BY <2>1 DEF Counted
<1> QED BY <1>5, <1>8, <1>9, <1>10, <1>11 DEF Mail

\* No step breaks the count.
LEMMA MailStep ==
  ASSUME Types, Book, Mail, [Next]_vars, Book'
  PROVE  Mail'
<1>0. /\ Spent \in Nat /\ Spent' \in Nat /\ Spent <= Spent' /\ Phases /\ Phases'
      /\ sweep \in [Sweepers -> Txns]
  BY SpentGrows DEF Book, Types, TypeOK, Txns
<1>1. Overlapped' BY OverlappedStep DEF Mail
<1>2. ASSUME ledger' = ledger, mails' = mails, sweep' = sweep PROVE Mail'
  <2>1. \A x \in Items : Gathered(x)' \subseteq Gathered(x) BY <1>2 DEF Gathered
  <2> QED BY <1>0, <1>1, <1>2, <2>1, MailQuiet
<1>3. CASE UNCHANGED vars BY <1>2, <1>3 DEF vars
<1>4. CASE World BY <1>2, <1>4, WorldMoves
<1>5. ASSUME NEW x \in Items, Resend(x) PROVE Mail' BY <1>0, <1>1, <1>5, MailResend
<1>6. ASSUME NEW s \in Sweepers, SweepStart(s) PROVE Mail'
  <2>1. PICK t \in Txns : sweep' = [sweep EXCEPT ![s] = t] /\ t.batch = {} BY <1>6, SweepMoves
  <2>2. sweep'[s] = t /\ \A r \in Sweepers \ {s} : sweep'[r] = sweep[r] BY <1>0, <2>1
  <2>3. \A x \in Items : Gathered(x)' \subseteq Gathered(x) BY <2>1, <2>2 DEF Gathered
  <2>4. ledger' = ledger /\ mails' = mails BY <1>6 DEF SweepStart
  <2> QED BY <1>0, <1>1, <2>3, <2>4, MailQuiet
<1>6a. ASSUME NEW s \in Sweepers, SweepDetect(s) PROVE Mail'
  <2>1. PICK t \in Txns : sweep' = [sweep EXCEPT ![s] = t] /\ t.batch = sweep[s].batch
    BY <1>6a, SweepMoves
  <2>2. sweep'[s] = t /\ \A r \in Sweepers \ {s} : sweep'[r] = sweep[r] BY <1>0, <2>1
  <2>3. \A x \in Items : Gathered(x)' \subseteq Gathered(x) BY <2>1, <2>2 DEF Gathered
  <2>4. ledger' = ledger /\ mails' = mails BY <1>6a DEF SweepDetect
  <2> QED BY <1>0, <1>1, <2>3, <2>4, MailQuiet
<1>7. ASSUME NEW s \in Sweepers, SweepRecord(s) PROVE Mail'
  <2>1. PICK t \in Txns : sweep' = [sweep EXCEPT ![s] = t] /\ t.batch = sweep[s].batch
    BY <1>7, SweepMoves
  <2>2. sweep'[s] = t /\ \A r \in Sweepers \ {s} : sweep'[r] = sweep[r] BY <1>0, <2>1
  <2>3. \A x \in Items : Gathered(x)' \subseteq Gathered(x) BY <2>1, <2>2 DEF Gathered
  <2>4. ledger' = ledger /\ mails' = mails BY <1>7 DEF SweepRecord
  <2> QED BY <1>0, <1>1, <2>3, <2>4, MailQuiet
<1>8. ASSUME NEW s \in Sweepers, SweepGather(s) PROVE Mail'
  <2>1. Spent' = Spent BY <1>8 DEF SweepGather, limits, Spent
  <2> QED BY <1>0, <1>1, <1>8, <2>1, MailGather
<1>9. ASSUME NEW s \in Sweepers, SweepCommit(s) PROVE Mail'
  <2>1. Spent' = Spent BY <1>9 DEF SweepCommit, limits, Spent
  <2> QED BY <1>0, <1>1, <1>9, <2>1, MailCommit
<1>10. ASSUME NEW s \in Sweepers, SweepAborts(s) PROVE Mail'
  <2>1. sweep' = [sweep EXCEPT ![s] = Resting] /\ ledger' = ledger /\ mails' = mails
    BY <1>10 DEF SweepAborts
  <2>2. sweep'[s].batch = {} /\ \A r \in Sweepers \ {s} : sweep'[r] = sweep[r] BY <2>1, RestsMoves
  <2>3. \A x \in Items : Gathered(x)' \subseteq Gathered(x) BY <2>2 DEF Gathered
  <2> QED BY <1>0, <1>1, <2>1, <2>3, MailQuiet
<1> QED BY <1>3, <1>4, <1>5, <1>6, <1>6a, <1>7, <1>8, <1>9, <1>10, NextCases

\* At the start the outbox is empty.
LEMMA MailInit ==
  ASSUME Init
  PROVE  Mail
<1>1. /\ \A s \in Sweepers : sweep[s] = Resting
      /\ \A x \in Items : ledger[x] = NoEntry
      /\ mails = {} /\ budget = Budget
  BY DEF Init
<1>2. Active = {} BY <1>1, RestingTyped DEF Active
<1>3. \A x : Carrying(x) = {} BY <1>1 DEF Carrying
<1>4. \A x : Gathered(x) = {} BY <1>1, RestingTyped DEF Gathered
<1>5. IsFiniteSet({}) /\ Cardinality({}) = 0 BY FS_EmptySet
<1>6. "overlap" \in Acts BY DEF Acts
<1>7. Spent = 0 BY <1>1, <1>6, BudgetAssumption DEF Spent
<1>8. Overlapped /\ Counted
  BY <1>2, <1>3, <1>4, <1>5, <1>7 DEF Overlapped, Counted
<1>9. ReminderCarried BY <1>1, NoEntryTyped DEF ReminderCarried
<1> QED BY <1>1, <1>3, <1>8, <1>9 DEF Mail, Contents, Unmailed, Alone

\* The count of messages alone is what is left when no digest is open.
LEMMA MailSuffices ==
  ASSUME Types, Book, Mail
  PROVE  MailedOnce
<1>0. Spent \in Nat
  <2>1. "overlap" \in Acts BY DEF Acts
  <2> QED BY <2>1, BudgetAssumption DEF Types, TypeOK, Spent
<1>1. ASSUME NEW x \in Items
      PROVE  /\ Cardinality(Carrying(x)) <= 1 + Spent
             /\ Single(x) \in Carrying(x) => Carrying(x) = {Single(x)}
             /\ ledger[x].status = "skipped" => Carrying(x) = {}
  <2>1. /\ IsFiniteSet(Carrying(x)) /\ IsFiniteSet(Gathered(x))
        /\ Cardinality(Carrying(x)) + Cardinality(Gathered(x)) <= 1 + Spent
        /\ Cardinality(Carrying(x)) \in Nat /\ Cardinality(Gathered(x)) \in Nat
    BY GatheredActive, FS_CardinalityType DEF Mail, Counted, Book
  <2>2. Cardinality(Carrying(x)) <= 1 + Spent BY <1>0, <2>1
  <2> QED BY <2>2 DEF Mail, Alone, Unmailed
<1> QED BY <1>1 DEF MailedOnce, Carrying, Spent

-----------------------------------------------------------------------------
(* Nudges. The share is checked when a sweep detects and the row inserted    *)
(* later, so the rows alone are not enough to count. What is inductive is    *)
(* the count of the windows drawn and those in flight together: a sweep has  *)
(* at most one nudge in flight, it detects one only while rows are fewer     *)
(* than the share, and the other sweeps that may have one in flight are no   *)
(* more than the overlaps. When windows end plays no part in it.             *)

Flight(s) == {x \in Nudges : x \in sweep[s].seen \/ x \in Inserted(s)}
InFlight(n) == {w \in 1 .. Windows : \E s \in Sweepers : <<n, w>> \in Flight(s)}
Reached(n) == Drawn(n) \cup InFlight(n)

OneNudge == \A s \in Sweepers : \A x, y \in Flight(s) : x = y

Within == \A n \in 1 .. Spells : Cardinality(Reached(n)) <= MaxNudges + Spent

Pace == OneNudge /\ Within

\* The windows of a spell are finitely many.
LEMMA WindowsFinite ==
  ASSUME NEW S, S \subseteq 1 .. Windows
  PROVE  /\ IsFiniteSet(S) /\ Cardinality(S) \in Nat
         /\ \A R : R \subseteq S => Cardinality(R) \in Nat /\ Cardinality(R) <= Cardinality(S)
<1>1. IsFiniteSet(1 .. Windows) BY SpellsAssumption, FS_Interval
<1>2. IsFiniteSet(S) BY <1>1, FS_Subset
<1>3. Cardinality(S) \in Nat BY <1>2, FS_CardinalityType
<1>4. ASSUME NEW R, R \subseteq S
      PROVE  Cardinality(R) \in Nat /\ Cardinality(R) <= Cardinality(S)
  <2>1. IsFiniteSet(R) /\ Cardinality(R) <= Cardinality(S) BY <1>2, <1>4, FS_Subset
  <2> QED BY <2>1, FS_CardinalityType
<1> QED BY <1>2, <1>3, <1>4

\* The nudges in flight are drawn, dropped or kept: none is new.
LEMMA PaceQuiet ==
  ASSUME Pace, Spent \in Nat, Spent' \in Nat, Spent <= Spent',
         \A s \in Sweepers : Flight(s)' \subseteq Flight(s),
         \A n \in 1 .. Spells : Drawn(n)' \subseteq Reached(n)
  PROVE  Pace'
<1>1. OneNudge' BY DEF Pace, OneNudge
<1>2. ASSUME NEW n \in 1 .. Spells PROVE Cardinality(Reached(n)') <= MaxNudges + Spent'
  <2>1. InFlight(n)' \subseteq InFlight(n) BY DEF InFlight
  <2>2. Reached(n)' \subseteq Reached(n) BY <1>2, <2>1 DEF Reached
  <2>3. Reached(n) \subseteq 1 .. Windows BY DEF Reached, Drawn, InFlight
  <2>4. /\ Cardinality(Reached(n)') \in Nat /\ Cardinality(Reached(n)) \in Nat
        /\ Cardinality(Reached(n)') <= Cardinality(Reached(n))
    BY <2>2, <2>3, WindowsFinite
  <2>5. Cardinality(Reached(n)) <= MaxNudges + Spent BY DEF Pace, Within
  <2> QED BY <2>4, <2>5, SpellsAssumption
<1> QED BY <1>1, <1>2 DEF Pace, Within

\* A sweep that holds no more than before, or what it held has been drawn.
LEMMA FlightShrinks ==
  ASSUME NEW s \in Sweepers, Flight(s)' \subseteq Flight(s),
         \A r \in Sweepers \ {s} : sweep'[r] = sweep[r]
  PROVE  \A r \in Sweepers : Flight(r)' \subseteq Flight(r)
<1>1. \A r \in Sweepers \ {s} : Flight(r)' = Flight(r) BY DEF Flight, Inserted
<1> QED BY <1>1

\* Sweeps have at most one nudge in flight each, so the windows in flight of a
\* spell are no more than the sweeps they are in.
LEMMA WindowsOfSweeps ==
  ASSUME OneNudge, NEW n, NEW S, S \subseteq Sweepers, IsFiniteSet(S),
         NEW W, W = {w \in 1 .. Windows : \E r \in S : <<n, w>> \in Flight(r)}
  PROVE  IsFiniteSet(W) /\ Cardinality(W) <= Cardinality(S)
<1> DEFINE f == [w \in W |-> CHOOSE r \in S : <<n, w>> \in Flight(r)]
<1>1. \A w \in W : \E r \in S : <<n, w>> \in Flight(r) OBVIOUS
<1>2. \A w \in W : f[w] \in S /\ <<n, w>> \in Flight(f[w]) BY <1>1
<1>3. f \in [W -> S] BY <1>2
<1>4. ASSUME NEW v \in W, NEW w \in W, f[v] = f[w] PROVE v = w
  <2>1. <<n, v>> \in Flight(f[w]) /\ <<n, w>> \in Flight(f[w]) /\ f[w] \in Sweepers
    BY <1>2, <1>4
  <2>2. <<n, v>> = <<n, w>> BY <2>1 DEF OneNudge
  <2> QED BY <2>2
<1>5. f \in Injection(W, S)
  <2>1. DOMAIN f = W OBVIOUS
  <2> HIDE DEF f
  <2> QED BY <1>3, <1>4, <2>1 DEF Injection, IsInjective
<1> HIDE DEF f
<1> QED BY <1>5, FS_Injection

\* A sweep detects at most the nudge of its own now, in a spell that has room.
LEMMA PaceDetect ==
  ASSUME Types, Book, Overlapped, Pace, NEW s \in Sweepers, SweepDetect(s)
  PROVE  Pace'
<1>0. /\ sweep \in [Sweepers -> Txns] /\ happens \subseteq Occurrences
      /\ budget["overlap"] \in Nat /\ Budget["overlap"] \in Nat
      /\ budget["overlap"] <= Budget["overlap"]
  <2>1. "overlap" \in Acts BY DEF Acts
  <2> QED BY <2>1, BudgetAssumption DEF Types, TypeOK, Txns
<1>1. PICK t \in Txns : /\ sweep' = [sweep EXCEPT ![s] = t] /\ t.seen = Detected(s)
                        /\ t.entry = sweep[s].entry
  BY SweepMoves
<1>2. sweep'[s] = t /\ \A r \in Sweepers \ {s} : sweep'[r] = sweep[r] BY <1>0, <1>1
<1>3. ledger' = ledger /\ budget' = budget /\ sweep[s].pc = "started"
  BY DEF SweepDetect, limits
<1>4. Spent \in Nat /\ Spent' = Spent BY <1>0, <1>3 DEF Spent
<1>5. \A n : Drawn(n)' = Drawn(n) BY <1>3 DEF Drawn
<1>6. Inserted(s)' = {} BY <1>1, <1>2, <1>3 DEF Inserted, Book, Phases
<1>7. ASSUME NEW x \in Flight(s)'
      PROVE  x = Nudge(s) /\ Cardinality(Drawn(x[1])) < MaxNudges
  <2>1. x \in Nudges /\ x \in Detected(s) BY <1>1, <1>2, <1>6, <1>7 DEF Flight
  <2>2. x \notin happens BY <1>0, <2>1, OccurrencesAssumption
  <2> QED BY <2>1, <2>2 DEF Detected
<1>8. \A r \in Sweepers \ {s} : Flight(r)' = Flight(r) BY <1>2 DEF Flight, Inserted
<1>9. OneNudge' BY <1>7, <1>8 DEF Pace, OneNudge
<1>10. ASSUME NEW n \in 1 .. Spells PROVE Cardinality(Reached(n)') <= MaxNudges + Spent
  <2>1. Reached(n) \subseteq 1 .. Windows /\ Cardinality(Reached(n)) <= MaxNudges + Spent
    BY DEF Reached, Drawn, InFlight, Pace, Within
  <2>2. CASE Reached(n)' \subseteq Reached(n)
    <3>1. /\ Cardinality(Reached(n)') \in Nat /\ Cardinality(Reached(n)) \in Nat
          /\ Cardinality(Reached(n)') <= Cardinality(Reached(n))
      BY <2>1, <2>2, WindowsFinite
    <3> QED BY <1>4, <2>1, <3>1, SpellsAssumption
  <2>3. ASSUME NEW w \in Reached(n)', w \notin Reached(n)
        PROVE  Cardinality(Reached(n)') <= MaxNudges + Spent
    <3> DEFINE others == Active \ {s}
               W == {v \in 1 .. Windows : \E r \in others : <<n, v>> \in Flight(r)}
    <3>1. <<n, w>> \in Flight(s)'
      BY <1>5, <1>8, <2>3 DEF Reached, InFlight
    <3>2. <<n, w>> = Nudge(s) /\ Cardinality(Drawn(n)) < MaxNudges BY <1>7, <3>1
    <3>3. /\ IsFiniteSet(others) /\ Cardinality(others) \in Nat /\ Cardinality(others) <= Spent
      <4>1. s \in Active BY <1>3 DEF Active
      <4>2. /\ IsFiniteSet(Active) /\ Cardinality(Active) \in Nat
            /\ Cardinality(Active) <= 1 + Spent
        BY FS_CardinalityType DEF Overlapped
      <4>3. IsFiniteSet(others) /\ Cardinality(others) = Cardinality(Active) - 1
        BY <4>1, <4>2, FS_RemoveElement
      <4>4. Cardinality(others) \in Nat BY <4>3, FS_CardinalityType
      <4> HIDE DEF others
      <4> QED BY <1>4, <4>2, <4>3, <4>4
    <3>4. others \subseteq Sweepers BY DEF Active
    <3>5. \A r \in Sweepers : Flight(r) # {} => r \in Active
      BY DEF Flight, Active, Book, Phases
    <3>6. InFlight(n)' \subseteq W \cup {w}
      <4>1. ASSUME NEW v \in InFlight(n)' PROVE v \in W \/ v = w
        <5>1. PICK r \in Sweepers : v \in 1 .. Windows /\ <<n, v>> \in Flight(r)'
          BY <4>1 DEF InFlight
        <5>2. CASE r = s
          <6>1. <<n, v>> = <<n, w>> BY <1>7, <3>2, <5>1, <5>2
          <6> QED BY <6>1
        <5>3. CASE r # s BY <1>8, <3>5, <5>1, <5>3
        <5> QED BY <5>2, <5>3
      <4> QED BY <4>1
    <3>7. /\ IsFiniteSet(W) /\ Cardinality(W) \in Nat /\ Cardinality(W) <= Cardinality(others)
      <4>1. IsFiniteSet(W) /\ Cardinality(W) <= Cardinality(others)
        <5> HIDE DEF others
        <5> QED BY <3>3, <3>4, WindowsOfSweeps DEF Pace
      <4> QED BY <4>1, FS_CardinalityType
    <3>8. Drawn(n) \subseteq 1 .. Windows /\ W \subseteq 1 .. Windows /\ w \in 1 .. Windows
      BY <2>3 DEF Reached, InFlight, Drawn
    <3> HIDE DEF others, W
    <3>9. IsFiniteSet(Drawn(n)) /\ Cardinality(Drawn(n)) \in Nat BY <3>8, WindowsFinite
    <3>10. /\ IsFiniteSet(Drawn(n) \cup W) /\ Cardinality(Drawn(n) \cup W) \in Nat
           /\ Cardinality(Drawn(n) \cup W) <= Cardinality(Drawn(n)) + Cardinality(W)
      <4>1. /\ IsFiniteSet(Drawn(n) \cup W)
            /\ Cardinality(Drawn(n) \cup W)
               = Cardinality(Drawn(n)) + Cardinality(W) - Cardinality(Drawn(n) \cap W)
        BY <3>7, <3>9, FS_Union
      <4>2. Cardinality(Drawn(n) \cap W) \in Nat
        <5>1. Drawn(n) \cap W \subseteq 1 .. Windows BY <3>8
        <5> QED BY <5>1, WindowsFinite
      <4>3. Cardinality(Drawn(n) \cup W) \in Nat BY <4>1, FS_CardinalityType
      <4> QED BY <3>7, <3>9, <4>1, <4>2, <4>3
    <3> DEFINE all == (Drawn(n) \cup W) \cup {w}
    <3>11. Cardinality(all) \in Nat /\ Cardinality(all) <= Cardinality(Drawn(n) \cup W) + 1
      <4>1. /\ IsFiniteSet(all)
            /\ Cardinality(all) = IF w \in Drawn(n) \cup W THEN Cardinality(Drawn(n) \cup W)
                                  ELSE Cardinality(Drawn(n) \cup W) + 1
        BY <3>10, FS_AddElement
      <4>2. Cardinality(all) \in Nat BY <4>1, FS_CardinalityType
      <4> HIDE DEF all
      <4> QED BY <3>10, <4>1, <4>2
    <3>12. Reached(n)' \subseteq all /\ all \subseteq 1 .. Windows
      BY <1>5, <3>6, <3>8 DEF Reached
    <3> HIDE DEF all
    <3>13. Cardinality(Reached(n)') \in Nat /\ Cardinality(Reached(n)') <= Cardinality(all)
      BY <3>12, WindowsFinite
    <3> QED BY <1>4, <3>2, <3>3, <3>7, <3>9, <3>10, <3>11, <3>13, SpellsAssumption
  <2> QED BY <2>2, <2>3
<1> QED BY <1>4, <1>9, <1>10 DEF Pace, Within

\* A commit draws what was in flight.
LEMMA PaceCommit ==
  ASSUME Types, Book, Pace, Spent \in Nat, Spent' = Spent, NEW s \in Sweepers, SweepCommit(s)
  PROVE  Pace'
<1> DEFINE b == sweep[s].batch
<1>1. /\ sweep' = [sweep EXCEPT ![s] = Resting]
      /\ b \in SUBSET Items
      /\ \A x \in Items :
           ledger'[x] = IF x \in b THEN [status |-> "sent", key |-> DigestKey(b)]
                        ELSE IF x \in Inserted(s) THEN sweep[s].entry[x] ELSE ledger[x]
  BY CommitMoves
<1>2. /\ sweep'[s].seen = {} /\ Inserted(s)' = {}
      /\ \A r \in Sweepers \ {s} : sweep'[r] = sweep[r]
  BY <1>1, RestsMoves
<1>3. \A r \in Sweepers : Flight(r)' \subseteq Flight(r)
  <2>1. Flight(s)' \subseteq Flight(s) BY <1>2 DEF Flight
  <2> QED BY <1>2, <2>1, FlightShrinks
<1> HIDE DEF b
<1>4. ASSUME NEW x \in Items, ledger'[x] # NoEntry, ledger[x] = NoEntry PROVE x \in Inserted(s)
  <2>1. CASE x \in b
    <3>1. sweep[s].entry[x].status = "queued" BY <1>4, <2>1, NoEntryTyped DEF Book, Held, b
    <3> QED BY <3>1, NoEntryTyped DEF Inserted
  <2>2. CASE x \notin b BY <1>1, <1>4, <2>2
  <2> QED BY <2>1, <2>2
<1>5. ASSUME NEW n \in 1 .. Spells, NEW w \in Drawn(n)' PROVE w \in Reached(n)
  <2>1. w \in 1 .. Windows /\ ledger'[<<n, w>>] # NoEntry BY <1>5 DEF Drawn
  <2>2. <<n, w>> \in Nudges /\ <<n, w>> \in Items BY <2>1 DEF Nudges, Items
  <2>3. CASE ledger[<<n, w>>] # NoEntry BY <2>1, <2>3 DEF Reached, Drawn
  <2>4. CASE ledger[<<n, w>>] = NoEntry
    <3>1. <<n, w>> \in Flight(s) BY <1>4, <2>1, <2>2, <2>4 DEF Flight
    <3> QED BY <2>1, <3>1 DEF Reached, InFlight
  <2> QED BY <2>3, <2>4
<1>6. \A n \in 1 .. Spells : Drawn(n)' \subseteq Reached(n) BY <1>5
<1> QED BY <1>3, <1>6, PaceQuiet

\* No step draws a nudge too many, or puts one in flight.
LEMMA PaceStep ==
  ASSUME Types, Book, Overlapped, Pace, [Next]_vars
  PROVE  Pace'
<1>0. sweep \in [Sweepers -> Txns] /\ Spent \in Nat /\ Spent' \in Nat /\ Spent <= Spent'
  BY SpentGrows DEF Types, TypeOK, Txns
<1>1. ASSUME ledger' = ledger, \A s \in Sweepers : Flight(s)' \subseteq Flight(s) PROVE Pace'
  <2>1. \A n \in 1 .. Spells : Drawn(n)' \subseteq Reached(n) BY <1>1 DEF Drawn, Reached
  <2> QED BY <1>0, <1>1, <2>1, PaceQuiet
<1>2. CASE UNCHANGED vars \/ World
  <2>1. ledger' = ledger /\ sweep' = sweep BY <1>2, WorldMoves DEF vars
  <2>2. \A s \in Sweepers : Flight(s)' \subseteq Flight(s) BY <2>1 DEF Flight, Inserted
  <2> QED BY <1>1, <2>1, <2>2
<1>3. ASSUME NEW x \in Items, Resend(x) PROVE Pace'
  <2>1. /\ sweep' = sweep /\ ledger[x] # NoEntry
        /\ \A y \in Items \ {x} : ledger'[y] = ledger[y]
    BY <1>3, ResendMoves
  <2>2. \A n \in 1 .. Spells : \A w \in 1 .. Windows :
          ledger'[<<n, w>>] # NoEntry => ledger[<<n, w>>] # NoEntry
    BY <2>1 DEF Items, Nudges
  <2>3. \A n \in 1 .. Spells : Drawn(n)' \subseteq Reached(n) BY <2>2 DEF Drawn, Reached
  <2>4. \A s \in Sweepers : Flight(s)' \subseteq Flight(s) BY <2>1 DEF Flight, Inserted
  <2> QED BY <1>0, <2>3, <2>4, PaceQuiet
<1>4. ASSUME NEW s \in Sweepers, NEW t \in Txns, sweep' = [sweep EXCEPT ![s] = t],
             ledger' = ledger, t.seen = {},
             \A x \in Items : t.entry[x] # NoEntry => x \in sweep[s].seen \/ x \in Inserted(s)
      PROVE  Pace'
  <2>1. sweep'[s] = t /\ \A r \in Sweepers \ {s} : sweep'[r] = sweep[r] BY <1>0, <1>4
  <2>2. Flight(s)' \subseteq Flight(s) BY <1>4, <2>1 DEF Flight, Inserted
  <2>3. \A r \in Sweepers : Flight(r)' \subseteq Flight(r) BY <2>1, <2>2, FlightShrinks
  <2> QED BY <1>1, <1>4, <2>3
<1>5. ASSUME NEW s \in Sweepers, SweepStart(s) PROVE Pace'
  <2>1. PICK t \in Txns : /\ sweep' = [sweep EXCEPT ![s] = t] /\ t.seen = {}
                          /\ \A x \in Items : t.entry[x] = NoEntry
    BY <1>5, SweepMoves
  <2>2. ledger' = ledger BY <1>5 DEF SweepStart
  <2> QED BY <1>4, <2>1, <2>2
<1>6. ASSUME NEW s \in Sweepers, SweepDetect(s) PROVE Pace' BY <1>6, PaceDetect
<1>7. ASSUME NEW s \in Sweepers, SweepRecord(s) PROVE Pace'
  <2>1. PICK t \in Txns : /\ sweep' = [sweep EXCEPT ![s] = t] /\ t.seen = {}
                          /\ \A x \in Items :
                               t.entry[x] = IF x \in New(s) THEN Decide(s, x) ELSE NoEntry
    BY <1>7, SweepMoves
  <2>2. ledger' = ledger BY <1>7 DEF SweepRecord
  <2>3. \A x \in Items : t.entry[x] # NoEntry => x \in sweep[s].seen BY <2>1 DEF New
  <2> QED BY <1>4, <2>1, <2>2, <2>3
<1>8. ASSUME NEW s \in Sweepers, SweepGather(s) PROVE Pace'
  <2>1. PICK t \in Txns : /\ sweep' = [sweep EXCEPT ![s] = t] /\ t.seen = sweep[s].seen
                          /\ t.entry = sweep[s].entry
    BY <1>8, SweepMoves
  <2>2. ledger' = ledger /\ sweep[s].pc = "recorded" BY <1>8 DEF SweepGather
  <2>3. t.seen = {} BY <2>1, <2>2 DEF Book, Phases
  <2>4. \A x \in Items : t.entry[x] # NoEntry => x \in Inserted(s) BY <2>1 DEF Inserted
  <2> QED BY <1>4, <2>1, <2>2, <2>3, <2>4
<1>9. ASSUME NEW s \in Sweepers, SweepCommit(s) PROVE Pace'
  <2>1. Spent' = Spent BY <1>9 DEF SweepCommit, limits, Spent
  <2> QED BY <1>0, <1>9, <2>1, PaceCommit
<1>10. ASSUME NEW s \in Sweepers, SweepAborts(s) PROVE Pace'
  <2>1. sweep' = [sweep EXCEPT ![s] = Resting] /\ ledger' = ledger BY <1>10 DEF SweepAborts
  <2> QED BY <1>4, <2>1, RestingTyped
<1> QED BY <1>2, <1>3, <1>5, <1>6, <1>7, <1>8, <1>9, <1>10, NextCases

\* At the start no nudge is drawn or in flight.
LEMMA PaceInit ==
  ASSUME Init
  PROVE  Pace
<1>1. \A s \in Sweepers : Flight(s) = {} BY RestingTyped DEF Init, Flight, Inserted, Nudges, Items
<1>2. ASSUME NEW n \in 1 .. Spells PROVE Cardinality(Reached(n)) <= MaxNudges + Spent
  <2>1. \A w \in 1 .. Windows : ledger[<<n, w>>] = NoEntry BY DEF Init, Items, Nudges
  <2>2. Reached(n) = {} BY <1>1, <2>1 DEF Reached, Drawn, InFlight
  <2>3. Cardinality(Reached(n)) = 0 BY <2>2, FS_EmptySet
  <2>4. Spent = 0
    <3>1. "overlap" \in Acts BY DEF Acts
    <3> QED BY <3>1, BudgetAssumption DEF Init, Spent
  <2> QED BY <2>3, <2>4, SpellsAssumption
<1> QED BY <1>1, <1>2 DEF Pace, OneNudge, Within

\* The rows drawn are among those reached.
LEMMA PaceSuffices ==
  ASSUME Types, Pace
  PROVE  NudgesBounded
<1>0. Spent \in Nat
  <2>1. "overlap" \in Acts BY DEF Acts
  <2> QED BY <2>1, BudgetAssumption DEF Types, TypeOK, Spent
<1>1. ASSUME NEW n \in 1 .. Spells PROVE Cardinality(Drawn(n)) <= MaxNudges + Spent
  <2>1. Drawn(n) \subseteq Reached(n) /\ Reached(n) \subseteq 1 .. Windows
    BY DEF Reached, Drawn, InFlight
  <2>2. /\ Cardinality(Drawn(n)) \in Nat /\ Cardinality(Reached(n)) \in Nat
        /\ Cardinality(Drawn(n)) <= Cardinality(Reached(n))
    BY <2>1, WindowsFinite
  <2>3. Cardinality(Reached(n)) <= MaxNudges + Spent BY DEF Pace, Within
  <2> QED BY <1>0, <2>2, <2>3, SpellsAssumption
<1> QED BY <1>1 DEF NudgesBounded, Nudged, Drawn, Spent

-----------------------------------------------------------------------------
IInv == Types /\ Book /\ Mail /\ Pace

\* The invariant: types, open transactions, messages and nudges.
THEOREM Invariance == Spec => []IInv
<1>1. Init => IInv BY TypesInit, BookInit, MailInit, PaceInit DEF IInv
<1>2. IInv /\ [Next]_vars => IInv' BY TypesStep, BookStep, MailStep, PaceStep DEF IInv, Mail
<1> QED BY <1>1, <1>2, PTL DEF Spec

\* However sweeps overlap, fail and are repeated, whenever hours and windows end, and
\* whatever preferences and resends come between their steps: what the ledger calls sent is
\* in the message it names, and an occurrence mailed twice, or a spell's nudge over its
\* share, is the doing of an overlap, one for each.
THEOREM LedgerAlwaysTrue == Spec => []LedgerTrue
<1>1. IInv => LedgerTrue BY MailSuffices, PaceSuffices DEF IInv, LedgerTrue, Mail
<1> QED BY <1>1, Invariance, PTL
=============================================================================
