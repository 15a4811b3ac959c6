------------------------------- MODULE Reminders -------------------------------
(***************************************************************************)
(* The reminder policy for one learner: the sweep that turns occurrences   *)
(* (a deadline, a grade, a certificate, a week without activity) into rows *)
(* of the ledger reminder_log, mails some at once, holds others for a      *)
(* digest, and flushes what it held when the learner's hour comes.         *)
(*                                                                         *)
(* A sweep is one transaction: it fixes its now, reads the learner, inserts *)
(* its ledger rows, gathers the held ones, and commits. The learner saves  *)
(* preferences, works again or is suspended, an administrator resends, time *)
(* passes, and a sweep started by hand overlaps the timer's, between any    *)
(* two steps.                                                              *)
(*                                                                         *)
(* Simplified: every occurrence is of its own event kind; a digest is      *)
(* daily or weekly by the hour it waits for; in-app notifications, titles  *)
(* and links are left out; a message is the set of occurrences it carries. *)
(***************************************************************************)
EXTENDS Naturals, FiniteSets

CONSTANTS
  Occurrences,   \* dated occurrences, each of its own event kind
  Spells,        \* spells without activity; after the last the learner stays active
  Windows,       \* inactivity windows one spell may last
  MaxNudges,     \* inactivity reminders one spell may draw (4 in the source)
  Hours,         \* hours of the day
  Quiet,         \* the learner's quiet hours
  Digest,        \* the hour of digests
  Sweepers,      \* processes that may run reminders-sweep
  Timer,         \* the one that systemd starts every five minutes
  Budget,        \* [Acts -> how often each may happen]
  Disturbances   \* how many of them may happen in all

Acts == {"abort", "overlap", "resend", "prefs", "person"}

ASSUME BudgetAssumption == Budget \in [Acts -> Nat] /\ Disturbances \in Nat
ASSUME HoursAssumption == Hours \in Nat \ {0} /\ Digest \in 0 .. Hours - 1 /\ Timer \in Sweepers
ASSUME SpellsAssumption == Spells \in Nat \ {0} /\ Windows \in Nat /\ MaxNudges \in Nat

VARIABLES
  happens,   \* occurrences there are, in the tables a sweep reads
  spell,     \* the learner's spell without activity and the windows elapsed in it
  person,    \* the learner: may be mailed or not, frequency, opt-outs
  clock,     \* the hour of the day
  ledger,    \* reminder_log: [Items -> status and outbox key]
  mails,     \* email_outbox: messages, with the occurrences they carry
  sweep,     \* [Sweepers -> the open transaction]
  budget,    \* what is left of Budget
  calm       \* what is left of Disturbances

vars == <<happens, spell, person, clock, ledger, mails, sweep, budget, calm>>
world == <<happens, spell, person, clock>>
limits == <<budget, calm>>

-----------------------------------------------------------------------------
(* Ledger rows and outbox keys.                                            *)

\* An inactivity reminder is keyed on the spell and the elapsed window.
Nudges == (1 .. Spells) \X (1 .. Windows)
Items == Occurrences \cup Nudges

ASSUME OccurrencesAssumption == Occurrences \cap Nudges = {}

Kinds == Occurrences \cup {"inactivity"}
KindOf(x) == IF x \in Nudges THEN "inactivity" ELSE x

Single(x) == <<"reminder", {x}, 0>>
Resent(x, n) == <<"resend", {x}, n>>

\* Mutant: one key per hour and person, whatever the batch holds.
DigestKey_Hourly(batch) == <<"digest", Items, 0>>

\* A digest is keyed on a hash of the ledger rows in it.
DigestKey(batch) == <<"digest", batch, 0>>

Keys == {Single(x) : x \in Items}
        \cup {Resent(x, n) : x \in Items, n \in 1 .. Budget["resend"]}
        \cup {DigestKey(b) : b \in SUBSET Items}

NoKey == <<"none", {}, 0>>

Entry == [status : {"none", "queued", "sent", "skipped"}, key : Keys \cup {NoKey}]
NoEntry == [status |-> "none", key |-> NoKey]

Frequencies == {"immediate", "digest"}
Person == [active : BOOLEAN, freq : Frequencies, optouts : SUBSET Kinds]
Clock == 0 .. Hours - 1

Spend(a) == /\ calm > 0 /\ calm' = calm - 1
            /\ budget[a] > 0 /\ budget' = [budget EXCEPT ![a] = @ - 1]

-----------------------------------------------------------------------------
(* The sweep.                                                              *)

\* A sweep began in hour and spell, has read pref, detected seen, inserted entry,
\* gathered batch.
FirstSpell == [number |-> 1, window |-> 0]
Nobody == [active |-> FALSE, freq |-> "immediate", optouts |-> {}]
Resting == [pc |-> "idle", hour |-> 0, spell |-> FirstSpell, seen |-> {}, pref |-> Nobody,
            entry |-> [x \in Items |-> NoEntry], batch |-> {}]

Between == \A s \in Sweepers : sweep[s].pc = "idle"

Inserted(s) == {x \in Items : sweep[s].entry[x] # NoEntry}

\* Only an active learner is swept. What the sweep calls now is its start.
SweepStart(s) ==
  /\ sweep[s].pc = "idle" /\ person.active
  /\ \/ Between /\ UNCHANGED limits
     \/ ~Between /\ Spend("overlap")
  /\ sweep' = [sweep EXCEPT ![s] = [Resting EXCEPT !.pc = "started", !.hour = clock, !.spell = spell]]
  /\ UNCHANGED <<world, ledger, mails>>

\* Mutant: the spell's earlier windows are not counted.
Drawn_ThisWindow(n) == {w \in {spell.window} : ledger[<<n, w>>] # NoEntry}

\* Ledger rows that inactivity spell n has drawn, whatever became of them.
Drawn(n) == {w \in 1 .. Windows : ledger[<<n, w>>] # NoEntry}

\* A learner who was active since the start is not inactive at the sweep's now.
Nudge(s) == <<sweep[s].spell.number, sweep[s].spell.window>>
StillInactive(s) == spell.number = sweep[s].spell.number

\* _detect_events: the occurrences there are, and a nudge for the window of the
\* sweep's now, in a spell whose committed rows are not its share yet.
Detected(s) ==
  happens \cup {x \in Nudges : /\ x = Nudge(s) /\ StillInactive(s)
                               /\ Cardinality(Drawn(x[1])) < MaxNudges}

SweepDetect(s) ==
  /\ sweep[s].pc = "started"
  /\ sweep' = [sweep EXCEPT ![s].pc = "detected", ![s].pref = person,
                            ![s].seen = Detected(s), ![s].spell = FirstSpell]
  /\ UNCHANGED <<world, ledger, mails, limits>>

InQuietHours(s) == sweep[s].hour \in Quiet
DigestDue(s) == sweep[s].pref.freq = "digest" /\ sweep[s].hour = Digest

MailsNow(s) == sweep[s].pref.freq = "immediate" /\ ~InQuietHours(s)

\* Mutant: a held reminder names its outbox key before it has a message.
Decide_KeyedEarly(s, x) ==
  IF KindOf(x) \in sweep[s].pref.optouts THEN [status |-> "skipped", key |-> NoKey]
  ELSE IF MailsNow(s) THEN [status |-> "sent", key |-> Single(x)]
  ELSE [status |-> "queued", key |-> Single(x)]

\* Opted out: on neither channel. Immediate, and no quiet hours: mailed now.
Decide(s, x) ==
  IF KindOf(x) \in sweep[s].pref.optouts THEN [status |-> "skipped", key |-> NoKey]
  ELSE IF MailsNow(s) THEN [status |-> "sent", key |-> Single(x)]
  ELSE [status |-> "queued", key |-> NoKey]

\* Mutant: an occurrence with a queued or skipped row is recorded again.
New_Unsent(s) == {x \in sweep[s].seen : ledger[x].status # "sent"}

\* _record inserts nothing for an occurrence that has a ledger row.
New(s) == {x \in sweep[s].seen : ledger[x] = NoEntry}

\* The inserts wait for another transaction that has inserted the same row.
SweepRecord(s) ==
  /\ sweep[s].pc = "detected"
  /\ \A r \in Sweepers \ {s} : Inserted(r) \cap sweep[s].seen = {}
  /\ sweep' = [sweep EXCEPT ![s].pc = "recorded", ![s].seen = {},
                 ![s].entry = [x \in Items |-> IF x \in New(s) THEN Decide(s, x) ELSE NoEntry]]
  /\ UNCHANGED <<world, ledger, mails, limits>>

\* Mutant: a digest hour that falls into the quiet hours is passed over.
FlushDue_NotQuiet(s) ==
  (DigestDue(s) /\ ~InQuietHours(s)) \/ MailsNow(s)

\* The digest hour, or the first sweep outside the quiet hours.
FlushDue(s) == DigestDue(s) \/ MailsNow(s)

\* Rows this transaction sees as queued: committed ones and its own.
Queued(s) == {x \in Items : "queued" \in {ledger[x].status, sweep[s].entry[x].status}}

\* _flush_queued reads the queued rows.
SweepGather(s) ==
  /\ sweep[s].pc = "recorded"
  /\ sweep' = [sweep EXCEPT ![s].pc = "gathered", ![s].pref = Nobody,
                            ![s].batch = IF FlushDue(s) THEN Queued(s) ELSE {}]
  /\ UNCHANGED <<world, ledger, mails, limits>>

Immediate(s) == {x \in Items : sweep[s].entry[x].status = "sent"}

\* enqueue_email does nothing for a key that is taken.
Enqueue(key, items) ==
  IF \E m \in mails : m.key = key THEN {} ELSE {[key |-> key, items |-> items]}

\* Every gathered row is marked sent under the digest's key, taken or not.
SweepCommit(s) ==
  LET batch == sweep[s].batch IN
  /\ sweep[s].pc = "gathered"
  /\ ledger' = [x \in Items |->
       IF x \in batch THEN [status |-> "sent", key |-> DigestKey(batch)]
       ELSE IF x \in Inserted(s) THEN sweep[s].entry[x] ELSE ledger[x]]
  /\ mails' = mails \cup (UNION {Enqueue(Single(x), {x}) : x \in Immediate(s)})
                    \cup (IF batch = {} THEN {} ELSE Enqueue(DigestKey(batch), batch))
  /\ sweep' = [sweep EXCEPT ![s] = Resting]
  /\ UNCHANGED <<world, limits>>

\* An exception or a dead process: nothing of the sweep is kept.
SweepAborts(s) ==
  /\ sweep[s].pc # "idle" /\ Spend("abort")
  /\ sweep' = [sweep EXCEPT ![s] = Resting]
  /\ UNCHANGED <<world, ledger, mails>>

-----------------------------------------------------------------------------
(* The learner, the administrator and time.                                *)

SavePreference ==
  /\ Spend("prefs")
  /\ \E f \in Frequencies, out \in SUBSET Kinds :
       person' = [person EXCEPT !.freq = f, !.optouts = out]
  /\ UNCHANGED <<happens, spell, clock, ledger, mails, sweep>>

\* resend: a fresh outbox row for one ledger row, whatever its status.
Resend(x) ==
  LET key == Resent(x, budget["resend"]) IN
  /\ ledger[x] # NoEntry /\ Spend("resend")
  /\ mails' = mails \cup Enqueue(key, {x})
  /\ ledger' = [ledger EXCEPT ![x] = [status |-> "sent", key |-> key]]
  /\ UNCHANGED <<world, sweep>>

\* Suspended or dropped from the cohort, or back.
PersonChanges ==
  /\ Spend("person")
  /\ person' = [person EXCEPT !.active = ~@]
  /\ UNCHANGED <<happens, spell, clock, ledger, mails, sweep>>

Happens(o) ==
  /\ o \notin happens
  /\ happens' = happens \cup {o}
  /\ UNCHANGED <<spell, person, clock, ledger, mails, sweep, limits>>

\* The learner does something: the spell ends, and another may begin.
LearnerActive ==
  /\ spell.window > 0 /\ spell.number <= Spells
  /\ spell' = [number |-> spell.number + 1, window |-> 0]
  /\ UNCHANGED <<happens, person, clock, ledger, mails, sweep, limits>>

\* An inactivity window passes, whatever sweeps are open.
WindowPasses ==
  /\ spell.window < Windows /\ spell.number <= Spells
  /\ spell' = [spell EXCEPT !.window = @ + 1]
  /\ UNCHANGED <<happens, person, clock, ledger, mails, sweep, limits>>

\* An hour passes. A sweep is shorter than an hour and sees at most one pass.
HourPasses ==
  /\ \A s \in Sweepers : sweep[s].pc # "idle" => sweep[s].hour = clock
  /\ clock' = (clock + 1) % Hours
  /\ UNCHANGED <<happens, spell, person, ledger, mails, sweep, limits>>

Init ==
  /\ happens = {} /\ spell = FirstSpell
  /\ person \in [active : {TRUE}, freq : Frequencies, optouts : {{}}]
  /\ clock = 0
  /\ ledger = [x \in Items |-> NoEntry]
  /\ mails = {}
  /\ sweep = [s \in Sweepers |-> Resting]
  /\ budget = Budget /\ calm = Disturbances

Goes(s) == SweepDetect(s) \/ SweepRecord(s) \/ SweepGather(s) \/ SweepCommit(s)

Next ==
  \/ \E s \in Sweepers : SweepStart(s) \/ Goes(s) \/ SweepAborts(s)
  \/ \E x \in Items : Resend(x)
  \/ \E o \in Occurrences : Happens(o)
  \/ SavePreference \/ PersonChanges \/ LearnerActive \/ WindowPasses
  \/ HourPasses

\* The timer fires every five minutes, so each hour of the day sees a sweep
\* that starts in it; a sweep that has begun goes on.
Fairness ==
  /\ \A s \in Sweepers : WF_vars(Goes(s))
  /\ \A h \in Clock : SF_vars(clock = h /\ SweepStart(Timer))
  /\ SF_vars(HourPasses)

Spec == Init /\ [][Next]_vars
FairSpec == Spec /\ Fairness

-----------------------------------------------------------------------------
(* Properties.                                                             *)

\* Every variable has its type, and a ledger row names a message exactly when
\* it is sent (models.reminder and models.email_outbox).
TypeOK ==
  /\ happens \in SUBSET Occurrences
  /\ spell \in [number : 1 .. Spells + 1, window : 0 .. Windows]
  /\ person \in Person /\ clock \in Clock
  /\ ledger \in [Items -> Entry]
  /\ \A x \in Items : ledger[x].status = "sent" <=> ledger[x].key # NoKey
  /\ mails \in SUBSET [key : Keys, items : SUBSET Items]
  /\ sweep \in [Sweepers -> [pc : {"idle", "started", "detected", "recorded", "gathered"},
                              hour : Clock, spell : [number : 1 .. Spells + 1, window : 0 .. Windows],
                              seen : SUBSET Items, pref : Person,
                              entry : [Items -> Entry], batch : SUBSET Items]]
  /\ budget \in [Acts -> Nat] /\ calm \in Nat

\* A reminder the ledger calls sent is in the message whose key it names: no
\* batch is dropped because its key was taken (_flush_queued).
ReminderCarried ==
  \A x \in Items :
    ledger[x].status = "sent" => \E m \in mails : m.key = ledger[x].key /\ x \in m.items

\* Apart from resends, an occurrence is in at most one message, with one more
\* for each sweep that overlapped another, never both alone and in a digest,
\* and in none when it was recorded as opted out (sweep and _flush_queued).
MailedOnce ==
  \A x \in Items :
    LET carrying == {m.key : m \in {n \in mails : n.key[1] # "resend" /\ x \in n.items}}
    IN  /\ Cardinality(carrying) <= 1 + (Budget["overlap"] - budget["overlap"])
        /\ Single(x) \in carrying => carrying = {Single(x)}
        /\ ledger[x].status = "skipped" => carrying = {}

Nudged(n) == {w \in 1 .. Windows : ledger[<<n, w>>] # NoEntry}

\* "How many inactivity nudges one dormant spell may draw" (reminders.py:60). Not
\* so: two sweeps that overlap a window's end both count the committed rows
\* (_detect_events), and then insert the nudge of one window each (_record).
NudgesCapped == \A n \in 1 .. Spells : Cardinality(Nudged(n)) <= MaxNudges

\* A spell without activity draws at most one nudge over its share for each
\* sweep that overlapped another, however many windows it lasts and whenever
\* they end (_detect_events counts, and _record inserts later).
NudgesBounded ==
  \A n \in 1 .. Spells :
    Cardinality(Nudged(n)) <= MaxNudges + (Budget["overlap"] - budget["overlap"])

\* The ledger and the messages tell the same story: what is sent is carried,
\* and what is mailed twice or over the cap is the doing of an overlap.
LedgerTrue == ReminderCarried /\ MailedOnce /\ NudgesBounded

\* A reminder held for later is mailed, unless the learner is suspended or
\* leaves: no combination of frequency, quiet hours and digest hour, changed
\* in between, keeps it (the flush in sweep).
QueuedFlushed ==
  \A x \in Items : ledger[x].status = "queued" ~> ledger[x].status = "sent" \/ ~person.active
=============================================================================
