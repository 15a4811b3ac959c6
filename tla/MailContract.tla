----------------------------- MODULE MailContract -----------------------------
(***************************************************************************)
(* What a transactional outbox promises to the code that writes intents    *)
(* into it: an intent is settled only after the transport accepted a copy  *)
(* of it, or after delivery was given up; a given-up intent can be         *)
(* revived; and a copy beyond the first is paid for by a fault (a worker   *)
(* that died, a reply that was lost) that happened since the first.        *)
(***************************************************************************)
EXTENDS Naturals

CONSTANT Messages

VARIABLES
  intent,   \* [Messages -> {"none", "pending", "sent", "failed"}]
  copies,   \* [Messages -> number of copies the transport has accepted]
  faults    \* faults so far

Init == /\ intent = [m \in Messages |-> "none"]
        /\ copies = [m \in Messages |-> 0]
        /\ faults = 0

\* The moves of one intent in a transaction that commits.
Moves(old, new, c) ==
  \/ old = "none" /\ new = "pending"
  \/ old = "pending" /\ new = "sent" /\ c > 0
  \/ old = "pending" /\ new = "failed"
  \/ old = "failed" /\ new \in {"pending", "failed"}
  \/ old = "failed" /\ new = "sent" /\ c > 0

Commit == /\ \A m \in Messages :
               intent'[m] = intent[m] \/ Moves(intent[m], intent'[m], copies[m])
          /\ UNCHANGED <<copies, faults>>

\* A copy is handed to the transport; if its reply is lost, that is a fault too.
Hand == \E m \in Messages :
  /\ intent[m] \in {"pending", "failed"}
  /\ copies[m] <= faults
  /\ copies' = [copies EXCEPT ![m] = @ + 1]
  /\ faults' \in {faults, faults + 1}
  /\ UNCHANGED intent

Fault == faults' = faults + 1 /\ UNCHANGED <<intent, copies>>

Next == Commit \/ Hand \/ Fault

Spec == Init /\ [][Next]_<<intent, copies, faults>>
=============================================================================
