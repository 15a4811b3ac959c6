---------------------------- MODULE MCAdmissions ----------------------------
(* Small instances of Admissions for TLC.                                  *)
EXTENDS Admissions, TLC

CONSTANTS r1, r2

NoActs == [a \in Acts |-> 0]

\* Administrators moving an applicant while two portal requests overlap; or an
\* applicant who applies again, is invited again or reset meanwhile.
EnrolmentActs ==
  {[NoActs EXCEPT !["move"] = 3, !["close"] = 1, !["task"] = 1, !["reopen"] = 1],
   [NoActs EXCEPT !["apply"] = 1, !["invite"] = 1],
   [NoActs EXCEPT !["invite"] = 1, !["reset"] = 1, !["late"] = 1]}

Interchangeable == Permutations(Requests)
=============================================================================
