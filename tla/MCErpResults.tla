---------------------------- MODULE MCErpResults ----------------------------
(* Small instances of ErpResults for TLC.                                  *)
EXTENDS ErpResults

NoActs == [a \in Acts |-> 0]

\* A repeated application, mailed invitations, resets and a deadline around one
\* applicant's sittings, with every page ever opened still open.
SittingActs == [NoActs EXCEPT !["apply"] = 1, !["invite"] = 1, !["reset"] = 2, !["late"] = 1]

\* A retried registration, a reset and a re-banding while the sweep delivers.
DeliveryActs == [NoActs EXCEPT !["erp"] = 2, !["reset"] = 1, !["reband"] = 1]

SittingOrDelivery == {SittingActs, DeliveryActs}
=============================================================================
