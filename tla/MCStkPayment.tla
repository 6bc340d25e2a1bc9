---------------------------- MODULE MCStkPayment ----------------------------
(* StkPayment with interchangeable attempts.                                 *)
EXTENDS StkPayment, TLC

CONSTANTS p1, p2

TwoPayments == {p1, p2}
OnePayment == {p1}
Symmetry == Permutations(TwoPayments)

=============================================================================
