--------------------------- MODULE MCJobLifecycle ---------------------------
(* JobLifecycle on amounts small enough to enumerate: one price of a quote   *)
(* with a deposit, and one without.                                          *)
EXTENDS JobLifecycle

OnePrice == {[deposit |-> 1, total |-> 2]}
NoDeposit == {[deposit |-> 0, total |-> 1]}
TwoPrices == OnePrice \cup NoDeposit

=============================================================================
