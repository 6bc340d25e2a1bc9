----------------------------- MODULE MCBilling -----------------------------
(* Billing with a shop whose prices include VAT, one whose prices exclude it *)
(* and one that is not registered, with the three kinds of deposit.          *)
EXTENDS Billing

Including == [registered |-> TRUE, rate |-> 1600, inclusive |-> TRUE, credited |-> TRUE,
              rule |-> "percent", deposit |-> 3300, min |-> 0, markup |-> 1000, fee |-> 50000]
Excluding == [registered |-> TRUE, rate |-> 1600, inclusive |-> FALSE, credited |-> FALSE,
              rule |-> "fixed", deposit |-> 200000, min |-> 0, markup |-> 0, fee |-> 0]
Unregistered == [registered |-> FALSE, rate |-> 1600, inclusive |-> TRUE, credited |-> TRUE,
                 rule |-> "percent", deposit |-> 5000, min |-> 350000, markup |-> 500,
                 fee |-> 50000]
MCShops == {Including, Excluding, Unregistered}
=============================================================================
