------------------------------ MODULE MCScreens ------------------------------
(* Screens on the amounts of MCJobLifecycle.                                 *)
EXTENDS Screens, MCJobLifecycle

=============================================================================
