------------------------- MODULE MCComponentEnable --------------------------
(* ComponentEnable with the retry limit of the code.                       *)
EXTENDS ComponentEnable

=============================================================================
