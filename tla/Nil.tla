---------------------------------- MODULE Nil ----------------------------------
(* What the components write where the code has None.                       *)
CONSTANT None
================================================================================
