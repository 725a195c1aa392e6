--------------------------- MODULE MCCancelClicks ---------------------------
(* One build and one click on Cancel, at any moment of it.                 *)
EXTENDS CancelClicks
=============================================================================
