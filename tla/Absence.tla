------------------------------ MODULE Absence ------------------------------
(* What stands in a variable where there is nothing: no row, no request, no  *)
(* wallet, no signal.  Declared once for the modules that MCCommunity joins. *)
CONSTANT None
=============================================================================
