-------------------------------- MODULE Web --------------------------------
(* Declared once for the modules that MCCommunity joins. *)
EXTENDS Absence

CONSTANTS
  Wallets,
  Requests  \* how many requests of a page, or of a reader, may be under way
=============================================================================
