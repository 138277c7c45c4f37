-------------------------------- MODULE Page --------------------------------
(* What the modules about pages share: the wallet connected, and the         *)
(* requests a page has under way, each at its next await.                    *)
EXTENDS Web

VARIABLES
  wallet,  \* connected, or None
  request  \* what each request is about, or None
=============================================================================
