--------------------------- MODULE MCClientFlows ---------------------------
(* An instance of ClientFlows for TLC. *)
EXTENDS ClientFlows, TLC

CONSTANTS m1, m2, alice, bob, wizard, form0, tool, seeder, page, swap, card, link, buyTool,
          server, keyPage, keySwap, keyTool, walletTool

MCWalletOf ==
  [c \in Clients |->
     CASE c \in {wizard, form0, seeder} -> m1 [] c = tool -> m2 [] OTHER -> alice]

Free == [price |-> 0, visibility |-> "public"]
Paid(p) == [price |-> p, visibility |-> "private"]

MCOffersOf ==
  [c \in Registrars |->
     CASE c = tool -> {Paid(1), [price |-> 1, visibility |-> "public"]}
       [] c = form0 -> {Paid(1)}
       [] c = seeder -> {Free}
       [] OTHER -> {Free, Paid(1)}]

MCCasts ==
  {{wizard, tool}, {form0, seeder}, {wizard, link, card}, {tool, buyTool, server},
   {tool, page, Direct}, {tool, swap}, {keyPage, keyTool}, {keySwap}, {walletTool},
   {tool, seeder}}

MCSymmetry == Permutations(Keys)
=============================================================================
