-------------------------- MODULE StreamDirectory --------------------------
(***************************************************************************)
(* What stream discovery promises a reader, however the metadata got into  *)
(* the social graph: every stream it shows is active on chain, belongs to  *)
(* the wallet that registered it, and has the visibility and the tiers the *)
(* chain holds at that moment.  It may show less than there is.            *)
(***************************************************************************)
CONSTANTS Streams, Makers, Visibilities, TiersHashes, Readers, NoAccount

Registrations ==
  [authority : Makers, visibility : Visibilities, tiersHash : TiersHashes,
   active : BOOLEAN]

Entries ==
  [stream : Streams, ownerWallet : Makers, visibility : Visibilities,
   tiers : TiersHashes]

VARIABLES
  registered,  \* the registry account of each stream
  shown        \* the streams a reader was last answered with

vars == <<registered, shown>>

TypeOK ==
  /\ registered \in [Streams -> Registrations \cup {NoAccount}]
  /\ shown \in [Readers -> SUBSET Entries]

Init ==
  /\ registered = [s \in Streams |-> NoAccount]
  /\ shown = [r \in Readers |-> {}]

Active(s) == registered[s] # NoAccount /\ registered[s].active

Entry(s) ==
  [stream |-> s, ownerWallet |-> registered[s].authority,
   visibility |-> registered[s].visibility, tiers |-> registered[s].tiersHash]

(* An account is created or changed; the creator and the visibility of a   *)
(* registered stream are there to stay.                                     *)
Register(s) ==
  /\ registered'[s] \in Registrations
  /\ registered[s] # NoAccount =>
       /\ registered'[s].authority = registered[s].authority
       /\ registered'[s].visibility = registered[s].visibility
  /\ registered' = [registered EXCEPT ![s] = registered'[s]]
  /\ UNCHANGED shown

Show(r, streams) ==
  /\ \A s \in streams : Active(s)
  /\ shown' = [shown EXCEPT ![r] = {Entry(s) : s \in streams}]
  /\ UNCHANGED registered

Next ==
  \/ \E s \in Streams : Register(s)
  \/ \E r \in Readers, streams \in SUBSET Streams : Show(r, streams)

Spec == Init /\ [][Next]_vars
=============================================================================
