-------------------------------- MODULE MCChat --------------------------------
(***************************************************************************)
(* A small instance of Chat for TLC: three messages of others, each told   *)
(* before the next is written, and two breaks.                             *)
(***************************************************************************)
EXTENDS Chat

MCBudgets == {[messages |-> 3, texts |-> 0, requests |-> 2, breaks |-> 2]}
==============================================================================
