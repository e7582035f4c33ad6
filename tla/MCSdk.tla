-------------------------------- MODULE MCSdk --------------------------------
(***************************************************************************)
(* The SDK in two scenes, which keep the state space small:                *)
(*   "calls"     the application calls anything, nobody searches;          *)
(*   "searches"  other hosts search, while the application registers and   *)
(*               unregisters, and neither advertises nor calls             *)
(*               asynchronously.                                           *)
(* UpnpInit2 and UpnpFinish run in both.                                   *)
(***************************************************************************)
EXTENDS Sdk

VARIABLE scene

MCInit == Init /\ scene \in {"calls", "searches"}

MCNext ==
  /\ Next
  /\ UNCHANGED scene
  /\ scene = "calls" => UNCHANGED searches
  /\ scene = "searches" => UNCHANGED <<ads, req>>

MCSpec == MCInit /\ [][MCNext]_<<scene, vars>> /\ Fairness
=============================================================================
