---------------------------- MODULE MCTimerThread ----------------------------
(* Constants for the model-checking runs of TimerThread. *)
EXTENDS TimerThread, TLC

Symmetry == Permutations(Client)
=============================================================================
