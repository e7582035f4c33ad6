---------------------------- MODULE MCGenaDevice ----------------------------
(* Constants for the model-checking runs of GenaDevice. *)
EXTENDS GenaDevice

Requests  == {0, Infinite}
=============================================================================
