---------------------------- MODULE MCEcControls ----------------------------
(* A small machine: two threads, two fans, a byte of two bits.             *)
EXTENDS EcControls

LowestI32 == -2
StatesOfCharge == {-1, 0}
=============================================================================
