--------------------------- MODULE MCPort80History ---------------------------
(***************************************************************************)
(* The port 80 readback on small instances; the .cfg files give the        *)
(* constants.  A ring of five entries needs three chunks of two, the last  *)
(* of them a partial one.                                                  *)
(***************************************************************************)
EXTENDS Port80History
=============================================================================
