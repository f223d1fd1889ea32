------------------------- MODULE MCComposedReadings -------------------------
(***************************************************************************)
(* Every query, on every machine; readings.cfg gives the bounds.           *)
(***************************************************************************)
EXTENDS ComposedReadings
=============================================================================
