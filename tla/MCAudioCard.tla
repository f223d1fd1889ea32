---------------------------- MODULE MCAudioCard ----------------------------
(***************************************************************************)
(* The audio-card readback on small instances; the .cfg files give the     *)
(* constants.                                                              *)
(***************************************************************************)
EXTENDS AudioCard
=============================================================================
