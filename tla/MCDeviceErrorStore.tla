------------------------- MODULE MCDeviceErrorStore -------------------------
(***************************************************************************)
(* A small instance: a three-bit token, so that i32::MAX, i32::MIN and the *)
(* negative tokens beyond it are all reached inside one lap, and a store   *)
(* that is full, and evicting, well before the errors run out.             *)
(***************************************************************************)
EXTENDS DeviceErrorStore

\* Details that collide with live tokens, one of them clamped from a code that does
\* not fit an i32.
MCResponses == {2}
MCRawCodes == {9}
=============================================================================
