----------------------------- MODULE MCUsbSlots -----------------------------
(***************************************************************************)
(* Instances of the slot inventory: which occupants and which look-alikes  *)
(* the machine of a run has.                                               *)
(***************************************************************************)
EXTENDS UsbSlots

\* Nothing, a card that does not enumerate, one whose display is off, and one card
\* of each confidence.
Mixed == {"Empty", "Passthrough", "IdleHid", HidCard, "Audio", "Ssd", "UsbA"}

\* Without that one, with the anonymous display card and a second generic card.
Steady == (Mixed \ {"IdleHid"}) \cup {"Display", "Ethernet"}

Dock == {"UsbA", "Ethernet", "Audio"}
=============================================================================
