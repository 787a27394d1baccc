-------------------------- MODULE CharacterStream --------------------------
(***************************************************************************)
(* What the two firmwares that print promise whoever listens on the wire:  *)
(* the characters of a text, one after the other, the text again and again *)
(* without end, and none of them lost, repeated or out of place.           *)
(***************************************************************************)
EXTENDS Naturals

CONSTANT Characters    \* length of the text

\* The position in the text of the last character on the wire, and a bit that
\* tells one character on the wire from the next.
VARIABLES char, frame

streamVars == <<char, frame>>

\* Before the first character: as if a text had just ended.
Quiet == char = Characters - 1 /\ frame = 0
Advance == char' = (char + 1) % Characters /\ frame' = 1 - frame

InOrder == Quiet /\ [][Advance]_streamVars
Stream  == InOrder /\ WF_streamVars(Advance)
=============================================================================
