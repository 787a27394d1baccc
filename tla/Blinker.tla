------------------------------ MODULE Blinker ------------------------------
(***************************************************************************)
(* What a blinking firmware promises whoever watches its LED: dark until   *)
(* the blinking starts, then on and off for ever, each time for exactly    *)
(* the length of the delay loop.  A reset darkens the LED and starts over. *)
(***************************************************************************)
EXTENDS Naturals

CONSTANT Delay    \* iterations of the delay loop

VARIABLES lit, held

blinkerVars == <<lit, held>>

Dark    == lit = FALSE /\ held = Delay
Hold    == held < Delay /\ held' = held + 1 /\ UNCHANGED lit
Flip    == held = Delay /\ held' = 0 /\ lit' = ~lit
Darken  == lit' = FALSE /\ held' = Delay

Blinking == Dark /\ [][Hold \/ Flip \/ Darken]_blinkerVars
=============================================================================
