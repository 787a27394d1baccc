--------------------------- MODULE MCHostConsole ---------------------------
(***************************************************************************)
(* Instances of HostConsole for TLC: integers of ten bits, every one of    *)
(* them printed, signed and unsigned, between two texts as the callers do. *)
(***************************************************************************)
EXTENDS HostConsole

TenBits == 1024
Four    == <<1, 10, 100, 1000>>
Longest == 63
Say     == Text(6, FALSE)

\* host.error("... "sv, number), and two numbers in a line.
NumberLines == {<<Say, i>> : i \in Ints}
    \cup {<<Say, Signed(-512), Say, Unsigned(1023)>>}
\* semihosting.cxx:396-397, when the host calls a code an error.
EmptyLines  == {<<Say, Unsigned(3), Say, Text(0, FALSE), Say, Say, Say>>}
=============================================================================
