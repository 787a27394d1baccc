---------------------------- MODULE MCClockTests ----------------------------
(***************************************************************************)
(* Instances of ClockTests for TLC.  2^32 is scaled down to a word that    *)
(* TLC's integers can hold times 1000, and the host's seconds wrap in the  *)
(* middle of the test.                                                     *)
(***************************************************************************)
EXTENDS ClockTests

ScaledWord  == 1048576
LateEpoch   == ScaledWord - 4

\* Reading delays that vary by less, by exactly and by more than the 40 ms
\* tolerated, at phases where they do and do not carry an answer into the next
\* second, with clocks that are right, a little wrong and very wrong.
JitteryHosts ==
    [phase : {0, 5, 600, 945, 999}, rate : {950, 960, 1000, 1030, 1300},
     before : {{0, 20, 40, 55}}, after : {{0, 15}}, lossy : {FALSE}]

\* Calls that fail, and lines that fill none, one or several of the timer's
\* periods, up to the longest the calibration tries.  After a call of three
\* seconds the next reads the second Word - 1.
SlowHosts ==
    [phase : {0, 997}, rate : {1000, 1030}, before : {{10}},
     after : {{0, 1000, 3000, 7500, 8000}}, lossy : {TRUE}]

\* Both at once.
LossyHosts ==
    [phase : {945}, rate : {1000}, before : {{0, 40}}, after : {{15, 1000}},
     lossy : {TRUE}]

\* Clocks that race or crawl, with a jitter that makes up for some of it: the
\* one of 1380 can pass testTimekeeping.
RacingHosts ==
    [phase : {0, 600}, rate : {800, 1380, 2000}, before : {{0, 300, 600, 800}},
     after : {{5}}, lossy : {FALSE}]

SomeHosts == JitteryHosts \cup SlowHosts \cup LossyHosts \cup RacingHosts
=============================================================================
