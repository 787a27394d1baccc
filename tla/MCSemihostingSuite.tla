------------------------- MODULE MCSemihostingSuite -------------------------
(***************************************************************************)
(* Instances of SemihostingSuite for TLC.                                  *)
(***************************************************************************)
EXTENDS SuiteRefinement

\* A host whose calls never fail, or one that may be of either mood.
Steady    == {"steady"}
EveryMood == {"steady", "flaky"}
\* A correct host.
NoRegressions == {}
\* Every misbehaviour at once in the choice of Init and Reset.
EveryRegression == AllRegressions
\* The one misbehaviour the comment at semihosting.cxx:361 is about.
ForgetsClose == {"closeRead"}
=============================================================================
