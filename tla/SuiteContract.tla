--------------------------- MODULE SuiteContract ---------------------------
(***************************************************************************)
(* What the semihosting test suite promises whoever watches it: the tests  *)
(* run one after the other, the first that fails is the last that runs,    *)
(* success is reported after all of them passed and only then, each run    *)
(* reports once, the report comes before the console is shut down, and     *)
(* unless the target is reset the run goes on to its end.                  *)
(***************************************************************************)
EXTENDS Naturals

CONSTANT Tests    \* how many tests there are

VARIABLES
    phase,     \* "opening", "testing", "failed", "closing", "parked" or "gone"
    passed,    \* tests passed so far, while testing
    verdict    \* what the run has reported

contractVars == <<phase, passed, verdict>>

Start == phase = "opening" /\ passed = 0 /\ verdict = "none"

Open ==
    /\ phase = "opening"
    /\ phase' \in {"testing", "gone"}
    /\ UNCHANGED <<passed, verdict>>

Pass ==
    /\ phase = "testing" /\ passed < Tests
    /\ passed' = passed + 1
    /\ UNCHANGED <<phase, verdict>>

Fail ==
    /\ phase = "testing" /\ passed < Tests
    /\ phase' = "failed" /\ passed' = 0
    /\ UNCHANGED verdict

Report ==
    /\ \/ phase = "testing" /\ passed = Tests /\ verdict' = "success"
       \/ phase = "failed" /\ verdict' = "failed"
    /\ phase' = "closing" /\ passed' = 0

Shutdown ==
    /\ phase = "closing"
    /\ phase' \in {"parked", "gone"}
    /\ UNCHANGED <<passed, verdict>>

Run == Open \/ Pass \/ Fail \/ Report \/ Shutdown

Restart == phase' = "opening" /\ passed' = 0 /\ verdict' = "none"

SafeContract == Start /\ [][Run \/ Restart]_contractVars
Contract     == SafeContract /\ WF_contractVars(Run)
=============================================================================
