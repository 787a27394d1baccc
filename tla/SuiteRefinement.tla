--------------------------- MODULE SuiteRefinement ---------------------------
(***************************************************************************)
(* The semihosting test firmware implements SuiteContract.  The contract's *)
(* count of passed tests is read off the next system call: a call belongs  *)
(* to one of the thirteen tests in the order of testSemihosting().         *)
(***************************************************************************)
EXTENDS SemihostingSuite, FiniteSets

\* The system calls of the thirteen tests, in order.
TestCalls ==
    <<{"cmdline"},
      {"tty.closeIn", "tty.closeOut", "tty.openIn", "tty.openOut",
       "tty.isInTTY", "tty.isOutTTY"},
      {"features.open", "features.length", "features.magic", "features.byte",
       "features.close", "features.abort"},
      {"console.write", "console.write0", "console.writeC"},
      {"file.create", "file.write", "file.close", "file.writeClosed",
       "file.rename", "file.open", "file.length", "file.read", "file.isTTY",
       "file.closeRead", "file.readClosed", "file.remove"},
      {"isError"}, {"heapInfo"},
      {"errno.open", "errno.abort", "errno.first", "errno.second"},
      {"tickFrequency", "elapsed"}, {"tempName"}, {"timekeeping"}, {"intervals"},
      {"exit", "exitExtended"}>>

Testing == \E t \in DOMAIN TestCalls : pc \in TestCalls[t]

phaseNow ==
    CASE pc \in {"main.openIn", "main.openOut"}   -> "opening"
      [] Testing \/ pc = "passed"                 -> "testing"
      [] pc = "failed"                            -> "failed"
      [] pc \in {"main.closeIn", "main.closeOut"} -> "closing"
      [] pc = "halted"                            -> "parked"
      [] pc = "returned"                          -> "gone"

passedNow ==
    CASE Testing       -> (CHOOSE t \in DOMAIN TestCalls : pc \in TestCalls[t]) - 1
      [] pc = "passed" -> 13
      [] OTHER         -> 0

Promise == INSTANCE SuiteContract
    WITH Tests <- 13, phase <- phaseNow, passed <- passedNow, verdict <- verdict

\* The suite keeps its contract, its promise to go on included: every step of
\* the firmware is a step of the contract or leaves it as it is.
KeepsContract == Promise!Contract
=============================================================================
