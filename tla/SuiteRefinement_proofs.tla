----------------------- MODULE SuiteRefinement_proofs -----------------------
(***************************************************************************)
(* The semihosting test firmware keeps the safety part of its contract and *)
(* runs out of steps, whatever the host does, for every set of file handles*)
(* and regressions, every loop length and any number of resets.            *)
(***************************************************************************)
EXTENDS SuiteRefinement, SuiteVerdict_proofs

(***************************************************************************)
(* The contract's state at each label of the firmware.                     *)
(***************************************************************************)
InTest(label) == \E t \in DOMAIN TestCalls : label \in TestCalls[t]

PhaseAt(label) ==
    CASE label \in {"main.openIn", "main.openOut"}   -> "opening"
      [] InTest(label) \/ label = "passed"           -> "testing"
      [] label = "failed"                            -> "failed"
      [] label \in {"main.closeIn", "main.closeOut"} -> "closing"
      [] label = "halted"                            -> "parked"
      [] label = "returned"                          -> "gone"

PassedAt(label) ==
    CASE InTest(label)     -> (CHOOSE t \in DOMAIN TestCalls : label \in TestCalls[t]) - 1
      [] label = "passed"  -> 13
      [] OTHER             -> 0

\* It is the state the refinement mapping gives.
LEMMA MappedByLabel ==
    /\ phaseNow = PhaseAt(pc) /\ passedNow = PassedAt(pc)
    /\ phaseNow' = PhaseAt(pc') /\ passedNow' = PassedAt(pc')
  BY DEF phaseNow, passedNow, PhaseAt, PassedAt, Testing, InTest

\* The tests by their number.
LEMMA CallsOfTests ==
    /\ DOMAIN TestCalls = 1 .. 13
    /\ TestCalls[1] = {"cmdline"}
    /\ TestCalls[2] = {"tty.closeIn", "tty.closeOut", "tty.openIn", "tty.openOut",
                       "tty.isInTTY", "tty.isOutTTY"}
    /\ TestCalls[3] = {"features.open", "features.length", "features.magic",
                       "features.byte", "features.close", "features.abort"}
    /\ TestCalls[4] = {"console.write", "console.write0", "console.writeC"}
    /\ TestCalls[5] = {"file.create", "file.write", "file.close", "file.writeClosed",
                       "file.rename", "file.open", "file.length", "file.read",
                       "file.isTTY", "file.closeRead", "file.readClosed", "file.remove"}
    /\ TestCalls[6] = {"isError"}
    /\ TestCalls[7] = {"heapInfo"}
    /\ TestCalls[8] = {"errno.open", "errno.abort", "errno.first", "errno.second"}
    /\ TestCalls[9] = {"tickFrequency", "elapsed"}
    /\ TestCalls[10] = {"tempName"}
    /\ TestCalls[11] = {"timekeeping"}
    /\ TestCalls[12] = {"intervals"}
    /\ TestCalls[13] = {"exit", "exitExtended"}
  BY DEF TestCalls

\* No call belongs to two tests.
LEMMA OneTest ==
    ASSUME NEW t \in 1 .. 13, NEW u \in 1 .. 13, NEW label \in TestCalls[t],
           label \in TestCalls[u]
    PROVE  t = u
  <1>1. t \in {1, 2, 3, 4, 5, 6, 7, 8, 9, 10, 11, 12, 13}
    OBVIOUS
  <1>2. u \in {1, 2, 3, 4, 5, 6, 7, 8, 9, 10, 11, 12, 13}
    OBVIOUS
  <1> QED
    BY <1>1, <1>2, CallsOfTests

\* During a test the contract counts the tests before it.
LEMMA CountedInTest ==
    ASSUME NEW t \in 1 .. 13, NEW label \in TestCalls[t]
    PROVE  PhaseAt(label) = "testing" /\ PassedAt(label) = t - 1
  <1>1. InTest(label)
    BY CallsOfTests DEF InTest
  <1>2. (CHOOSE u \in DOMAIN TestCalls : label \in TestCalls[u]) = t
    BY CallsOfTests, OneTest
  <1>3. label \notin {"main.openIn", "main.openOut", "passed", "failed", "main.closeIn",
                     "main.closeOut", "halted", "returned"}
    <2>1. t \in {1, 2, 3, 4, 5, 6, 7, 8, 9, 10, 11, 12, 13}
      OBVIOUS
    <2> QED
      BY <2>1, CallsOfTests
  <1>4. PhaseAt(label) = "testing"
    BY <1>1, <1>3 DEF PhaseAt
  <1>5. PassedAt(label) = t - 1
    BY <1>1, <1>2, <1>3 DEF PassedAt
  <1> QED
    BY <1>4, <1>5

\* Outside the tests it counts none, but at their end.
LEMMA CountedOutside ==
    /\ \A label \in {"main.openIn", "main.openOut"} :
          PhaseAt(label) = "opening" /\ PassedAt(label) = 0
    /\ PhaseAt("passed") = "testing" /\ PassedAt("passed") = 13
    /\ PhaseAt("failed") = "failed" /\ PassedAt("failed") = 0
    /\ \A label \in {"main.closeIn", "main.closeOut"} :
          PhaseAt(label) = "closing" /\ PassedAt(label) = 0
    /\ PhaseAt("halted") = "parked" /\ PassedAt("halted") = 0
    /\ PhaseAt("returned") = "gone" /\ PassedAt("returned") = 0
  <1>1. \A label \in {"main.openIn", "main.openOut", "passed", "failed", "main.closeIn",
                      "main.closeOut", "halted", "returned"} : ~InTest(label)
    <2> SUFFICES ASSUME NEW label \in {"main.openIn", "main.openOut", "passed", "failed",
                                       "main.closeIn", "main.closeOut", "halted", "returned"},
                        NEW t \in 1 .. 13, label \in TestCalls[t]
                 PROVE  FALSE
      BY CallsOfTests DEF InTest
    <2>1. t \in {1, 2, 3, 4, 5, 6, 7, 8, 9, 10, 11, 12, 13}
      OBVIOUS
    <2> QED
      BY <2>1, CallsOfTests
  <1> QED
    BY <1>1 DEF PhaseAt, PassedAt

-----------------------------------------------------------------------------
(***************************************************************************)
(* Every step is a step of the contract or leaves it as it is.             *)
(***************************************************************************)

\* A test goes on, fails, or passes and hands over to the next.
LEMMA TestByTest ==
    ASSUME Flow
    PROVE  \E t \in 1 .. 13 :
              /\ pc \in TestCalls[t]
              /\ \/ pc' \in TestCalls[t]
                 \/ pc' = "failed"
                 \/ t < 13 /\ pc' \in TestCalls[t + 1]
                 \/ t = 13 /\ pc' = "passed"
  <1> DEFINE GoesOn(t) ==
          /\ pc \in TestCalls[t]
          /\ \/ pc' \in TestCalls[t]
             \/ pc' = "failed"
             \/ t < 13 /\ pc' \in TestCalls[t + 1]
             \/ t = 13 /\ pc' = "passed"
  <1>1. CASE pc \in TestCalls[1]
    <2>1. GoesOn(1)
      BY <1>1, CallsOfTests DEF Flow
    <2> QED
      BY <2>1
  <1>2. CASE pc \in TestCalls[2]
    <2>1. GoesOn(2)
      BY <1>2, CallsOfTests DEF Flow
    <2> QED
      BY <2>1
  <1>3. CASE pc \in TestCalls[3]
    <2>1. GoesOn(3)
      BY <1>3, CallsOfTests DEF Flow
    <2> QED
      BY <2>1
  <1>4. CASE pc \in TestCalls[4]
    <2>1. GoesOn(4)
      BY <1>4, CallsOfTests DEF Flow
    <2> QED
      BY <2>1
  <1>5. CASE pc \in TestCalls[5]
    <2>1. GoesOn(5)
      BY <1>5, CallsOfTests DEF Flow
    <2> QED
      BY <2>1
  <1>6. CASE pc \in TestCalls[6]
    <2>1. GoesOn(6)
      BY <1>6, CallsOfTests DEF Flow
    <2> QED
      BY <2>1
  <1>7. CASE pc \in TestCalls[7]
    <2>1. GoesOn(7)
      BY <1>7, CallsOfTests DEF Flow
    <2> QED
      BY <2>1
  <1>8. CASE pc \in TestCalls[8]
    <2>1. GoesOn(8)
      BY <1>8, CallsOfTests DEF Flow
    <2> QED
      BY <2>1
  <1>9. CASE pc \in TestCalls[9]
    <2>1. GoesOn(9)
      BY <1>9, CallsOfTests DEF Flow
    <2> QED
      BY <2>1
  <1>10. CASE pc \in TestCalls[10]
    <2>1. GoesOn(10)
      BY <1>10, CallsOfTests DEF Flow
    <2> QED
      BY <2>1
  <1>11. CASE pc \in TestCalls[11]
    <2>1. GoesOn(11)
      BY <1>11, CallsOfTests DEF Flow
    <2> QED
      BY <2>1
  <1>12. CASE pc \in TestCalls[12]
    <2>1. GoesOn(12)
      BY <1>12, CallsOfTests DEF Flow
    <2> QED
      BY <2>1
  <1>13. CASE pc \in TestCalls[13]
    <2>1. GoesOn(13)
      BY <1>13, CallsOfTests DEF Flow
    <2> QED
      BY <2>1
  <1>14. \E t \in 1 .. 13 : pc \in TestCalls[t]
    <2>1. \/ pc \in TestCalls[1] \/ pc \in TestCalls[2] \/ pc \in TestCalls[3]
          \/ pc \in TestCalls[4] \/ pc \in TestCalls[5] \/ pc \in TestCalls[6]
          \/ pc \in TestCalls[7] \/ pc \in TestCalls[8] \/ pc \in TestCalls[9]
          \/ pc \in TestCalls[10] \/ pc \in TestCalls[11] \/ pc \in TestCalls[12]
          \/ pc \in TestCalls[13]
      BY CallsOfTests DEF Flow
    <2> QED
      BY <2>1
  <1>15. PICK t \in 1 .. 13 : pc \in TestCalls[t]
    BY <1>14
  <1>16. t \in {1, 2, 3, 4, 5, 6, 7, 8, 9, 10, 11, 12, 13}
    OBVIOUS
  <1> QED
    BY <1>1, <1>2, <1>3, <1>4, <1>5, <1>6, <1>7, <1>8, <1>9, <1>10, <1>11, <1>12, <1>13,
       <1>15, <1>16

\* A step of the contract, or none.
ContractStep == [Promise!Run \/ Promise!Restart]_(Promise!contractVars)

USE DEF Promise!Run, Promise!Restart, Promise!Open, Promise!Pass, Promise!Fail,
        Promise!Report, Promise!Shutdown, Promise!contractVars

\* A step of the tests.
LEMMA TestsKeepContract ==
    ASSUME TypeOK, testSemihosting
    PROVE  ContractStep
  <1>1. verdict' = verdict
    BY TestsKind, KindKeeps DEF run
  <1>2. PICK t \in 1 .. 13 :
          /\ pc \in TestCalls[t]
          /\ \/ pc' \in TestCalls[t]
             \/ pc' = "failed"
             \/ t < 13 /\ pc' \in TestCalls[t + 1]
             \/ t = 13 /\ pc' = "passed"
    BY TestsFlow, TestByTest
  <1>3. phaseNow = "testing" /\ passedNow = t - 1
    BY <1>2, MappedByLabel, CountedInTest
  <1>4. CASE pc' \in TestCalls[t]
    <2>1. phaseNow' = "testing" /\ passedNow' = t - 1
      BY <1>4, MappedByLabel, CountedInTest
    <2> QED
      BY <1>1, <1>3, <2>1 DEF ContractStep
  <1>5. CASE pc' = "failed"
    <2>1. phaseNow' = "failed" /\ passedNow' = 0
      BY <1>5, MappedByLabel, CountedOutside
    <2> QED
      BY <1>1, <1>3, <2>1 DEF ContractStep
  <1>6. CASE t < 13 /\ pc' \in TestCalls[t + 1]
    <2>1. t + 1 \in 1 .. 13 /\ (t + 1) - 1 = (t - 1) + 1
      BY <1>6
    <2>2. phaseNow' = "testing" /\ passedNow' = (t + 1) - 1
      BY <1>6, <2>1, MappedByLabel, CountedInTest
    <2> QED
      BY <1>1, <1>3, <1>6, <2>1, <2>2 DEF ContractStep
  <1>7. CASE t = 13 /\ pc' = "passed"
    <2>1. phaseNow' = "testing" /\ passedNow' = 13
      BY <1>7, MappedByLabel, CountedOutside
    <2> QED
      BY <1>1, <1>3, <1>7, <2>1 DEF ContractStep
  <1> QED
    BY <1>2, <1>4, <1>5, <1>6, <1>7

\* Opening the console.
LEMMA OpeningKeepsContract ==
    ASSUME mainOpenConsole
    PROVE  ContractStep
  <1>1. /\ pc \in {"main.openIn", "main.openOut"}
        /\ pc' \in {"main.openOut", "cmdline", "returned"}
        /\ verdict' = verdict
    BY DEF mainOpenConsole, OpenIn, OpenOut, run
  <1>2. phaseNow = "opening" /\ passedNow = 0
    BY <1>1, MappedByLabel, CountedOutside
  <1>3. "cmdline" \in TestCalls[1] /\ 1 \in 1 .. 13
    BY CallsOfTests
  <1>4. PhaseAt("cmdline") = "testing" /\ PassedAt("cmdline") = 0
    BY <1>3, CountedInTest
  <1>5. phaseNow' \in {"opening", "testing", "gone"} /\ passedNow' = 0
    BY <1>1, <1>4, MappedByLabel, CountedOutside
  <1> QED
    BY <1>1, <1>2, <1>5 DEF ContractStep

\* The report.
LEMMA ReportKeepsContract ==
    ASSUME mainReport
    PROVE  ContractStep
  <1>1. /\ pc \in {"passed", "failed"} /\ pc' = "main.closeIn"
        /\ verdict' = IF pc = "passed" THEN "success" ELSE "failed"
    BY DEF mainReport
  <1>2. phaseNow' = "closing" /\ passedNow' = 0
    BY <1>1, MappedByLabel, CountedOutside
  <1>3. CASE pc = "passed"
    <2>1. phaseNow = "testing" /\ passedNow = 13
      BY <1>3, MappedByLabel, CountedOutside
    <2> QED
      BY <1>1, <1>2, <1>3, <2>1 DEF ContractStep
  <1>4. CASE pc = "failed"
    <2>1. phaseNow = "failed"
      BY <1>4, MappedByLabel, CountedOutside
    <2> QED
      BY <1>1, <1>2, <1>4, <2>1 DEF ContractStep
  <1> QED
    BY <1>1, <1>3, <1>4

\* Closing the console.
LEMMA ClosingKeepsContract ==
    ASSUME mainCloseConsole
    PROVE  ContractStep
  <1>1. /\ pc \in {"main.closeIn", "main.closeOut"}
        /\ pc' \in {"main.closeOut", "halted", "returned"}
        /\ verdict' = verdict
    BY DEF mainCloseConsole, CloseIn, CloseOut, Check, Call, run
  <1>2. phaseNow = "closing" /\ passedNow = 0
    BY <1>1, MappedByLabel, CountedOutside
  <1>3. phaseNow' \in {"closing", "parked", "gone"} /\ passedNow' = 0
    BY <1>1, MappedByLabel, CountedOutside
  <1> QED
    BY <1>1, <1>2, <1>3 DEF ContractStep

\* The firmware implements the safety part of its contract: its tests run in
\* order, the first that fails is the last, success is reported after all
\* thirteen passed and only then, once a run, before the console is closed
\* (semihosting.cxx:656-715).
THEOREM ContractKept == Spec => Promise!SafeContract
  <1>1. Init => Promise!Start
    <2> SUFFICES ASSUME Init PROVE Promise!Start
      OBVIOUS
    <2>1. phaseNow = "opening" /\ passedNow = 0
      BY MappedByLabel, CountedOutside DEF Init
    <2> QED
      BY <2>1 DEF Init, Promise!Start
  <1>2. TypeOK /\ [Next]_vars => ContractStep
    <2> SUFFICES ASSUME TypeOK, [Next]_vars PROVE ContractStep
      OBVIOUS
    <2>1. CASE Reset
      <3>1. phaseNow' = "opening" /\ passedNow' = 0
        BY <2>1, MappedByLabel, CountedOutside DEF Reset
      <3> QED
        BY <2>1, <3>1 DEF Reset, ContractStep
    <2>2. CASE Parked \/ UNCHANGED vars
      <3>1. pc' = pc /\ verdict' = verdict
        BY <2>2 DEF Parked, vars
      <3> QED
        BY <3>1, MappedByLabel DEF ContractStep
    <2> QED
      BY <2>1, <2>2, TestsKeepContract, OpeningKeepsContract, ReportKeepsContract,
         ClosingKeepsContract DEF Next, main
  <1> HIDE DEF Promise!Run, Promise!Restart, Promise!contractVars
  <1> QED
    BY <1>1, <1>2, TypeCorrect, PTL DEF Spec, Promise!SafeContract, ContractStep

-----------------------------------------------------------------------------
(***************************************************************************)
(* A run left alone runs out of steps.                                     *)
(***************************************************************************)

\* No label stands in two places.
LEMMA OneLabelEach ==
    /\ DOMAIN ProgramOrder = 1 .. 47 /\ Len(ProgramOrder) = 47
    /\ \A i, j \in 1 .. 47 : ProgramOrder[i] = ProgramOrder[j] => i = j
  BY DEF ProgramOrder

LEMMA PlaceOfLabel ==
    ASSUME NEW i \in 1 .. 47
    PROVE  Place(ProgramOrder[i]) = i
  <1>1. Place(ProgramOrder[i]) = CHOOSE j \in 1 .. 47 : ProgramOrder[j] = ProgramOrder[i]
    BY OneLabelEach, Zenon DEF Place
  <1>2. PICK k : k = Place(ProgramOrder[i])
    OBVIOUS
  <1>3. k \in 1 .. 47 /\ ProgramOrder[k] = ProgramOrder[i]
    BY <1>1, <1>2, Zenon
  <1> QED
    BY <1>2, <1>3, OneLabelEach, Zenon

LEMMA Places ==
    /\ Place("main.openIn") = 1 /\ Place("main.openOut") = 2 /\ Place("cmdline") = 3
    /\ Place("tty.closeIn") = 4 /\ Place("tty.closeOut") = 5 /\ Place("tty.openIn") = 6
    /\ Place("tty.openOut") = 7 /\ Place("tty.isInTTY") = 8 /\ Place("tty.isOutTTY") = 9
    /\ Place("features.open") = 10 /\ Place("features.length") = 11 /\ Place("features.magic") = 12
    /\ Place("features.byte") = 13 /\ Place("features.abort") = 14 /\ Place("features.close") = 15
    /\ Place("console.write") = 16 /\ Place("console.write0") = 17 /\ Place("console.writeC") = 18
    /\ Place("file.create") = 19 /\ Place("file.write") = 20 /\ Place("file.close") = 21
    /\ Place("file.writeClosed") = 22 /\ Place("file.rename") = 23 /\ Place("file.open") = 24
    /\ Place("file.length") = 25 /\ Place("file.read") = 26 /\ Place("file.isTTY") = 27
    /\ Place("file.closeRead") = 28 /\ Place("file.readClosed") = 29 /\ Place("file.remove") = 30
    /\ Place("isError") = 31 /\ Place("heapInfo") = 32 /\ Place("errno.open") = 33
    /\ Place("errno.abort") = 34 /\ Place("errno.first") = 35 /\ Place("errno.second") = 36
    /\ Place("tickFrequency") = 37 /\ Place("elapsed") = 38 /\ Place("tempName") = 39
    /\ Place("timekeeping") = 40 /\ Place("intervals") = 41 /\ Place("exit") = 42
    /\ Place("exitExtended") = 43 /\ Place("passed") = 44 /\ Place("failed") = 45
    /\ Place("main.closeIn") = 46 /\ Place("main.closeOut") = 47
  BY PlaceOfLabel DEF ProgramOrder

\* The labels with a place are those of a run that goes on.
LEMMA PlacedLabels ==
    ASSUME NEW label \in Labels, label \notin {"halted", "returned"}
    PROVE  Place(label) \in 1 .. 47
  BY Places DEF Labels

\* The run goes on to a later place, to the next round of a loop, or ends.
Onward ==
    \/ Ended'
    \/ ~Ended' /\ Place(pc) < Place(pc')
    \/ /\ pc' = pc /\ pc \in {"console.writeC", "isError"}
       /\ index' = index + 1

\* The tests go on.
LEMMA TestsOnward ==
    ASSUME TypeOK, testSemihosting
    PROVE  ~Ended /\ Onward
  <1>1. Flow /\ TestSteps
    BY TestsFlow, StepsByLabel
  <1>2. ~Ended /\ ~Ended'
    BY <1>1 DEF Flow, Ended
  <1>3. \/ Place(pc) < Place(pc')
        \/ pc = "console.writeC" /\ pc' = pc
        \/ pc = "isError" /\ pc' = pc
    BY <1>1, Places DEF Flow
  <1>4. pc = "console.writeC" /\ pc' = pc => index' = index + 1
    BY <1>1 DEF TestSteps, FirstSteps
  <1>5. pc = "isError" /\ pc' = pc => index' = index + 1
    BY <1>1 DEF TestSteps, LastSteps
  <1> QED
    BY <1>2, <1>3, <1>4, <1>5 DEF Onward

\* So do opening the console, reporting, and closing the console.
LEMMA MainOnward ==
    ASSUME mainOpenConsole \/ mainReport \/ mainCloseConsole
    PROVE  ~Ended /\ Onward
  <1>1. CASE mainOpenConsole
    <2>1. \/ pc = "main.openIn" /\ pc' = "main.openOut"
          \/ pc = "main.openOut" /\ pc' \in {"cmdline", "returned"}
      BY <1>1 DEF mainOpenConsole, OpenIn, OpenOut
    <2> QED
      BY <2>1, Places DEF Onward, Ended
  <1>2. CASE mainReport
    <2>1. pc \in {"passed", "failed"} /\ pc' = "main.closeIn"
      BY <1>2 DEF mainReport
    <2> QED
      BY <2>1, Places DEF Onward, Ended
  <1>3. CASE mainCloseConsole
    <2>1. \/ pc = "main.closeIn" /\ pc' \in {"main.closeOut", "returned"}
          \/ pc = "main.closeOut" /\ pc' \in {"halted", "returned"}
      BY <1>3 DEF mainCloseConsole, CloseIn, CloseOut, Check, Call
    <2> QED
      BY <2>1, Places DEF Onward, Ended
  <1> QED
    BY <1>1, <1>2, <1>3

\* The steps ahead of a run at label l with place p, in round i of its loop.
Ahead(l, p, i) ==
    48 - p
    + (IF l = "console.writeC" THEN AlphabetLength - 1 - i
       ELSE IF p < 18 THEN AlphabetLength - 1 ELSE 0)
    + (IF l = "isError" THEN CodeCount - 1 - i
       ELSE IF p < 31 THEN CodeCount - 1 ELSE 0)

Counted ==
    /\ Place(pc) \in 1 .. 47 /\ index \in Nat
    /\ pc = "console.writeC" => index < AlphabetLength
    /\ pc = "isError" => index < CodeCount
    /\ StepsLeft = Ahead(pc, Place(pc), index)

\* That is what StepsLeft counts.
LEMMA StepsCounted == TypeOK /\ ~Ended => Counted
  <1> SUFFICES ASSUME TypeOK, ~Ended PROVE Counted
    OBVIOUS
  <1>1. Place(pc) \in 1 .. 47
    BY PlacedLabels DEF TypeOK, Ended
  <1>2. /\ index \in Nat
        /\ pc = "console.writeC" => index < AlphabetLength
        /\ pc = "isError" => index < CodeCount
    BY HostAssumption, SuiteAssumption DEF TypeOK
  <1>3. /\ Place("console.writeC") = 18 /\ Place("isError") = 31
        /\ Len(ProgramOrder) = 47
    BY Places, OneLabelEach
  <1>4. StepsLeft = Len(ProgramOrder) + 1 - Place(pc)
                    + RoundsLeft("console.writeC", AlphabetLength)
                    + RoundsLeft("isError", CodeCount)
    BY Zenon DEF StepsLeft
  <1>5. StepsLeft = Ahead(pc, Place(pc), index)
    BY <1>1, <1>2, <1>3, <1>4, HostAssumption, SuiteAssumption DEF RoundsLeft, Ahead
  <1> QED
    BY <1>1, <1>2, <1>5 DEF Counted

LEMMA StepsCountedNext == TypeOK' /\ ~Ended' => Counted'
  BY StepsCounted, PTL

\* A run that goes on has less ahead of it.
LEMMA FewerSteps ==
    ASSUME TypeOK, TypeOK', ~Ended, Onward
    PROVE  StepsLeft' \in 0 .. StepsLeft - 1
  <1> USE DEF Ahead
  <1>0. /\ AlphabetLength \in Nat /\ AlphabetLength >= 1
        /\ CodeCount \in Nat /\ CodeCount >= 1
    BY HostAssumption, SuiteAssumption
  <1>1. /\ Place(pc) \in 1 .. 47 /\ index \in Nat
        /\ pc = "console.writeC" => index < AlphabetLength
        /\ pc = "isError" => index < CodeCount
        /\ StepsLeft = Ahead(pc, Place(pc), index)
    BY StepsCounted DEF Counted
  <1>2. CASE Ended'
    <2>1. StepsLeft' = 0
      BY <1>2 DEF StepsLeft
    <2>2. StepsLeft \in Int /\ StepsLeft >= 1
      BY <1>0, <1>1
    <2> QED
      BY <2>1, <2>2
  <1>3. CASE ~Ended'
    <2>1. /\ Place(pc') \in 1 .. 47 /\ index' \in Nat
          /\ pc' = "console.writeC" => index' < AlphabetLength
          /\ pc' = "isError" => index' < CodeCount
          /\ StepsLeft' = Ahead(pc', Place(pc'), index')
      BY <1>3, StepsCountedNext DEF Counted
    <2>2. Place("console.writeC") = 18 /\ Place("isError") = 31
      BY Places
    <2>3. CASE Place(pc) < Place(pc')
      BY <1>0, <1>1, <2>1, <2>2, <2>3
    <2>4. CASE pc' = pc /\ pc \in {"console.writeC", "isError"} /\ index' = index + 1
      BY <1>0, <1>1, <2>1, <2>2, <2>4
    <2> QED
      BY <1>3, <2>3, <2>4 DEF Onward
  <1> QED
    BY <1>2, <1>3

\* The tests, the loops in them and the error paths go one way only: whatever
\* the host answers, a run that is not reset comes to the end of its steps
\* (semihosting.cxx:656-715).
THEOREM RunIsFinite == Spec => StepsRunOut
  <1>1. TypeOK /\ TypeOK' /\ [Next]_vars
          => [resets' # resets \/ StepsLeft' \in 0 .. StepsLeft - 1]_vars
    <2> SUFFICES ASSUME TypeOK, TypeOK', [Next]_vars, vars' # vars, resets' = resets
                 PROVE  StepsLeft' \in 0 .. StepsLeft - 1
      OBVIOUS
    <2>1. ~Reset
      BY SuiteAssumption DEF Reset, TypeOK
    <2>2. ~Parked
      BY DEF Parked
    <2>3. main
      BY <2>1, <2>2 DEF Next
    <2> QED
      BY <2>3, TestsOnward, MainOnward, FewerSteps DEF main
  <1> QED
    BY <1>1, TypeCorrect, PTL DEF Spec, StepsRunOut
=============================================================================
