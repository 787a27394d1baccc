-------------------------- MODULE SemihostingSuite --------------------------
(***************************************************************************)
(* The semihosting test firmware, src/semihosting/stm32f411: main() and    *)
(* the thirteen tests testSemihosting() runs in order until one fails,     *)
(* talking to the host of module SemihostingHost.  There is one action per *)
(* system call, with the check of its answer and the console lines up to   *)
(* the next call; pc names the call the firmware makes next.  The target   *)
(* may be reset by the debug probe between any two calls, and the host     *)
(* keeps its files and its open handles across a reset.                    *)
(***************************************************************************)
EXTENDS SemihostingHost, Sequences

CONSTANTS
    CodeCount,        \* codes testIsError asks about (100)
    MaxResets         \* bound on the resets of the target

ASSUME SuiteAssumption ==
    /\ CodeCount \in Nat \ {0}
    /\ MaxResets \in Nat

VARIABLES
    pc,          \* the next system call
    host,        \* the host's state
    fdFromHost,  \* Console::fdFromHost
    fdToHost,    \* Console::fdToHost
    fd,          \* the file handle of the running test
    index,       \* the loop counter of testConsoleWrite and testIsError
    verdict,     \* what the run has reported: "none", "success" or "failed"
    told,        \* the last verdict written to a live console handle (history)
    atStart,     \* the host as this run found it (history)
    resets       \* resets so far

vars == <<pc, host, fdFromHost, fdToHost, fd, index, verdict, told, atStart, resets>>
console == <<fdFromHost, fdToHost>>
run     == <<verdict, told, atStart, resets>>

Labels ==
    {"main.openIn", "main.openOut", "cmdline",
     "tty.closeIn", "tty.closeOut", "tty.openIn", "tty.openOut",
     "tty.isInTTY", "tty.isOutTTY",
     "features.open", "features.length", "features.magic", "features.byte",
     "features.close", "features.abort",
     "console.write", "console.write0", "console.writeC",
     "file.create", "file.write", "file.close", "file.writeClosed",
     "file.rename", "file.open", "file.length", "file.read", "file.isTTY",
     "file.closeRead", "file.readClosed", "file.remove",
     "isError", "heapInfo", "errno.open", "errno.abort", "errno.first",
     "errno.second", "tickFrequency", "elapsed", "tempName", "timekeeping",
     "intervals", "exit", "exitExtended", "passed", "failed",
     "main.closeIn", "main.closeOut", "halted", "returned"}

\* The texts and buffers of semihosting.cxx.
tty          == View(":tt", 3)
featuresFile == View(":semihosting-features", 21)
testFileA    == View("semihosting-test.a", 18)
testFileB    == View("semihosting-test.b", 18)
alphabet     == View("alphabet", AlphabetLength)
buffer       == View("buffer", AlphabetLength)

\* The keys of the fileIOErrno map.
fileIOErrno ==
    {1, 2, 4, 5, 9, 13, 14, 16, 17, 19, 20, 21, 22, 23, 24, 27, 28, 29, 30, 88, 91}

Init ==
    /\ \E r \in Regressions \cup {"none"}, m \in Moods : host = FreshHost(r, m)
    /\ pc = "main.openIn"
    /\ fdFromHost = -1 /\ fdToHost = -1
    /\ fd = 0 /\ index = 0
    /\ verdict = "none" /\ told = "none"
    /\ atStart = host
    /\ resets = 0

-----------------------------------------------------------------------------
(***************************************************************************)
(* One system call.  From label at, outcomes is the set of its possible    *)
(* outcomes; the firmware goes on to next when the returned value is in    *)
(* good, to bad otherwise.  Unless the code goes from the one call straight*)
(* to the other, it writes console lines to fdToHost in between.           *)
(***************************************************************************)
Silent(from, ret, to) ==
    \/ to \in {"main.openOut", "main.closeOut", "halted", "tty.closeOut", "tty.openOut",
               "tty.isOutTTY", "file.writeClosed", "file.readClosed",
               "errno.first", "passed"}
    \/ from = "console.writeC" /\ to = from
    \/ from = "isError" /\ to = from /\ index \notin fileIOErrno \cup {0}
    \/ from \in {"features.abort", "errno.abort"} /\ ret = Ok

\* The host after outcome o of the call at label from and the console lines
\* written to handle n before the call at label to.
Lines(o, n, from, to) ==
    IF Silent(from, o.ret, to) THEN {o.host} ELSE Logged(o.host, n)

Call(at, outcomes, good, next, bad) ==
    /\ pc = at
    /\ \E o \in outcomes :
        /\ pc' = IF o.ret \in good THEN next ELSE bad
        /\ host' \in Lines(o, fdToHost, at, pc')
    /\ UNCHANGED <<console, run>>

\* A request that leaves the test's own variables alone.
Check(at, request, good, next, bad) ==
    Call(at, Answer(host, request), good, next, bad) /\ UNCHANGED <<fd, index>>

\* Mutant: one round too many.
LoopOneMore(at, request, good, n, next) ==
    /\ Call(at, Answer(host, request), good, IF index + 1 <= n THEN at ELSE next, "failed")
    /\ index' = IF pc' = at THEN index + 1 ELSE 0
    /\ UNCHANGED fd

\* Mutant: the loop counter does not advance.
LoopForever(at, request, good, n, next) ==
    /\ Call(at, Answer(host, request), good, IF index + 1 < n THEN at ELSE next, "failed")
    /\ UNCHANGED <<fd, index>>

\* Mutant: a failed call does not end the loop, and in the last round the loop
\* starts over.
LoopStartsOver(at, request, good, n, next) ==
    /\ Call(at, Answer(host, request), good, IF index + 1 < n THEN at ELSE next, at)
    /\ index' = IF pc' = at THEN (index + 1) % n ELSE 0
    /\ UNCHANGED fd

\* A request made in a loop: round index of 0 .. n - 1.
Loop(at, request, good, n, next) ==
    /\ Call(at, Answer(host, request), good, IF index + 1 < n THEN at ELSE next, "failed")
    /\ index' = IF pc' = at THEN index + 1 ELSE 0
    /\ UNCHANGED fd

\* Mutant: the result of the close is not looked at.
CloseFileUnchecked(at, next) ==
    Check(at, close(fd), {Ok, Err}, next, "failed")

\* SYS_CLOSE of the test's file.
CloseFile(at, next) ==
    Check(at, close(fd), {Ok}, next, "failed")

\* SYS_OPEN of a file the test keeps in fd.  On failure the error line asks
\* for SYS_ERRNO before it is written.
OpenAs(at, path, mode, next) ==
    /\ pc = at
    /\ \E o \in Answer(host, open(path, mode)) :
        /\ fd' = o.ret
        /\ \/ /\ o.ret > 0
              /\ pc' = next
              /\ host' \in Logged(o.host, fdToHost)
           \/ /\ o.ret <= 0
              /\ pc' = "failed"
              /\ \E e \in Answer(o.host, lastErrno) : host' \in Logged(e.host, fdToHost)
    /\ UNCHANGED <<console, index, run>>

-----------------------------------------------------------------------------
(***************************************************************************)
(* Console::openConsole and closeConsole, called by main() and by          *)
(* testConsoleHandles().  openConsole makes both calls and then looks at   *)
(* the results; closeConsole makes the second only if the first succeeded. *)
(***************************************************************************)
OpenIn(at, next) ==
    /\ pc = at
    /\ \E o \in Answer(host, open(tty, OpenMode.read)) :
        host' = o.host /\ fdFromHost' = o.ret
    /\ pc' = next
    /\ UNCHANGED <<fdToHost, fd, index, run>>

OpenOut(at, ok, bad) ==
    /\ pc = at
    /\ \E o \in Answer(host, open(tty, OpenMode.write)) :
        /\ fdToHost' = o.ret
        /\ pc' = IF fdFromHost # -1 /\ o.ret # -1 THEN ok ELSE bad
        /\ host' \in IF pc' = "returned" THEN {o.host} ELSE Logged(o.host, o.ret)
    /\ UNCHANGED <<fdFromHost, fd, index, run>>

CloseIn(at, next, bad) ==
    Check(at, close(fdFromHost), {Ok}, next, bad)

\* Mutant: the result of the second close is not looked at.
CloseOutUnchecked(at, ok, bad) ==
    Check(at, close(fdToHost), {Ok, Err}, ok, bad)

CloseOut(at, ok, bad) ==
    Check(at, close(fdToHost), {Ok}, ok, bad)

-----------------------------------------------------------------------------
(***************************************************************************)
(* The tests, in the order of testSemihosting().                           *)
(***************************************************************************)
testReadCommandLine ==
    Check("cmdline", readCommandLine(View("buffer", 80)), {Ok}, "tty.closeIn", "failed")

\* Mutant: wrong handles are complained about, and accepted.
HandlesComplained == TRUE

HandlesAsExpected == fdFromHost = stdinFD /\ fdToHost = stdoutFD

\* The handles' values decide only after SYS_ISTTY accepted both.
testConsoleHandles ==
    \/ CloseIn("tty.closeIn", "tty.closeOut", "failed")
    \/ CloseOut("tty.closeOut", "tty.openIn", "failed")
    \/ OpenIn("tty.openIn", "tty.openOut")
    \/ OpenOut("tty.openOut", "tty.isInTTY", "failed")
    \/ Check("tty.isInTTY", isTTY(fdFromHost), {1}, "tty.isOutTTY", "failed")
    \/ Check("tty.isOutTTY", isTTY(fdToHost), {1},
             IF HandlesAsExpected THEN "features.open" ELSE "failed", "failed")

\* Every failure after the open closes the handle, except a features byte of
\* the wrong value.
testSemihostingFeatures ==
    \/ OpenAs("features.open", featuresFile, OpenMode.read, "features.length")
    \/ Check("features.length", fileLength(fd), {Ok}, "features.magic", "features.abort")
    \/ Check("features.magic", read(fd, View("magic", 4)), {Ok},
             "features.byte", "features.abort")
    \/ Check("features.byte", read(fd, View("byte", 1)), {Ok, Wrong},
             IF FeaturesByte(host) = 3 THEN "features.close" ELSE "failed",
             "features.abort")
    \/ CloseFile("features.close", "console.write")
    \/ Check("features.abort", close(fd), {Ok}, "failed", "failed")

testConsoleWrite ==
    \/ Check("console.write", write(fdToHost, alphabet), {Ok}, "console.write0", "failed")
    \/ Check("console.write0", writeNul(alphabet.data), {Ok}, "console.writeC", "failed")
    \/ Loop("console.writeC", writeChar("chr"), {Ok}, alphabet.length, "file.create")

\* Mutant: file A is renamed while it is still open.
writeFileALeftOpen ==
    \/ OpenAs("file.create", testFileA, OpenMode.writeBinary, "file.write")
    \/ Check("file.write", write(fd, alphabet), {Ok}, "file.rename", "failed")

\* The write after the close is expected to fail.
writeFileA ==
    \/ OpenAs("file.create", testFileA, OpenMode.writeBinary, "file.write")
    \/ Check("file.write", write(fd, alphabet), {Ok}, "file.close", "failed")
    \/ CloseFile("file.close", "file.writeClosed")
    \/ Check("file.writeClosed", write(fd, alphabet), {Short, Err}, "file.rename", "failed")

\* The read after the close is expected to fail.
readFileB ==
    \/ OpenAs("file.open", testFileB, OpenMode.readBinary, "file.length")
    \/ Check("file.length", fileLength(fd), {Ok}, "file.read", "failed")
    \/ Check("file.read", read(fd, buffer), {Ok}, "file.isTTY", "failed")
    \/ Check("file.isTTY", isTTY(fd), {0}, "file.closeRead", "failed")
    \/ CloseFile("file.closeRead", "file.readClosed")
    \/ Check("file.readClosed", read(fd, buffer), {Short, Err}, "file.remove", "failed")

testFileIO ==
    \/ writeFileA
    \/ Check("file.rename", rename(testFileA, testFileB), {Ok}, "file.open", "failed")
    \/ readFileB
    \/ Check("file.remove", remove(testFileB), {Ok}, "isError", "failed")

\* A failed call counts as the answer "is an error".
testIsError ==
    Loop("isError", isError(index),
         {r \in {0, 1, Err} : SaysError(r) = (index \in fileIOErrno)},
         CodeCount, "heapInfo")

\* A failed or partial SYS_HEAPINFO leaves one of the four marker values.
testHeapInfo ==
    Check("heapInfo", heapInfo("markers"), {Ok}, "errno.open", "failed")

\* File B is expected to be gone; the error of its open is reported once.
testErrno ==
    \/ /\ \E o \in Answer(host, open(testFileB, OpenMode.readBinary)) :
            /\ Call("errno.open", {o}, {Err}, "errno.first", "errno.abort")
            /\ fd' = o.ret
       /\ UNCHANGED index
    \/ Check("errno.abort", close(fd), {Ok}, "failed", "failed")
    \/ Check("errno.first", lastErrno, {"ENOENT"}, "errno.second", "failed")
    \/ Check("errno.second", lastErrno, {"success"}, "tickFrequency", "failed")

\* Neither call is implemented by the probe: both are expected to fail, the
\* second without a tick count.
testTiming ==
    \/ Check("tickFrequency", tickFrequency, {Err}, "elapsed", "failed")
    \/ Check("elapsed", elapsedTime("ticks"), {Err}, "tempName", "failed")

testTempName ==
    Check("tempName", tempName(View("buffer", 32), 10), {Ok}, "timekeeping", "failed")

\* The two clock tests are modelled in full in module ClockTests; here each is
\* one call, which may fail a host that keeps time and whose calls succeed: by
\* the sentinel (:557) and the comparisons (:576, :623).
testTimekeeping ==
    Check("timekeeping", time, {Ok}, "intervals", "failed")

testIntervals ==
    Check("intervals", clock, {Ok}, "exit", "failed")

\* Both exits return in this firmware, and what they return is not looked at.
testExits ==
    \/ Check("exit", exit(applicationExit), {Ok}, "exitExtended", "exitExtended")
    \/ Check("exitExtended", exitExtended(applicationExit, 25), {Ok}, "passed", "passed")

-----------------------------------------------------------------------------
(***************************************************************************)
(* main().                                                                 *)
(***************************************************************************)
mainOpenConsole ==
    \/ OpenIn("main.openIn", "main.openOut")
    \/ OpenOut("main.openOut", "cmdline", "returned")

\* Mutant: the result of testSemihosting() is not looked at.
mainReportSuccess ==
    /\ pc \in {"passed", "failed"}
    /\ verdict' = "success"
    /\ told' = IF IsConsole(host, fdToHost) THEN verdict' ELSE told
    /\ host' \in Logged(host, fdToHost)
    /\ pc' = "main.closeIn"
    /\ UNCHANGED <<console, fd, index, atStart, resets>>

\* "Test complete (success)" or "Test failed".
mainReport ==
    /\ pc \in {"passed", "failed"}
    /\ verdict' = IF pc = "passed" THEN "success" ELSE "failed"
    /\ told' = IF IsConsole(host, fdToHost) THEN verdict' ELSE told
    /\ host' \in Logged(host, fdToHost)
    /\ pc' = "main.closeIn"
    /\ UNCHANGED <<console, fd, index, atStart, resets>>

mainCloseConsole ==
    \/ CloseIn("main.closeIn", "main.closeOut", "returned")
    \/ CloseOut("main.closeOut", "halted", "returned")

\* The final bkpt loop, and main() having returned 1.
Parked == pc \in {"halted", "returned"} /\ UNCHANGED vars

testSemihosting ==
    \/ testReadCommandLine \/ testConsoleHandles \/ testSemihostingFeatures
    \/ testConsoleWrite \/ testFileIO \/ testIsError \/ testHeapInfo
    \/ testErrno \/ testTiming \/ testTempName \/ testTimekeeping
    \/ testIntervals \/ testExits

main == mainOpenConsole \/ testSemihosting \/ mainReport \/ mainCloseConsole

\* The probe resets the target, and may by then run other probe firmware.
\* The firmware's memory starts over; the host keeps files and handles.
Reset ==
    /\ resets < MaxResets
    /\ resets' = resets + 1
    /\ \E r \in Regressions \cup {"none"} : host' = [host EXCEPT !.regression = r]
    /\ atStart' = host'
    /\ pc' = "main.openIn"
    /\ fdFromHost' = -1 /\ fdToHost' = -1
    /\ fd' = 0 /\ index' = 0
    /\ verdict' = "none" /\ told' = "none"

Next == main \/ Parked \/ Reset

Spec     == Init /\ [][Next]_vars
\* The processor runs on whenever it is not held at the final breakpoint.
FairSpec == Spec /\ WF_vars(main)
-----------------------------------------------------------------------------
\* Every variable has its type: labels, host states, handles that fit, and
\* loop counters below their bounds.
TypeOK ==
    /\ pc \in Labels
    /\ host \in HostState /\ atStart \in HostState
    /\ fdFromHost \in Handles \cup {-1} /\ fdToHost \in Handles \cup {-1}
    /\ fd \in FileHandles \cup {-1, 0}
    /\ index \in Nat
    /\ \/ index = 0
       \/ pc = "console.writeC" /\ index < AlphabetLength
       \/ pc = "isError" /\ index < CodeCount
    /\ verdict \in {"none", "success", "failed"}
    /\ told \in {"none", "success", "failed"}
    /\ resets \in 0 .. MaxResets

\* The file handles this run has opened and not closed.
NewlyOpen == {n \in FileHandles : IsOpen(host, n) /\ ~IsOpen(atStart, n)}

\* Misbehaviours no test can see: a rename that keeps the old file, and a
\* close that forgets handles opened for reading.  A rename that does nothing
\* goes unseen when an earlier run left the right file B behind.  Where calls
\* may fail, the failure of a call can pass for the answer expected of a
\* correct host: the write to a handle that should be closed, and the test of
\* a code that is an error.
Undetectable ==
    \/ host.regression \in {"none", "copy", "closeRead"}
    \/ host.regression = "rename" /\ atStart.files["B"] = "alphabet"
    \/ host.regression = "close" /\ host.mood = "flaky"
    \/ /\ host.regression = "isError"
       /\ \/ MisjudgedCode \notin 0 .. CodeCount - 1
          \/ host.mood = "flaky" /\ MisjudgedCode \in fileIOErrno

\* "Test complete (success)" is never reported for a host that misbehaves in a
\* way the thirteen tests are there to find, however calls fail and whatever
\* an interrupted earlier run left behind (semihosting.cxx:656-672, 700-703).
RegressionCaught == verdict = "success" => Undetectable

\* On a correct host whose calls do not fail, nothing but the two clock tests
\* fails a run, and no run ends without a report, unless earlier runs left no
\* file handle to issue (semihosting.cxx:656-672, 689-715): every request
\* reaches the host as its call is defined, and every other check of an answer
\* accepts the right one.
NoFalseAlarm ==
    [][host.mood = "steady" /\ host.regression = "none"
       /\ pc' # pc /\ pc' \in {"failed", "returned"} =>
          \/ pc \in {"timekeeping", "intervals"}
          \/ \A n \in FileHandles : IsOpen(atStart, n)]_vars

\* A run never has more than the one file handle of the running test open, and
\* a run that fails leaves at most that one behind, provided closing works.
LeakBound ==
    host.regression \notin {"close", "closeRead"} => NewlyOpen \subseteq {fd}

\* A successful run on a correct host has removed its two files and closed
\* every file handle it opened, so that the next run starts clean.
CleanOnSuccess ==
    verdict = "success" /\ host.regression = "none" =>
        /\ host.files = [f \in {"A", "B"} |-> "absent"]
        /\ NewlyOpen = {}

\* The firmware stops at its final breakpoint only after its verdict went to a
\* live console handle; a verdict written to a dead one ends in return 1
\* (semihosting.cxx:700-715).
VerdictDelivered == pc = "halted" => told = verdict

\* Where the test's file may be open, or the run is over.
HoldLabels ==
    {"features.length", "features.magic", "features.byte", "features.close",
     "features.abort", "file.write", "file.close", "file.length", "file.read",
     "file.isTTY", "file.closeRead", "errno.abort",
     "failed", "main.closeIn", "main.closeOut", "halted", "returned"}

MayHoldFile == pc \in HoldLabels

\* Inductive with TypeOK; implies LeakBound.
LeakInv ==
    host.regression \notin {"close", "closeRead"} =>
        NewlyOpen \subseteq IF MayHoldFile THEN {fd} ELSE {}

\* Inductive with TypeOK; implies VerdictDelivered.  The output handle is the
\* number the host gives the console's output end, and nothing but that end
\* is ever open on it, so that a close that succeeds proves it live before.
ReportInv ==
    /\ \/ fdToHost = -1
       \/ /\ fdToHost = TTYNumber(host, "ttyOut")
          /\ host.open[fdToHost] \in {"closed", "ttyOut"}
    /\ pc \in {"main.closeIn", "main.closeOut"} =>
           told = verdict \/ ~IsConsole(host, fdToHost)
    /\ pc = "halted" => told = verdict

Ended == pc \in {"halted", "returned"}

\* The calls in the order the source makes them, and where an error leads.
ProgramOrder ==
    <<"main.openIn", "main.openOut", "cmdline",
      "tty.closeIn", "tty.closeOut", "tty.openIn", "tty.openOut",
      "tty.isInTTY", "tty.isOutTTY",
      "features.open", "features.length", "features.magic", "features.byte",
      "features.abort", "features.close",
      "console.write", "console.write0", "console.writeC",
      "file.create", "file.write", "file.close", "file.writeClosed",
      "file.rename", "file.open", "file.length", "file.read", "file.isTTY",
      "file.closeRead", "file.readClosed", "file.remove",
      "isError", "heapInfo", "errno.open", "errno.abort", "errno.first",
      "errno.second", "tickFrequency", "elapsed", "tempName", "timekeeping",
      "intervals", "exit", "exitExtended", "passed", "failed",
      "main.closeIn", "main.closeOut">>

Place(label) == CHOOSE i \in DOMAIN ProgramOrder : ProgramOrder[i] = label

\* Rounds that a loop of n rounds at the label still has ahead of it.
RoundsLeft(label, n) ==
    IF pc = label THEN n - 1 - index
    ELSE IF Place(pc) < Place(label) THEN n - 1 ELSE 0

\* The steps a run can take before it ends: the places that follow, and the
\* further rounds of the two loops.
StepsLeft ==
    IF Ended THEN 0
    ELSE Len(ProgramOrder) + 1 - Place(pc)
         + RoundsLeft("console.writeC", AlphabetLength)
         + RoundsLeft("isError", CodeCount)

\* Unless the target is reset, every step brings the run closer to its end:
\* after a reset the firmware makes at most 173 more steps, whatever the host
\* answers (semihosting.cxx:656-715).  What is left for RunEnds is that there
\* always is a next step.
StepsRunOut == [][resets' # resets \/ StepsLeft' \in 0 .. StepsLeft - 1]_vars

\* Once the target is left alone, its run ends: at the final breakpoint or
\* returning from main().
RunEnds == <>[]Ended

-----------------------------------------------------------------------------
(***************************************************************************)
(* What the comments of semihosting.cxx say, and the code does not do.     *)
(***************************************************************************)

\* :139-141.  A failed reopen of the console leaves the old handle in place,
\* so that the failure can be reported.
HandleKeptOnFailure == pc = "failed" => fdToHost # -1

\* :708-709.  When closing the console fails, its output side is still valid.
StdoutStillValid ==
    pc = "returned" /\ verdict # "none" => IsConsole(host, fdToHost)

\* :361.  The read after the close of file B finds a handle left open.
OpenHandleFound == verdict = "success" => host.regression # "closeRead"
=============================================================================
