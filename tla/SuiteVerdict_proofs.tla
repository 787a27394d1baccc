------------------------- MODULE SuiteVerdict_proofs -------------------------
(***************************************************************************)
(* The verdict of the semihosting test firmware is right: no regression the*)
(* tests are there to find is reported as a success, a correct host whose  *)
(* calls do not fail is failed by the clock tests only, and a success      *)
(* leaves a correct host clean.  For every set of file handles and of      *)
(* regressions, every loop length and any number of resets.                *)
(***************************************************************************)
EXTENDS SemihostingSuite_proofs

(***************************************************************************)
(* How far a run has come.  Each set holds the labels of a run whose check *)
(* of the name has passed.                                                 *)
(***************************************************************************)
PastClocks   == {"intervals", "exit", "exitExtended", "passed"}
PastTempName == PastClocks \cup {"timekeeping"}
PastElapsed  == PastTempName \cup {"tempName"}
PastTick     == PastElapsed \cup {"elapsed"}
PastSecond   == PastTick \cup {"tickFrequency"}
PastFirst    == PastSecond \cup {"errno.second"}
PastHeap     == PastFirst \cup {"errno.open", "errno.first"}
PastCodes    == PastHeap \cup {"heapInfo"}
PastRemove   == PastCodes \cup {"isError"}
PastRead     == PastRemove \cup {"file.isTTY", "file.closeRead", "file.readClosed",
                                 "file.remove"}
PastRename   == PastRead \cup {"file.open", "file.length", "file.read"}
PastClosed   == PastRename \cup {"file.rename"}
PastFeatures == PastClosed \cup {"features.close", "console.write", "console.write0",
                                 "console.writeC", "file.create", "file.write",
                                 "file.close", "file.writeClosed"}
PastLength   == PastFeatures \cup {"features.magic", "features.byte"}
PastHandles  == PastLength \cup {"features.open", "features.length"}
PastCmdline  == PastHandles \cup {"tty.closeIn", "tty.closeOut", "tty.openIn", "tty.openOut",
                                  "tty.isInTTY", "tty.isOutTTY"}

\* The run has come as far as a label of the set, or to its success.
Past(labels) == pc \in labels \/ verdict = "success"

\* The error codes are judged as they should be.
CodesMisjudged ==
    /\ host.regression = "isError"
    /\ MisjudgedCode \in 0 .. CodeCount - 1
    /\ host.mood = "flaky" => MisjudgedCode \notin fileIOErrno

(***************************************************************************)
(* What each check excludes.                                               *)
(***************************************************************************)
Excluded ==
    /\ Past(PastCmdline)  => host.regression # "cmdline"
    /\ Past(PastHandles)  => host.regression \notin {"handles", "isTTY"}
    /\ Past(PastLength)   => host.regression # "length"
    /\ Past(PastFeatures) => host.regression \notin {"features", "read"}
    /\ Past(PastClosed)   => (host.regression = "close" => host.mood = "flaky")
    /\ Past(PastRead)     => /\ host.regression \notin {"write", "garble"}
                             /\ (host.regression = "rename" => atStart.files["B"] = "alphabet")
    /\ Past(PastCodes)    => ~CodesMisjudged
    /\ Past(PastHeap)     => host.regression # "heapInfo"
    /\ Past(PastFirst)    => host.regression # "remove"
    /\ Past(PastSecond)   => host.regression # "errno"
    /\ Past(PastTick)     => host.regression # "tickFreq"
    /\ Past(PastElapsed)  => host.regression # "elapsed"
    /\ Past(PastTempName) => host.regression # "tempName"
    /\ Past(PastClocks)   => host.regression # "clock"

\* Where a run has come to file B, or given up.
AfterB == PastRead \cup {"errno.abort", "failed", "main.closeIn", "main.closeOut",
                         "halted", "returned"}

\* What the host's files and handles are between an operation and its check.
Evidence ==
    /\ pc \in {"file.write", "file.close"} => fd \in FileHandles /\ host.open[fd] = "A"
    /\ pc = "file.writeClosed" /\ host.regression = "close"
          => fd \in FileHandles /\ host.open[fd] = "A"
    /\ pc \in {"file.close", "file.writeClosed", "file.rename"}
          /\ host.regression \in {"write", "garble"} => host.files["A"] # "alphabet"
    /\ pc \in {"file.open", "file.length", "file.read"}
          /\ host.regression \in {"write", "garble"} => host.files["B"] # "alphabet"
    /\ pc \in {"file.length", "file.read"} => fd \in FileHandles /\ host.open[fd] = "B"
    /\ pc \notin AfterB /\ host.regression = "rename"
          => host.files["B"] = atStart.files["B"]
    /\ pc = "isError" /\ CodesMisjudged => index <= MisjudgedCode
    /\ pc \in {"isError", "heapInfo", "errno.open"} /\ host.regression = "remove"
          => host.files["B"] # "absent"
    /\ pc = "errno.first" /\ host.regression = "remove" => host.errno # "ENOENT"
    /\ pc = "errno.second" /\ host.regression = "errno" => host.errno # "success"

\* A correct host's files are gone when their tests have passed, and its
\* handles closed.
Cleaned ==
    host.regression = "none" =>
        /\ Past(PastRename) => host.files["A"] = "absent"
        /\ Past(PastRemove) => host.files["B"] = "absent"
        /\ Past({"passed"}) => NewlyOpen = {}

\* The verdict is reported last.
Reported == verdict # "none" => pc \in {"main.closeIn", "main.closeOut", "halted", "returned"}

CatchInv == Reported /\ Excluded /\ Evidence /\ Cleaned

(***************************************************************************)
(* A run on a correct host whose calls do not fail and which has a handle  *)
(* left goes from success to success, but for the two clock tests.         *)
(***************************************************************************)
Good ==
    /\ host.mood = "steady" /\ host.regression = "none"
    /\ ~(\A n \in FileHandles : IsOpen(atStart, n))

\* Where the ends of the console may be closed.
InDown  == {"main.openIn", "tty.closeOut", "tty.openIn", "main.closeOut", "halted", "returned"}
OutDown == {"main.openIn", "main.openOut", "tty.openIn", "tty.openOut", "halted", "returned"}

ConsoleLive ==
    /\ pc \notin InDown  => fdFromHost = stdinFD /\ host.open[stdinFD] = "ttyIn"
    /\ pc \notin OutDown => fdToHost = stdoutFD /\ host.open[stdoutFD] = "ttyOut"

\* The test's file is open on the stream.
Holding(streams) == fd \in FileHandles /\ host.open[fd] \in streams

FilesRight ==
    /\ pc \in {"features.length", "features.magic", "features.byte", "features.close"}
          => Holding({"features"})
    /\ pc \in {"file.write", "file.close"}      => Holding({"A"})
    /\ pc \in {"file.length", "file.read"}      => Holding({"B"})
    /\ pc \in {"file.isTTY", "file.closeRead"}  => Holding({"B", "Beof"})
    /\ pc \in {"file.writeClosed", "file.readClosed"} => Holding({"closed"})
    /\ pc \in {"file.close", "file.writeClosed", "file.rename"} => host.files["A"] = "alphabet"
    /\ pc \in {"file.open", "file.length", "file.read", "file.isTTY", "file.closeRead",
                "file.readClosed", "file.remove"}
          => host.files["B"] = "alphabet"
    /\ pc \in {"isError", "heapInfo", "errno.open"} => host.files["B"] = "absent"
    /\ pc = "errno.first"  => host.errno = "ENOENT"
    /\ pc = "errno.second" => host.errno = "success"

NothingAborted == pc \notin {"features.abort", "errno.abort"}

SmoothInv == Good => ConsoleLive /\ FilesRight /\ NothingAborted

ClockLabels == {"timekeeping", "intervals"}

\* What a step on a good host may fail on.
OnlyClocksFail ==
    Good /\ pc' # pc /\ pc' \in {"failed", "returned"} => pc \in ClockLabels

-----------------------------------------------------------------------------
(***************************************************************************)
(* What the host answers each request with.                                *)
(***************************************************************************)

\* A request with a number other than those of SYS_OPEN and SYS_CLOSE.
LEMMA AnswerServe ==
    ASSUME NEW h, NEW n, NEW b, n \notin {1, 2}
    PROVE  Answer(h, semihostingSyscall(n, b)) = Serve(h, n, b)
  BY DEF Answer, semihostingSyscall

\* The transfers of the tests.
LEMMA AnswerTransfer ==
    ASSUME NEW h, NEW n
    PROVE  /\ Answer(h, write(n, alphabet)) = WriteFD(h, n)
           /\ Answer(h, read(n, View("magic", 4))) = ReadFD(h, n)
           /\ Answer(h, read(n, View("byte", 1))) = ReadFD(h, n)
           /\ Answer(h, read(n, buffer)) = ReadFD(h, n)
           /\ Answer(h, fileLength(n)) = FileLength(h, n)
           /\ Answer(h, isTTY(n)) = IsTTY(h, n)
           /\ Answer(h, isError(n)) = IsError(h, n)
  <1>1. Answer(h, write(n, alphabet)) = WriteFD(h, n)
    BY AnswerServe DEF write, alphabet, View, Syscall, Serve
  <1>2. /\ Answer(h, read(n, View("magic", 4))) = ReadFD(h, n)
        /\ Answer(h, read(n, View("byte", 1))) = ReadFD(h, n)
        /\ Answer(h, read(n, buffer)) = ReadFD(h, n)
    BY AnswerServe DEF read, buffer, View, Syscall, Serve
  <1>3. Answer(h, fileLength(n)) = FileLength(h, n)
    BY AnswerServe DEF fileLength, Syscall, Serve
  <1>4. Answer(h, isTTY(n)) = IsTTY(h, n)
    BY AnswerServe DEF isTTY, Syscall, Serve
  <1>5. Answer(h, isError(n)) = IsError(h, n)
    BY AnswerServe DEF isError, Syscall, Serve
  <1> QED
    BY <1>1, <1>2, <1>3, <1>4, <1>5

\* The calls of the tests that name files.
LEMMA AnswerNames ==
    ASSUME NEW h
    PROVE  /\ Answer(h, rename(testFileA, testFileB)) = RenameAB(h)
           /\ Answer(h, remove(testFileB)) = RemoveB(h)
           /\ Answer(h, tempName(View("buffer", 32), 10)) = Query(h, "tempName")
  <1>1. Answer(h, rename(testFileA, testFileB)) = RenameAB(h)
    BY AnswerServe DEF rename, testFileA, testFileB, View, Syscall, Serve
  <1>2. Answer(h, remove(testFileB)) = RemoveB(h)
    BY AnswerServe DEF remove, testFileB, View, Syscall, Serve
  <1>3. Answer(h, tempName(View("buffer", 32), 10)) = Query(h, "tempName")
    BY AnswerServe DEF tempName, View, Syscall, Serve, TempName
  <1> QED
    BY <1>1, <1>2, <1>3

\* The calls that only ask, or only write to the debug console.
LEMMA AnswerQueries ==
    ASSUME NEW h
    PROVE  /\ Answer(h, readCommandLine(View("buffer", 80))) = Query(h, "cmdline")
           /\ Answer(h, heapInfo("markers")) = Query(h, "heapInfo")
           /\ Answer(h, time) = ClockTest(h)
           /\ Answer(h, clock) = ClockTest(h)
           /\ Answer(h, lastErrno) = LastErrno(h)
           /\ Answer(h, tickFrequency) = TickFrequency(h)
           /\ Answer(h, elapsedTime("ticks")) = Elapsed(h)
           /\ Answer(h, writeNul(alphabet.data)) = WriteDebug(h)
           /\ Answer(h, writeChar("chr")) = WriteDebug(h)
           /\ Answer(h, exit(applicationExit)) = ShowExit(h)
           /\ Answer(h, exitExtended(applicationExit, 25)) = ShowExit(h)
  <1>1. Answer(h, readCommandLine(View("buffer", 80))) = Query(h, "cmdline")
    BY AnswerServe DEF readCommandLine, View, Syscall, Serve
  <1>2. Answer(h, heapInfo("markers")) = Query(h, "heapInfo")
    BY AnswerServe DEF heapInfo, Syscall, Serve
  <1>3. /\ Answer(h, time) = ClockTest(h)
        /\ Answer(h, clock) = ClockTest(h)
    BY AnswerServe DEF time, clock, Syscall, Serve
  <1>4. Answer(h, lastErrno) = LastErrno(h)
    BY AnswerServe DEF lastErrno, Syscall, Serve
  <1>5. Answer(h, tickFrequency) = TickFrequency(h)
    BY AnswerServe DEF tickFrequency, Syscall, Serve
  <1>6. Answer(h, elapsedTime("ticks")) = Elapsed(h)
    BY AnswerServe DEF elapsedTime, Syscall, Serve
  <1>7. /\ Answer(h, writeNul(alphabet.data)) = WriteDebug(h)
        /\ Answer(h, writeChar("chr")) = WriteDebug(h)
    BY AnswerServe DEF writeNul, writeChar, Syscall, Serve
  <1>8. /\ Answer(h, exit(applicationExit)) = ShowExit(h)
        /\ Answer(h, exitExtended(applicationExit, 25)) = ShowExit(h)
    BY AnswerServe DEF exit, exitExtended, Syscall, Serve
  <1> QED
    BY <1>1, <1>2, <1>3, <1>4, <1>5, <1>6, <1>7, <1>8

-----------------------------------------------------------------------------
(***************************************************************************)
(* The steps of the tests, by label, with the calls they make.             *)
(***************************************************************************)

\* What console lines may do to the host.
Follows(h, g) ==
    /\ g.open = h.open /\ g.files = h.files
    /\ g.errno \in {h.errno, "EIO", "EBADF"}
    /\ h.mood = "steady" /\ IsConsole(h, fdToHost) => g = h

\* A call with the check of its answer and the lines up to the next call.
Asks(outcomes, good, next, bad) ==
    \E o \in outcomes :
        /\ pc' = IF o.ret \in good THEN next ELSE bad
        /\ Follows(o.host, host')
        /\ pc' = "errno.first" => host' = o.host

\* An open of a file.
OpensFile(stream, next) ==
    \E o \in OpenFile(host, stream) :
        /\ fd' = o.ret
        /\ \/ o.ret > 0 /\ pc' = next /\ Follows(o.host, host')
           \/ o.ret <= 0 /\ pc' = "failed"

IsErrorGood == {r \in {0, 1, Err} : SaysError(r) = (index \in fileIOErrno)}

\* The steps of the tests that come before the files.
FirstSteps ==
    /\ pc = "cmdline" => Asks(Query(host, "cmdline"), {Ok}, "tty.closeIn", "failed")
    /\ pc = "tty.closeIn" => Asks(CloseFD(host, fdFromHost), {Ok}, "tty.closeOut", "failed")
    /\ pc = "tty.closeOut" => Asks(CloseFD(host, fdToHost), {Ok}, "tty.openIn", "failed")
    /\ pc = "tty.isInTTY" => Asks(IsTTY(host, fdFromHost), {1}, "tty.isOutTTY", "failed")
    /\ pc = "tty.isOutTTY" =>
          Asks(IsTTY(host, fdToHost), {1},
               IF HandlesAsExpected THEN "features.open" ELSE "failed", "failed")
    /\ pc = "features.open" => OpensFile("features", "features.length")
    /\ pc = "features.length" =>
          Asks(FileLength(host, fd), {Ok}, "features.magic", "features.abort")
    /\ pc = "features.magic" =>
          Asks(ReadFD(host, fd), {Ok}, "features.byte", "features.abort")
    /\ pc = "features.byte" =>
          Asks(ReadFD(host, fd), {Ok, Wrong},
               IF FeaturesByte(host) = 3 THEN "features.close" ELSE "failed", "features.abort")
    /\ pc = "features.close" => Asks(CloseFD(host, fd), {Ok}, "console.write", "failed")
    /\ pc = "features.abort" => Asks(CloseFD(host, fd), {Ok}, "failed", "failed")
    /\ pc = "console.write" => Asks(WriteFD(host, fdToHost), {Ok}, "console.write0", "failed")
    /\ pc = "console.write0" => Asks(WriteDebug(host), {Ok}, "console.writeC", "failed")
    /\ pc = "console.writeC" =>
          /\ Asks(WriteDebug(host), {Ok},
                  IF index + 1 < AlphabetLength THEN "console.writeC" ELSE "file.create", "failed")
          /\ pc' = "console.writeC" => index' = index + 1

\* The steps of testFileIO.
FileSteps ==
    /\ pc = "file.create" => OpensFile("A", "file.write")
    /\ pc = "file.write" => Asks(WriteFD(host, fd), {Ok}, "file.close", "failed")
    /\ pc = "file.close" => Asks(CloseFD(host, fd), {Ok}, "file.writeClosed", "failed")
    /\ pc = "file.writeClosed" => Asks(WriteFD(host, fd), {Short, Err}, "file.rename", "failed")
    /\ pc = "file.rename" => Asks(RenameAB(host), {Ok}, "file.open", "failed")
    /\ pc = "file.open" => OpensFile("B", "file.length")
    /\ pc = "file.length" => Asks(FileLength(host, fd), {Ok}, "file.read", "failed")
    /\ pc = "file.read" => Asks(ReadFD(host, fd), {Ok}, "file.isTTY", "failed")
    /\ pc = "file.isTTY" => Asks(IsTTY(host, fd), {0}, "file.closeRead", "failed")
    /\ pc = "file.closeRead" => Asks(CloseFD(host, fd), {Ok}, "file.readClosed", "failed")
    /\ pc = "file.readClosed" => Asks(ReadFD(host, fd), {Short, Err}, "file.remove", "failed")
    /\ pc = "file.remove" => Asks(RemoveB(host), {Ok}, "isError", "failed") /\ index' = index

\* The steps of the tests that come after the files.
LastSteps ==
    /\ pc = "isError" =>
          /\ Asks(IsError(host, index), IsErrorGood,
                  IF index + 1 < CodeCount THEN "isError" ELSE "heapInfo", "failed")
          /\ pc' = "isError" => index' = index + 1
    /\ pc = "heapInfo" => Asks(Query(host, "heapInfo"), {Ok}, "errno.open", "failed")
    /\ pc = "errno.open" => Asks(OpenFile(host, "B"), {Err}, "errno.first", "errno.abort")
    /\ pc = "errno.abort" => Asks(CloseFD(host, fd), {Ok}, "failed", "failed")
    /\ pc = "errno.first" => Asks(LastErrno(host), {"ENOENT"}, "errno.second", "failed")
    /\ pc = "errno.second" => Asks(LastErrno(host), {"success"}, "tickFrequency", "failed")
    /\ pc = "tickFrequency" => Asks(TickFrequency(host), {Err}, "elapsed", "failed")
    /\ pc = "elapsed" => Asks(Elapsed(host), {Err}, "tempName", "failed")
    /\ pc = "tempName" => Asks(Query(host, "tempName"), {Ok}, "timekeeping", "failed")
    /\ pc = "timekeeping" => Asks(ClockTest(host), {Ok}, "intervals", "failed")
    /\ pc = "intervals" => Asks(ClockTest(host), {Ok}, "exit", "failed")
    /\ pc = "exit" => Asks(ShowExit(host), {Ok}, "exitExtended", "exitExtended")
    /\ pc = "exitExtended" => Asks(ShowExit(host), {Ok}, "passed", "passed")

TestSteps == FirstSteps /\ FileSteps /\ LastSteps

\* Console lines change no more than the error number, and not that on a host
\* that shows them without fail.
LEMMA LoggedFollows ==
    ASSUME NEW h \in HostState, NEW g \in Logged(h, fdToHost)
    PROVE  Follows(h, g)
  BY DEF Logged, Follows, HostState

\* Every outcome of a call is a host state.
LEMMA OutcomeType ==
    ASSUME NEW h \in HostState
    PROVE  /\ \A request : Plain(request) => \A o \in Answer(h, request) : o.host \in HostState
           /\ \A n : \A o \in CloseFD(h, n) : o.host \in HostState
           /\ \A stream \in {"A", "B", "features"} :
                 \A o \in OpenFile(h, stream) : o.host \in HostState
  <1>1. ASSUME NEW request, Plain(request), NEW o \in Answer(h, request)
        PROVE  o.host \in HostState
    BY <1>1, AnswerQuiet, ChangeType
  <1>2. ASSUME NEW n, NEW o \in CloseFD(h, n) PROVE o.host \in HostState
    BY <1>2, CloseCloses, ChangeType
  <1>3. ASSUME NEW stream \in {"A", "B", "features"}, NEW o \in OpenFile(h, stream)
        PROVE  o.host \in HostState
    BY <1>3, OpenFileOpens, ChangeType
  <1> QED
    BY <1>1, <1>2, <1>3

\* A call asks, and its lines follow.
LEMMA CallAsks ==
    ASSUME NEW at, NEW outcomes, NEW good, NEW next, NEW bad,
           \A o \in outcomes : o.host \in HostState,
           Call(at, outcomes, good, next, bad)
    PROVE  pc = at /\ Asks(outcomes, good, next, bad)
  <1>1. PICK o \in outcomes :
           /\ pc' = IF o.ret \in good THEN next ELSE bad
           /\ host' \in Lines(o, fdToHost, at, pc')
    BY DEF Call
  <1>2. o.host \in HostState
    OBVIOUS
  <1>3. host' = o.host \/ host' \in Logged(o.host, fdToHost)
    BY <1>1 DEF Lines
  <1>4. Follows(o.host, o.host)
    BY DEF Follows
  <1>5. Follows(o.host, host')
    BY <1>2, <1>3, <1>4, LoggedFollows
  <1>6. pc' = "errno.first" => host' = o.host
    BY <1>1 DEF Lines, Silent
  <1> QED
    BY <1>1, <1>5, <1>6 DEF Call, Asks

\* A plain request with its check asks.
LEMMA CheckAsks ==
    ASSUME TypeOK, NEW at, NEW request, NEW good, NEW next, NEW bad, Plain(request),
           Check(at, request, good, next, bad)
    PROVE  pc = at /\ Asks(Answer(host, request), good, next, bad)
  <1>1. \A o \in Answer(host, request) : o.host \in HostState
    BY OutcomeType DEF TypeOK
  <1>2. Call(at, Answer(host, request), good, next, bad)
    BY DEF Check
  <1> HIDE DEF Check
  <1> QED
    BY <1>1, <1>2, CallAsks

\* So does a close.
LEMMA CloseAsks ==
    ASSUME TypeOK, NEW at, NEW n, NEW next, NEW bad,
           Check(at, close(n), {Ok}, next, bad)
    PROVE  pc = at /\ Asks(CloseFD(host, n), {Ok}, next, bad)
  <1>1. \A o \in CloseFD(host, n) : o.host \in HostState
    BY OutcomeType DEF TypeOK
  <1>2. Call(at, CloseFD(host, n), {Ok}, next, bad)
    BY AnswerClose DEF Check
  <1> QED
    BY <1>1, <1>2, CallAsks

\* And a round of a loop.
LEMMA LoopAsks ==
    ASSUME TypeOK, NEW at, NEW request, NEW good, NEW n, NEW next, Plain(request),
           Loop(at, request, good, n, next)
    PROVE  /\ pc = at
           /\ Asks(Answer(host, request), good, IF index + 1 < n THEN at ELSE next, "failed")
  <1>1. \A o \in Answer(host, request) : o.host \in HostState
    BY OutcomeType DEF TypeOK
  <1>2. Call(at, Answer(host, request), good, IF index + 1 < n THEN at ELSE next, "failed")
    BY DEF Loop
  <1> QED
    BY <1>1, <1>2, CallAsks

\* An open of a file opens it.
LEMMA OpenAsOpens ==
    ASSUME TypeOK, NEW at, NEW path, NEW mode, NEW stream \in {"A", "B", "features"}, NEW next,
           Answer(host, open(path, mode)) = OpenFile(host, stream),
           OpenAs(at, path, mode, next)
    PROVE  pc = at /\ OpensFile(stream, next)
  <1>1. PICK o \in OpenFile(host, stream) :
          /\ fd' = o.ret
          /\ \/ /\ o.ret > 0
                /\ pc' = next
                /\ host' \in Logged(o.host, fdToHost)
             \/ /\ o.ret <= 0
                /\ pc' = "failed"
    BY DEF OpenAs
  <1>2. o.host \in HostState
    BY OutcomeType DEF TypeOK
  <1>3. host' \in Logged(o.host, fdToHost) => Follows(o.host, host')
    BY <1>2, LoggedFollows
  <1> QED
    BY <1>1, <1>3 DEF OpenAs, OpensFile

\* The open of testErrno, with its check.
LEMMA ErrnoOpenAsks ==
    ASSUME TypeOK,
           NEW o \in Answer(host, open(testFileB, OpenMode.readBinary)),
           Call("errno.open", {o}, {Err}, "errno.first", "errno.abort")
    PROVE  pc = "errno.open" /\ Asks(OpenFile(host, "B"), {Err}, "errno.first", "errno.abort")
  <1>1. o \in OpenFile(host, "B")
    BY AnswerOpenFile
  <1>2. \A p \in {o} : p.host \in HostState
    BY <1>1, OutcomeType DEF TypeOK
  <1>3. pc = "errno.open" /\ Asks({o}, {Err}, "errno.first", "errno.abort")
    BY <1>2, CallAsks
  <1> QED
    BY <1>1, <1>3 DEF Asks

\* The steps of the first two tests but the opens of the console.
LEMMA HandlesSteps ==
    ASSUME TypeOK, testConsoleHandles \/ testReadCommandLine
    PROVE  TestSteps
  <1>1. CASE Check("cmdline", readCommandLine(View("buffer", 80)), {Ok}, "tty.closeIn", "failed")
    <2>1. pc = "cmdline" /\ Asks(Query(host, "cmdline"), {Ok}, "tty.closeIn", "failed")
      BY <1>1, PlainRequests, CheckAsks, AnswerQueries
    <2> QED
      BY <2>1 DEF TestSteps, FirstSteps, FileSteps, LastSteps
  <1>2. CASE CloseIn("tty.closeIn", "tty.closeOut", "failed")
    <2>1. pc = "tty.closeIn" /\ Asks(CloseFD(host, fdFromHost), {Ok}, "tty.closeOut", "failed")
      BY <1>2, CloseAsks DEF CloseIn
    <2> QED
      BY <2>1 DEF TestSteps, FirstSteps, FileSteps, LastSteps
  <1>3. CASE CloseOut("tty.closeOut", "tty.openIn", "failed")
    <2>1. pc = "tty.closeOut" /\ Asks(CloseFD(host, fdToHost), {Ok}, "tty.openIn", "failed")
      BY <1>3, CloseAsks DEF CloseOut
    <2> QED
      BY <2>1 DEF TestSteps, FirstSteps, FileSteps, LastSteps
  <1>4. CASE OpenIn("tty.openIn", "tty.openOut")
    <2>1. pc = "tty.openIn" /\ TRUE
      BY <1>4, TRUE DEF OpenIn
    <2> QED
      BY <2>1 DEF TestSteps, FirstSteps, FileSteps, LastSteps
  <1>5. CASE OpenOut("tty.openOut", "tty.isInTTY", "failed")
    <2>1. pc = "tty.openOut" /\ TRUE
      BY <1>5, TRUE DEF OpenOut
    <2> QED
      BY <2>1 DEF TestSteps, FirstSteps, FileSteps, LastSteps
  <1>6. CASE Check("tty.isInTTY", isTTY(fdFromHost), {1}, "tty.isOutTTY", "failed")
    <2>1. pc = "tty.isInTTY" /\ Asks(IsTTY(host, fdFromHost), {1}, "tty.isOutTTY", "failed")
      BY <1>6, PlainRequests, CheckAsks, AnswerTransfer
    <2> QED
      BY <2>1 DEF TestSteps, FirstSteps, FileSteps, LastSteps
  <1>7. CASE Check("tty.isOutTTY", isTTY(fdToHost), {1},
                   IF HandlesAsExpected THEN "features.open" ELSE "failed", "failed")
    <2>1. /\ pc = "tty.isOutTTY"
          /\ Asks(IsTTY(host, fdToHost), {1},
                  IF HandlesAsExpected THEN "features.open" ELSE "failed", "failed")
      BY <1>7, PlainRequests, CheckAsks, AnswerTransfer
    <2> QED
      BY <2>1 DEF TestSteps, FirstSteps, FileSteps, LastSteps
  <1> QED
    BY <1>1, <1>2, <1>3, <1>4, <1>5, <1>6, <1>7 DEF testConsoleHandles, testReadCommandLine

\* The steps of testSemihostingFeatures.
LEMMA FeaturesSteps ==
    ASSUME TypeOK, testSemihostingFeatures
    PROVE  TestSteps
  <1>1. CASE OpenAs("features.open", featuresFile, OpenMode.read, "features.length")
    <2>1. pc = "features.open" /\ OpensFile("features", "features.length")
      BY <1>1, AnswerOpenFile, OpenAsOpens
    <2> QED
      BY <2>1 DEF TestSteps, FirstSteps, FileSteps, LastSteps
  <1>2. CASE Check("features.length", fileLength(fd), {Ok}, "features.magic", "features.abort")
    <2>1. /\ pc = "features.length"
          /\ Asks(FileLength(host, fd), {Ok}, "features.magic", "features.abort")
      BY <1>2, PlainRequests, CheckAsks, AnswerTransfer
    <2> QED
      BY <2>1 DEF TestSteps, FirstSteps, FileSteps, LastSteps
  <1>3. CASE Check("features.magic", read(fd, View("magic", 4)), {Ok},
                   "features.byte", "features.abort")
    <2>1. pc = "features.magic" /\ Asks(ReadFD(host, fd), {Ok}, "features.byte", "features.abort")
      BY <1>3, PlainRequests, CheckAsks, AnswerTransfer
    <2> QED
      BY <2>1 DEF TestSteps, FirstSteps, FileSteps, LastSteps
  <1>4. CASE Check("features.byte", read(fd, View("byte", 1)), {Ok, Wrong},
                   IF FeaturesByte(host) = 3 THEN "features.close" ELSE "failed", "features.abort")
    <2>1. /\ pc = "features.byte"
          /\ Asks(ReadFD(host, fd), {Ok, Wrong},
                  IF FeaturesByte(host) = 3 THEN "features.close" ELSE "failed", "features.abort")
      BY <1>4, PlainRequests, CheckAsks, AnswerTransfer
    <2> QED
      BY <2>1 DEF TestSteps, FirstSteps, FileSteps, LastSteps
  <1>5. CASE CloseFile("features.close", "console.write")
    <2>1. pc = "features.close" /\ Asks(CloseFD(host, fd), {Ok}, "console.write", "failed")
      BY <1>5, CloseAsks DEF CloseFile
    <2> QED
      BY <2>1 DEF TestSteps, FirstSteps, FileSteps, LastSteps
  <1>6. CASE Check("features.abort", close(fd), {Ok}, "failed", "failed")
    <2>1. pc = "features.abort" /\ Asks(CloseFD(host, fd), {Ok}, "failed", "failed")
      BY <1>6, CloseAsks
    <2> QED
      BY <2>1 DEF TestSteps, FirstSteps, FileSteps, LastSteps
  <1> QED
    BY <1>1, <1>2, <1>3, <1>4, <1>5, <1>6 DEF testSemihostingFeatures

\* The steps of testConsoleWrite.
LEMMA WriteSteps ==
    ASSUME TypeOK, testConsoleWrite
    PROVE  TestSteps
  <1>1. CASE Check("console.write", write(fdToHost, alphabet), {Ok}, "console.write0", "failed")
    <2>1. pc = "console.write" /\ Asks(WriteFD(host, fdToHost), {Ok}, "console.write0", "failed")
      BY <1>1, PlainRequests, CheckAsks, AnswerTransfer
    <2> QED
      BY <2>1 DEF TestSteps, FirstSteps, FileSteps, LastSteps
  <1>2. CASE Check("console.write0", writeNul(alphabet.data), {Ok}, "console.writeC", "failed")
    <2>1. pc = "console.write0" /\ Asks(WriteDebug(host), {Ok}, "console.writeC", "failed")
      BY <1>2, PlainRequests, CheckAsks, AnswerQueries
    <2> QED
      BY <2>1 DEF TestSteps, FirstSteps, FileSteps, LastSteps
  <1>3. CASE Loop("console.writeC", writeChar("chr"), {Ok}, alphabet.length, "file.create")
    <2>1. /\ pc = "console.writeC"
          /\ Asks(Answer(host, writeChar("chr")), {Ok},
                  IF index + 1 < alphabet.length THEN "console.writeC" ELSE "file.create", "failed")
      <3>1. Plain(writeChar("chr"))
        BY PlainRequests
      <3> QED
        BY <1>3, <3>1, LoopAsks, Zenon
    <2>2. Answer(host, writeChar("chr")) = WriteDebug(host) /\ alphabet.length = AlphabetLength
      BY AnswerQueries DEF alphabet, View
    <2>3. pc' = "console.writeC" => index' = index + 1
      BY <1>3, Zenon DEF Loop
    <2> QED
      BY <2>1, <2>2, <2>3 DEF TestSteps, FirstSteps, FileSteps, LastSteps
  <1> QED
    BY <1>1, <1>2, <1>3 DEF testConsoleWrite

\* The steps of testFileIO.
LEMMA FileIOSteps ==
    ASSUME TypeOK, testFileIO
    PROVE  TestSteps
  <1>1. CASE OpenAs("file.create", testFileA, OpenMode.writeBinary, "file.write")
    <2>1. pc = "file.create" /\ OpensFile("A", "file.write")
      BY <1>1, AnswerOpenFile, OpenAsOpens
    <2> QED
      BY <2>1 DEF TestSteps, FirstSteps, FileSteps, LastSteps
  <1>2. CASE Check("file.write", write(fd, alphabet), {Ok}, "file.close", "failed")
    <2>1. pc = "file.write" /\ Asks(WriteFD(host, fd), {Ok}, "file.close", "failed")
      BY <1>2, PlainRequests, CheckAsks, AnswerTransfer
    <2> QED
      BY <2>1 DEF TestSteps, FirstSteps, FileSteps, LastSteps
  <1>3. CASE CloseFile("file.close", "file.writeClosed")
    <2>1. pc = "file.close" /\ Asks(CloseFD(host, fd), {Ok}, "file.writeClosed", "failed")
      BY <1>3, CloseAsks DEF CloseFile
    <2> QED
      BY <2>1 DEF TestSteps, FirstSteps, FileSteps, LastSteps
  <1>4. CASE Check("file.writeClosed", write(fd, alphabet), {Short, Err}, "file.rename", "failed")
    <2>1. pc = "file.writeClosed" /\ Asks(WriteFD(host, fd), {Short, Err}, "file.rename", "failed")
      BY <1>4, PlainRequests, CheckAsks, AnswerTransfer
    <2> QED
      BY <2>1 DEF TestSteps, FirstSteps, FileSteps, LastSteps
  <1>5. CASE Check("file.rename", rename(testFileA, testFileB), {Ok}, "file.open", "failed")
    <2>1. pc = "file.rename" /\ Asks(RenameAB(host), {Ok}, "file.open", "failed")
      BY <1>5, PlainRequests, CheckAsks, AnswerNames
    <2> QED
      BY <2>1 DEF TestSteps, FirstSteps, FileSteps, LastSteps
  <1>6. CASE OpenAs("file.open", testFileB, OpenMode.readBinary, "file.length")
    <2>1. pc = "file.open" /\ OpensFile("B", "file.length")
      BY <1>6, AnswerOpenFile, OpenAsOpens
    <2> QED
      BY <2>1 DEF TestSteps, FirstSteps, FileSteps, LastSteps
  <1>7. CASE Check("file.length", fileLength(fd), {Ok}, "file.read", "failed")
    <2>1. pc = "file.length" /\ Asks(FileLength(host, fd), {Ok}, "file.read", "failed")
      BY <1>7, PlainRequests, CheckAsks, AnswerTransfer
    <2> QED
      BY <2>1 DEF TestSteps, FirstSteps, FileSteps, LastSteps
  <1>8. CASE Check("file.read", read(fd, buffer), {Ok}, "file.isTTY", "failed")
    <2>1. pc = "file.read" /\ Asks(ReadFD(host, fd), {Ok}, "file.isTTY", "failed")
      BY <1>8, PlainRequests, CheckAsks, AnswerTransfer
    <2> QED
      BY <2>1 DEF TestSteps, FirstSteps, FileSteps, LastSteps
  <1>9. CASE Check("file.isTTY", isTTY(fd), {0}, "file.closeRead", "failed")
    <2>1. pc = "file.isTTY" /\ Asks(IsTTY(host, fd), {0}, "file.closeRead", "failed")
      BY <1>9, PlainRequests, CheckAsks, AnswerTransfer
    <2> QED
      BY <2>1 DEF TestSteps, FirstSteps, FileSteps, LastSteps
  <1>10. CASE CloseFile("file.closeRead", "file.readClosed")
    <2>1. pc = "file.closeRead" /\ Asks(CloseFD(host, fd), {Ok}, "file.readClosed", "failed")
      BY <1>10, CloseAsks DEF CloseFile
    <2> QED
      BY <2>1 DEF TestSteps, FirstSteps, FileSteps, LastSteps
  <1>11. CASE Check("file.readClosed", read(fd, buffer), {Short, Err}, "file.remove", "failed")
    <2>1. pc = "file.readClosed" /\ Asks(ReadFD(host, fd), {Short, Err}, "file.remove", "failed")
      BY <1>11, PlainRequests, CheckAsks, AnswerTransfer
    <2> QED
      BY <2>1 DEF TestSteps, FirstSteps, FileSteps, LastSteps
  <1>12. CASE Check("file.remove", remove(testFileB), {Ok}, "isError", "failed")
    <2>1. pc = "file.remove" /\ Asks(RemoveB(host), {Ok}, "isError", "failed") /\ index' = index
      BY <1>12, PlainRequests, CheckAsks, AnswerNames DEF Check
    <2> QED
      BY <2>1 DEF TestSteps, FirstSteps, FileSteps, LastSteps
  <1> QED
    BY <1>1, <1>2, <1>3, <1>4, <1>5, <1>6, <1>7, <1>8, <1>9, <1>10, <1>11, <1>12
       DEF testFileIO, writeFileA, readFileB

\* The steps of testErrno.
LEMMA ErrnoSteps ==
    ASSUME TypeOK, testErrno
    PROVE  TestSteps
  <1>1. CASE \E o \in Answer(host, open(testFileB, OpenMode.readBinary)) :
               Call("errno.open", {o}, {Err}, "errno.first", "errno.abort")
    <2>1. pc = "errno.open" /\ Asks(OpenFile(host, "B"), {Err}, "errno.first", "errno.abort")
      BY <1>1, ErrnoOpenAsks
    <2> QED
      BY <2>1 DEF TestSteps, FirstSteps, FileSteps, LastSteps
  <1>2. CASE Check("errno.abort", close(fd), {Ok}, "failed", "failed")
    <2>1. pc = "errno.abort" /\ Asks(CloseFD(host, fd), {Ok}, "failed", "failed")
      BY <1>2, CloseAsks
    <2> QED
      BY <2>1 DEF TestSteps, FirstSteps, FileSteps, LastSteps
  <1>3. CASE Check("errno.first", lastErrno, {"ENOENT"}, "errno.second", "failed")
    <2>1. pc = "errno.first" /\ Asks(LastErrno(host), {"ENOENT"}, "errno.second", "failed")
      BY <1>3, PlainRequests, CheckAsks, AnswerQueries
    <2> QED
      BY <2>1 DEF TestSteps, FirstSteps, FileSteps, LastSteps
  <1>4. CASE Check("errno.second", lastErrno, {"success"}, "tickFrequency", "failed")
    <2>1. pc = "errno.second" /\ Asks(LastErrno(host), {"success"}, "tickFrequency", "failed")
      BY <1>4, PlainRequests, CheckAsks, AnswerQueries
    <2> QED
      BY <2>1 DEF TestSteps, FirstSteps, FileSteps, LastSteps
  <1> QED
    BY <1>1, <1>2, <1>3, <1>4 DEF testErrno

\* The steps of the tests that only ask.
LEMMA QuerySteps ==
    ASSUME TypeOK, testIsError \/ testHeapInfo \/ testTiming \/ testTempName \/ testTimekeeping
                     \/ testIntervals \/ testExits
    PROVE  TestSteps
  <1>1. CASE Loop("isError", isError(index), IsErrorGood, CodeCount, "heapInfo")
    <2>1. /\ pc = "isError"
          /\ Asks(IsError(host, index), IsErrorGood,
                  IF index + 1 < CodeCount THEN "isError" ELSE "heapInfo", "failed")
          /\ pc' = "isError" => index' = index + 1
      BY <1>1, PlainRequests, LoopAsks, AnswerTransfer DEF Loop
    <2> QED
      BY <2>1 DEF TestSteps, FirstSteps, FileSteps, LastSteps
  <1>2. CASE Check("heapInfo", heapInfo("markers"), {Ok}, "errno.open", "failed")
    <2>1. pc = "heapInfo" /\ Asks(Query(host, "heapInfo"), {Ok}, "errno.open", "failed")
      BY <1>2, PlainRequests, CheckAsks, AnswerQueries
    <2> QED
      BY <2>1 DEF TestSteps, FirstSteps, FileSteps, LastSteps
  <1>3. CASE Check("tickFrequency", tickFrequency, {Err}, "elapsed", "failed")
    <2>1. pc = "tickFrequency" /\ Asks(TickFrequency(host), {Err}, "elapsed", "failed")
      BY <1>3, PlainRequests, CheckAsks, AnswerQueries
    <2> QED
      BY <2>1 DEF TestSteps, FirstSteps, FileSteps, LastSteps
  <1>4. CASE Check("elapsed", elapsedTime("ticks"), {Err}, "tempName", "failed")
    <2>1. pc = "elapsed" /\ Asks(Elapsed(host), {Err}, "tempName", "failed")
      BY <1>4, PlainRequests, CheckAsks, AnswerQueries
    <2> QED
      BY <2>1 DEF TestSteps, FirstSteps, FileSteps, LastSteps
  <1>5. CASE Check("tempName", tempName(View("buffer", 32), 10), {Ok}, "timekeeping", "failed")
    <2>1. pc = "tempName" /\ Asks(Query(host, "tempName"), {Ok}, "timekeeping", "failed")
      BY <1>5, PlainRequests, CheckAsks, AnswerNames
    <2> QED
      BY <2>1 DEF TestSteps, FirstSteps, FileSteps, LastSteps
  <1>6. CASE Check("timekeeping", time, {Ok}, "intervals", "failed")
    <2>1. pc = "timekeeping" /\ Asks(ClockTest(host), {Ok}, "intervals", "failed")
      BY <1>6, PlainRequests, CheckAsks, AnswerQueries
    <2> QED
      BY <2>1 DEF TestSteps, FirstSteps, FileSteps, LastSteps
  <1>7. CASE Check("intervals", clock, {Ok}, "exit", "failed")
    <2>1. pc = "intervals" /\ Asks(ClockTest(host), {Ok}, "exit", "failed")
      BY <1>7, PlainRequests, CheckAsks, AnswerQueries
    <2> QED
      BY <2>1 DEF TestSteps, FirstSteps, FileSteps, LastSteps
  <1>8. CASE Check("exit", exit(applicationExit), {Ok}, "exitExtended", "exitExtended")
    <2>1. pc = "exit" /\ Asks(ShowExit(host), {Ok}, "exitExtended", "exitExtended")
      BY <1>8, PlainRequests, CheckAsks, AnswerQueries
    <2> QED
      BY <2>1 DEF TestSteps, FirstSteps, FileSteps, LastSteps
  <1>9. CASE Check("exitExtended", exitExtended(applicationExit, 25), {Ok}, "passed", "passed")
    <2>1. pc = "exitExtended" /\ Asks(ShowExit(host), {Ok}, "passed", "passed")
      BY <1>9, PlainRequests, CheckAsks, AnswerQueries
    <2> QED
      BY <2>1 DEF TestSteps, FirstSteps, FileSteps, LastSteps
  <1> QED
    BY <1>1, <1>2, <1>3, <1>4, <1>5, <1>6, <1>7, <1>8, <1>9
       DEF testIsError, IsErrorGood, testHeapInfo, testTiming, testTempName,
           testTimekeeping, testIntervals, testExits

\* The steps of all tests.
LEMMA StepsByLabel ==
    ASSUME TypeOK, testSemihosting
    PROVE  TestSteps
  BY HandlesSteps, FeaturesSteps, WriteSteps, FileIOSteps, ErrnoSteps, QuerySteps
     DEF testSemihosting

\* What comes after what in the tests.
Flow ==
    \/ pc = "cmdline" /\ pc' \in {"tty.closeIn", "failed"}
    \/ pc = "tty.closeIn" /\ pc' \in {"tty.closeOut", "failed"}
    \/ pc = "tty.closeOut" /\ pc' \in {"tty.openIn", "failed"}
    \/ pc = "tty.openIn" /\ pc' \in {"tty.openOut"}
    \/ pc = "tty.openOut" /\ pc' \in {"tty.isInTTY", "failed"}
    \/ pc = "tty.isInTTY" /\ pc' \in {"tty.isOutTTY", "failed"}
    \/ pc = "tty.isOutTTY" /\ pc' \in {"features.open", "failed"}
    \/ pc = "features.open" /\ pc' \in {"features.length", "failed"}
    \/ pc = "features.length" /\ pc' \in {"features.magic", "features.abort"}
    \/ pc = "features.magic" /\ pc' \in {"features.byte", "features.abort"}
    \/ pc = "features.byte" /\ pc' \in {"features.close", "features.abort", "failed"}
    \/ pc = "features.close" /\ pc' \in {"console.write", "failed"}
    \/ pc = "features.abort" /\ pc' \in {"failed"}
    \/ pc = "console.write" /\ pc' \in {"console.write0", "failed"}
    \/ pc = "console.write0" /\ pc' \in {"console.writeC", "failed"}
    \/ pc = "console.writeC" /\ pc' \in {"console.writeC", "file.create", "failed"}
    \/ pc = "file.create" /\ pc' \in {"file.write", "failed"}
    \/ pc = "file.write" /\ pc' \in {"file.close", "failed"}
    \/ pc = "file.close" /\ pc' \in {"file.writeClosed", "failed"}
    \/ pc = "file.writeClosed" /\ pc' \in {"file.rename", "failed"}
    \/ pc = "file.rename" /\ pc' \in {"file.open", "failed"}
    \/ pc = "file.open" /\ pc' \in {"file.length", "failed"}
    \/ pc = "file.length" /\ pc' \in {"file.read", "failed"}
    \/ pc = "file.read" /\ pc' \in {"file.isTTY", "failed"}
    \/ pc = "file.isTTY" /\ pc' \in {"file.closeRead", "failed"}
    \/ pc = "file.closeRead" /\ pc' \in {"file.readClosed", "failed"}
    \/ pc = "file.readClosed" /\ pc' \in {"file.remove", "failed"}
    \/ pc = "file.remove" /\ pc' \in {"isError", "failed"}
    \/ pc = "isError" /\ pc' \in {"isError", "heapInfo", "failed"}
    \/ pc = "heapInfo" /\ pc' \in {"errno.open", "failed"}
    \/ pc = "errno.open" /\ pc' \in {"errno.first", "errno.abort"}
    \/ pc = "errno.first" /\ pc' \in {"errno.second", "failed"}
    \/ pc = "errno.second" /\ pc' \in {"tickFrequency", "failed"}
    \/ pc = "errno.abort" /\ pc' \in {"failed"}
    \/ pc = "tickFrequency" /\ pc' \in {"elapsed", "failed"}
    \/ pc = "elapsed" /\ pc' \in {"tempName", "failed"}
    \/ pc = "tempName" /\ pc' \in {"timekeeping", "failed"}
    \/ pc = "timekeeping" /\ pc' \in {"intervals", "failed"}
    \/ pc = "intervals" /\ pc' \in {"exit", "failed"}
    \/ pc = "exit" /\ pc' \in {"exitExtended"}
    \/ pc = "exitExtended" /\ pc' \in {"passed"}

\* The tests go from label to label as Flow says.
LEMMA TestsFlow ==
    ASSUME TypeOK, testSemihosting
    PROVE  Flow
  <1>1. TestSteps
    BY StepsByLabel
  <1>2. \A outcomes, good, next, bad : Asks(outcomes, good, next, bad) => pc' \in {next, bad}
    BY DEF Asks
  <1>3. \A stream, next : OpensFile(stream, next) => pc' \in {next, "failed"}
    BY DEF OpensFile
  <1>4. CASE testReadCommandLine \/ testConsoleHandles
    <2>1. CASE OpenIn("tty.openIn", "tty.openOut")
      BY <2>1 DEF OpenIn, Flow
    <2>2. CASE OpenOut("tty.openOut", "tty.isInTTY", "failed")
      BY <2>2 DEF OpenOut, Flow
    <2>3. CASE pc \in {"cmdline", "tty.closeIn", "tty.closeOut", "tty.isInTTY", "tty.isOutTTY"}
      BY <1>1, <1>2, <2>3 DEF TestSteps, FirstSteps, Flow
    <2> QED
      BY <1>4, <2>1, <2>2, <2>3
         DEF testReadCommandLine, testConsoleHandles, CloseIn, CloseOut, Check, Call
  <1>5. CASE testSemihostingFeatures
    <2>1. pc \in {"features.open", "features.length", "features.magic", "features.byte",
                  "features.close", "features.abort"}
      BY <1>5 DEF testSemihostingFeatures, OpenAs, CloseFile, Check, Call
    <2> QED
      BY <1>1, <1>2, <1>3, <2>1 DEF TestSteps, FirstSteps, Flow
  <1>6. CASE testConsoleWrite
    <2>1. pc \in {"console.write", "console.write0", "console.writeC"}
      BY <1>6 DEF testConsoleWrite, Check, Loop, Call
    <2> QED
      BY <1>1, <1>2, <2>1 DEF TestSteps, FirstSteps, Flow
  <1>7. CASE testFileIO
    <2>1. pc \in {"file.create", "file.write", "file.close", "file.writeClosed",
                  "file.rename", "file.open", "file.length", "file.read", "file.isTTY",
                  "file.closeRead", "file.readClosed", "file.remove"}
      BY <1>7 DEF testFileIO, writeFileA, readFileB, OpenAs, CloseFile, Check, Call
    <2> QED
      BY <1>1, <1>2, <1>3, <2>1 DEF TestSteps, FileSteps, Flow
  <1>8. CASE testIsError \/ testHeapInfo \/ testErrno \/ testTiming
    <2>1. pc \in {"isError", "heapInfo", "errno.open", "errno.abort", "errno.first",
                  "errno.second", "tickFrequency", "elapsed"}
      BY <1>8 DEF testIsError, testHeapInfo, testErrno, testTiming, Loop, Check, Call
    <2> QED
      BY <1>1, <1>2, <2>1 DEF TestSteps, LastSteps, Flow
  <1>9. CASE testTempName \/ testTimekeeping \/ testIntervals \/ testExits
    <2>1. pc \in {"tempName", "timekeeping", "intervals", "exit", "exitExtended"}
      BY <1>9 DEF testTempName, testTimekeeping, testIntervals, testExits, Check, Call
    <2> QED
      BY <1>1, <1>2, <2>1 DEF TestSteps, LastSteps, Flow
  <1> QED
    BY <1>4, <1>5, <1>6, <1>7, <1>8, <1>9 DEF testSemihosting

\* Where the tests come to a label past a check, they pass it.
LEMMA Entries ==
    ASSUME Flow
    PROVE  /\ pc' \in PastClocks => pc \in PastClocks \/ pc = "timekeeping"
           /\ pc' \in PastTempName => pc \in PastTempName \/ pc = "tempName"
           /\ pc' \in PastElapsed => pc \in PastElapsed \/ pc = "elapsed"
           /\ pc' \in PastTick => pc \in PastTick \/ pc = "tickFrequency"
           /\ pc' \in PastSecond => pc \in PastSecond \/ pc = "errno.second"
           /\ pc' \in PastFirst => pc \in PastFirst \/ pc = "errno.first"
           /\ pc' \in PastHeap => pc \in PastHeap \/ pc = "heapInfo"
           /\ pc' \in PastCodes => pc \in PastCodes \/ pc = "isError"
           /\ pc' \in PastRemove => pc \in PastRemove \/ pc = "file.remove"
           /\ pc' \in PastRead => pc \in PastRead \/ pc = "file.read"
           /\ pc' \in PastRename => pc \in PastRename \/ pc = "file.rename"
           /\ pc' \in PastClosed => pc \in PastClosed \/ pc = "file.writeClosed"
           /\ pc' \in PastFeatures => pc \in PastFeatures \/ pc = "features.byte"
           /\ pc' \in PastLength => pc \in PastLength \/ pc = "features.length"
           /\ pc' \in PastHandles => pc \in PastHandles \/ pc = "tty.isOutTTY"
           /\ pc' \in PastCmdline => pc \in PastCmdline \/ pc = "cmdline"
  <1> USE DEF PastClocks, PastTempName, PastElapsed, PastTick, PastSecond, PastFirst,
           PastHeap, PastCodes, PastRemove, PastRead, PastRename, PastClosed, PastFeatures,
           PastLength, PastHandles, PastCmdline
  <1>1. pc' \in PastClocks => pc \in PastClocks \/ pc = "timekeeping"
    BY DEF Flow
  <1>2. pc' \in PastTempName => pc \in PastTempName \/ pc = "tempName"
    BY DEF Flow
  <1>3. pc' \in PastElapsed => pc \in PastElapsed \/ pc = "elapsed"
    BY DEF Flow
  <1>4. pc' \in PastTick => pc \in PastTick \/ pc = "tickFrequency"
    BY DEF Flow
  <1>5. pc' \in PastSecond => pc \in PastSecond \/ pc = "errno.second"
    BY DEF Flow
  <1>6. pc' \in PastFirst => pc \in PastFirst \/ pc = "errno.first"
    BY DEF Flow
  <1>7. pc' \in PastHeap => pc \in PastHeap \/ pc = "heapInfo"
    BY DEF Flow
  <1>8. pc' \in PastCodes => pc \in PastCodes \/ pc = "isError"
    BY DEF Flow
  <1>9. pc' \in PastRemove => pc \in PastRemove \/ pc = "file.remove"
    BY DEF Flow
  <1>10. pc' \in PastRead => pc \in PastRead \/ pc = "file.read"
    BY DEF Flow
  <1>11. pc' \in PastRename => pc \in PastRename \/ pc = "file.rename"
    BY DEF Flow
  <1>12. pc' \in PastClosed => pc \in PastClosed \/ pc = "file.writeClosed"
    BY DEF Flow
  <1>13. pc' \in PastFeatures => pc \in PastFeatures \/ pc = "features.byte"
    BY DEF Flow
  <1>14. pc' \in PastLength => pc \in PastLength \/ pc = "features.length"
    BY DEF Flow
  <1>15. pc' \in PastHandles => pc \in PastHandles \/ pc = "tty.isOutTTY"
    BY DEF Flow
  <1>16. pc' \in PastCmdline => pc \in PastCmdline \/ pc = "cmdline"
    BY DEF Flow
  <1> QED
    BY <1>1, <1>2, <1>3, <1>4, <1>5, <1>6, <1>7, <1>8, <1>9, <1>10,
       <1>11, <1>12, <1>13, <1>14, <1>15, <1>16

\* A kind of step leaves the host's defects and the history as they are.
LEMMA KindKeeps ==
    ASSUME StepKind
    PROVE  /\ host'.regression = host.regression /\ host'.mood = host.mood
           /\ host' \in HostState
           /\ UNCHANGED run
           /\ MayHoldFile => fd' = fd
  BY DEF StepKind, QuietStep, FileOpenStep, FileCloseStep, ConsoleCloseStep, ConsoleOpenStep,
         Quiet, MayClose, Opens

-----------------------------------------------------------------------------
(***************************************************************************)
(* What passing a check says about the host.                               *)
(***************************************************************************)

USE DEF Ok, Short, Wrong, Err, stdinFD, stdoutFD

\* A call that is gone on from had a good answer.
LEMMA Passed ==
    ASSUME NEW outcomes, NEW good, NEW next, NEW bad,
           Asks(outcomes, good, next, bad), pc' # bad
    PROVE  \E o \in outcomes : /\ o.ret \in good /\ pc' = next
                               /\ Follows(o.host, host')
                               /\ pc' = "errno.first" => host' = o.host
  BY DEF Asks

\* A failure's answer is -1.
LEMMA FlakeFails ==
    ASSUME NEW h, NEW o \in Flake(h)
    PROVE  o.ret = Err /\ h.mood = "flaky"
  BY DEF Flake, Failure, Outcome

\* A right answer to a question is not one of the regression about it.
LEMMA QueryPassed ==
    ASSUME NEW r, NEW next, NEW bad, Asks(Query(host, r), {Ok}, next, bad), pc' # bad
    PROVE  host.regression # r
  <1>1. PICK o \in Query(host, r) : o.ret = Ok
    BY Passed
  <1> QED
    BY <1>1, FlakeFails DEF Query, Outcome

\* A clock test is not passed on a host with a wrong clock.
LEMMA ClockPassed ==
    ASSUME NEW next, NEW bad, Asks(ClockTest(host), {Ok}, next, bad), pc' # bad
    PROVE  host.regression # "clock"
  <1>1. PICK o \in ClockTest(host) : o.ret = Ok
    BY Passed
  <1> QED
    BY <1>1, FlakeFails DEF ClockTest, Outcome

\* A failure is the right answer of what the probe does not implement.
LEMMA TickPassed ==
    ASSUME NEW next, NEW bad, Asks(TickFrequency(host), {Err}, next, bad), pc' # bad
    PROVE  host.regression # "tickFreq"
  <1>1. PICK o \in TickFrequency(host) : o.ret = Err
    BY Passed
  <1> QED
    BY <1>1 DEF TickFrequency, Outcome

\* And with no tick count written.
LEMMA ElapsedPassed ==
    ASSUME NEW next, NEW bad, Asks(Elapsed(host), {Err}, next, bad), pc' # bad
    PROVE  host.regression # "elapsed"
  <1>1. PICK o \in Elapsed(host) : o.ret = Err
    BY Passed
  <1> QED
    BY <1>1 DEF Elapsed, Outcome

\* The output handle passes for a console, with the right number, on a host
\* that numbers the ends of the console right and tells consoles from files.
LEMMA HandlesPassed ==
    ASSUME TypeOK, ReportInv,
           Asks(IsTTY(host, fdToHost), {1},
                IF HandlesAsExpected THEN "features.open" ELSE "failed", "failed"),
           pc' # "failed"
    PROVE  host.regression \notin {"handles", "isTTY"}
  <1>1. PICK o \in IsTTY(host, fdToHost) :
          /\ o.ret = 1
          /\ pc' = IF HandlesAsExpected THEN "features.open" ELSE "failed"
    BY Passed
  <1>2. fdToHost = stdoutFD
    BY <1>1 DEF HandlesAsExpected
  <1>3. fdToHost = TTYNumber(host, "ttyOut") /\ host.open[fdToHost] \in {"closed", "ttyOut"}
    BY <1>2 DEF ReportInv
  <1>4. host.regression # "handles"
    BY <1>2, <1>3 DEF TTYNumber
  <1>5. IsOpen(host, fdToHost)
    BY <1>1 DEF IsTTY, Failure, Outcome
  <1>6. host.open[fdToHost] = "ttyOut"
    BY <1>3, <1>5 DEF IsOpen
  <1>7. host.regression # "isTTY"
    BY <1>1, <1>5, <1>6, FlakeFails DEF IsTTY, Outcome
  <1> QED
    BY <1>4, <1>7

\* The length of a file is right only on a host that knows lengths.
LEMMA LengthPassed ==
    ASSUME NEW next, NEW bad, Asks(FileLength(host, fd), {Ok}, next, bad), pc' # bad
    PROVE  host.regression # "length"
  <1>1. PICK o \in FileLength(host, fd) : o.ret = Ok
    BY Passed
  <1> QED
    BY <1>1, FlakeFails DEF FileLength, Failure, Outcome

\* The features byte is right only on a host that reads, and has it right.
LEMMA FeaturesPassed ==
    ASSUME Asks(ReadFD(host, fd), {Ok, Wrong},
                IF FeaturesByte(host) = 3 THEN "features.close" ELSE "failed",
                "features.abort"),
           pc' \notin {"features.abort", "failed"}
    PROVE  host.regression \notin {"features", "read"}
  <1>1. FeaturesByte(host) = 3
    BY Passed
  <1> QED
    BY <1>1 DEF FeaturesByte

\* The write after the close fails, without reason only on a failing host.
LEMMA ClosePassed ==
    ASSUME TypeOK, fd \in FileHandles, host.open[fd] = "A",
           Asks(WriteFD(host, fd), {Short, Err}, "file.rename", "failed"),
           pc' # "failed"
    PROVE  host.mood = "flaky"
  <1>1. PICK o \in WriteFD(host, fd) : o.ret \in {Short, Err}
    BY Passed
  <1>2. IsOpen(host, fd) /\ ~IsConsole(host, fd)
    BY HandleNumbers DEF IsOpen, IsConsole
  <1>3. \/ o.ret = Ok \/ o \in Flake(host)
        \/ o \in (IF host.mood = "flaky"
                  THEN {Outcome(Short, [host EXCEPT !.files["A"] = "part"])} ELSE {})
    BY <1>2 DEF WriteFD, Outcome
  <1> QED
    BY <1>1, <1>3, FlakeFails

\* What is read from file B is right only if file B is.
LEMMA ReadPassed ==
    ASSUME TypeOK, fd \in FileHandles, host.open[fd] = "B",
           Asks(ReadFD(host, fd), {Ok}, "file.isTTY", "failed"), pc' # "failed"
    PROVE  host.files["B"] = "alphabet"
  <1>1. PICK o \in ReadFD(host, fd) : o.ret = Ok
    BY Passed
  <1>2. IsOpen(host, fd)
    BY HandleNumbers DEF IsOpen
  <1>3. \/ o \in Flake(host)
        \/ /\ host.files["B"] \in {"alphabet", "garbled"}
           /\ o.ret = IF host.files["B"] = "garbled" \/ host.regression = "read"
                      THEN Wrong ELSE Ok
        \/ o.ret = Short
    BY <1>2 DEF ReadFD, Outcome
  <1> QED
    BY <1>1, <1>3, FlakeFails

\* A misjudged code does not pass, unless a failure passes for the answer.
LEMMA CodePassed ==
    ASSUME CodesMisjudged, NEW next,
           Asks(IsError(host, index), IsErrorGood, next, "failed"), pc' # "failed"
    PROVE  index # MisjudgedCode
  <1> SUFFICES ASSUME index = MisjudgedCode PROVE FALSE
    OBVIOUS
  <1>1. PICK o \in IsError(host, index) : o.ret \in IsErrorGood
    BY Passed
  <1>2. (o.ret # 0) = (index \in fileIOErrno)
    BY <1>1 DEF IsErrorGood, SaysError
  <1>3. \/ o \in Flake(host)
        \/ o.ret = IF index \in FileIOErrno THEN 0 ELSE 1
    BY DEF CodesMisjudged, IsError, Outcome
  <1>4. FileIOErrno = fileIOErrno
    BY DEF FileIOErrno, fileIOErrno
  <1>5. CASE o \in Flake(host)
    BY <1>2, <1>5, FlakeFails DEF CodesMisjudged
  <1>6. CASE o.ret = IF index \in FileIOErrno THEN 0 ELSE 1
    BY <1>2, <1>4, <1>6
  <1> QED
    BY <1>3, <1>5, <1>6

\* The first error number is that of the open only if the open reported it.
LEMMA FirstPassed ==
    ASSUME Asks(LastErrno(host), {"ENOENT"}, "errno.second", "failed"), pc' # "failed"
    PROVE  host.errno = "ENOENT"
  <1>1. PICK o \in LastErrno(host) : o.ret = "ENOENT"
    BY Passed
  <1> QED
    BY <1>1 DEF LastErrno, Outcome

\* The second one is none only if the first report cleared it.
LEMMA SecondPassed ==
    ASSUME Asks(LastErrno(host), {"success"}, "tickFrequency", "failed"), pc' # "failed"
    PROVE  host.errno = "success"
  <1>1. PICK o \in LastErrno(host) : o.ret = "success"
    BY Passed
  <1> QED
    BY <1>1 DEF LastErrno, Outcome

\* A close that succeeds closes, or leaves everything as it is.
LEMMA CloseDone ==
    ASSUME NEW n, NEW next, NEW bad, Asks(CloseFD(host, n), {Ok}, next, bad), pc' # bad,
           host \in HostState
    PROVE  /\ IsOpen(host, n)
           /\ LeavesOpen(host, n)  => host'.open = host.open
           /\ ~LeavesOpen(host, n) => host'.open = [host.open EXCEPT ![n] = "closed"]
  <1>1. PICK o \in CloseFD(host, n) : o.ret = Ok /\ Follows(o.host, host')
    BY Passed
  <1>2. IsOpen(host, n)
    BY <1>1 DEF CloseFD, Failure, Outcome
  <1>3. o.host = IF LeavesOpen(host, n) THEN host ELSE [host EXCEPT !.open[n] = "closed"]
    BY <1>1, <1>2, FlakeFails DEF CloseFD, Outcome
  <1>4. [host EXCEPT !.open[n] = "closed"].open = [host.open EXCEPT ![n] = "closed"]
    BY DEF HostState
  <1> QED
    BY <1>1, <1>2, <1>3, <1>4 DEF Follows

\* An open that a test goes on from has opened the file, and an open for
\* reading changes no file.
LEMMA OpenDone ==
    ASSUME NEW stream \in {"A", "B", "features"}, NEW next,
           OpensFile(stream, next), pc' # "failed", host \in HostState
    PROVE  /\ fd' \in FileHandles /\ host'.open[fd'] = stream
           /\ host'.files["B"] = host.files["B"]
           /\ stream # "A" => host'.files["A"] = host.files["A"]
  <1> DEFINE H(n) == [host EXCEPT !.open[n] = stream,
                                  !.files["A"] = IF stream = "A" THEN "empty" ELSE @]
  <1>1. PICK o \in OpenFile(host, stream) :
          fd' = o.ret /\ o.ret > 0 /\ Follows(o.host, host')
    BY DEF OpensFile
  <1>2. \/ o \in Flake(host)
        \/ o \in {Failure(host, "ENOENT"), Failure(host, "EMFILE")}
        \/ \E n \in FreeHandles(host) : o = Outcome(n, H(n))
    BY DEF OpenFile
  <1>3. o \notin Flake(host)
    BY <1>1, FlakeFails
  <1>4. o \notin {Failure(host, "ENOENT"), Failure(host, "EMFILE")}
    BY <1>1 DEF Failure, Outcome
  <1>5. PICK n \in FreeHandles(host) : o = Outcome(n, H(n))
    BY <1>2, <1>3, <1>4, Zenon
  <1>6. n \in FileHandles /\ n \in Handles
    BY HandleNumbers DEF FreeHandles
  <1>7. /\ H(n).open[n] = stream
        /\ H(n).files["B"] = host.files["B"]
        /\ stream # "A" => H(n).files["A"] = host.files["A"]
    BY <1>6 DEF HostState
  <1> QED
    BY <1>1, <1>6, <1>7, <1>5 DEF Outcome, Follows

\* The calls that leave the files alone.
LEMMA FilesKept ==
    ASSUME NEW h \in HostState
    PROVE  /\ \A n : \A o \in CloseFD(h, n) \cup IsTTY(h, n) \cup FileLength(h, n)
                               \cup ReadFD(h, n) \cup IsError(h, n) : o.host.files = h.files
           /\ \A r : \A o \in Query(h, r) : o.host.files = h.files
           /\ \A o \in WriteDebug(h) \cup LastErrno(h) \cup ClockTest(h) \cup ShowExit(h)
                      \cup TickFrequency(h) \cup Elapsed(h) : o.host.files = h.files
           /\ \A stream : \A o \in OpenTTY(h, stream) : o.host.files = h.files
  <1>1. \A e : Failure(h, e).host.files = h.files
    BY DEF Failure, Outcome, HostState
  <1>2. \A o \in Flake(h) : o.host.files = h.files
    BY <1>1 DEF Flake
  <1>3. \A r : Outcome(r, h).host.files = h.files
    BY DEF Outcome
  <1>4. \A n, s, r : Outcome(r, [h EXCEPT !.open[n] = s]).host.files = h.files
    BY DEF Outcome, HostState
  <1>5. \A e, r : Outcome(r, [h EXCEPT !.errno = e]).host.files = h.files
    BY DEF Outcome, HostState
  <1>6. \A n : \A o \in CloseFD(h, n) : o.host.files = h.files
    BY <1>1, <1>2, <1>3, <1>4 DEF CloseFD
  <1>7. \A n : \A o \in IsTTY(h, n) : o.host.files = h.files
    BY <1>1, <1>2, <1>3 DEF IsTTY
  <1>8. \A n : \A o \in FileLength(h, n) : o.host.files = h.files
    BY <1>1, <1>2, <1>3 DEF FileLength
  <1>9. \A n : \A o \in ReadFD(h, n) : o.host.files = h.files
    BY <1>1, <1>2, <1>3, <1>4 DEF ReadFD
  <1>10. \A n : \A o \in IsError(h, n) : o.host.files = h.files
    BY <1>2, <1>3 DEF IsError
  <1>11. \A r : \A o \in Query(h, r) : o.host.files = h.files
    BY <1>2, <1>3 DEF Query
  <1>12. \A o \in WriteDebug(h) \cup LastErrno(h) \cup ClockTest(h) \cup ShowExit(h)
                 \cup TickFrequency(h) \cup Elapsed(h) : o.host.files = h.files
    <2>1. \A o \in WriteDebug(h) \cup LastErrno(h) : o.host.files = h.files
      BY <1>2, <1>3, <1>5 DEF WriteDebug, LastErrno
    <2>2. \A o \in ClockTest(h) \cup ShowExit(h) : o.host.files = h.files
      BY <1>2, <1>3 DEF ClockTest, ShowExit
    <2>3. \A o \in TickFrequency(h) \cup Elapsed(h) : o.host.files = h.files
      BY <1>1, <1>3, <1>5 DEF TickFrequency, Elapsed
    <2> QED
      BY <2>1, <2>2, <2>3
  <1>13. \A stream : \A o \in OpenTTY(h, stream) : o.host.files = h.files
    BY <1>2, <1>4 DEF OpenTTY
  <1> QED
    BY <1>6, <1>7, <1>8, <1>9, <1>10, <1>11, <1>12, <1>13

\* A write changes file A at most, and a host that writes wrong never writes
\* the alphabet.
LEMMA WriteDone ==
    ASSUME NEW h \in HostState, NEW n, NEW o \in WriteFD(h, n)
    PROVE  /\ o.host.files["B"] = h.files["B"]
           /\ o.host.open = h.open
           /\ h.regression \in {"write", "garble"} =>
                 /\ h.files["A"] # "alphabet" => o.host.files["A"] # "alphabet"
                 /\ n \in FileHandles /\ h.open[n] = "A" /\ o.ret = Ok
                       => o.host.files["A"] # "alphabet"
  <1> DEFINE W(c) == [h EXCEPT !.files["A"] = c]
  <1>1. \A e : /\ Failure(h, e).ret = Err
             /\ Failure(h, e).host.files = h.files /\ Failure(h, e).host.open = h.open
    BY DEF Failure, Outcome, HostState
  <1>2. o \in Flake(h) => o.ret = Err /\ o.host.files = h.files /\ o.host.open = h.open
    BY <1>1 DEF Flake
  <1>3. \A c : W(c).files["A"] = c /\ W(c).files["B"] = h.files["B"] /\ W(c).open = h.open
    BY DEF HostState
  <1>4. CASE IsConsole(h, n)
    <2>1. ~(n \in FileHandles /\ h.open[n] = "A")
      BY <1>4 DEF IsConsole
    <2> QED
      BY <1>2, <1>4, <2>1 DEF WriteFD, Outcome
  <1>5. CASE ~IsConsole(h, n) /\ IsOpen(h, n) /\ h.open[n] = "A"
    <2>1. \/ o = Outcome(Ok, W(CASE h.regression = "write"  -> "empty"
                                 [] h.regression = "garble" -> "garbled"
                                 [] OTHER                   -> "alphabet"))
          \/ o \in Flake(h)
          \/ o = Outcome(Short, W("part"))
      BY <1>5 DEF WriteFD
    <2> DEFINE c == CASE h.regression = "write"  -> "empty"
                      [] h.regression = "garble" -> "garbled"
                      [] OTHER                   -> "alphabet"
    <2>2. CASE o = Outcome(Ok, W(c))
      <3>1. o.host = W(c)
        BY <2>2 DEF Outcome
      <3>2. h.regression \in {"write", "garble"} => c # "alphabet"
        OBVIOUS
      <3> HIDE DEF c
      <3> QED
        BY <1>3, <3>1, <3>2
    <2>3. CASE o \in Flake(h)
      BY <1>2, <2>3
    <2>4. CASE o = Outcome(Short, W("part"))
      <3>1. o.ret = Short /\ o.host = W("part")
        BY <2>4 DEF Outcome
      <3> QED
        BY <1>3, <3>1
    <2> QED
      BY <2>1, <2>2, <2>3, <2>4
  <1>6. CASE ~IsConsole(h, n) /\ ~(IsOpen(h, n) /\ h.open[n] = "A")
    BY <1>1, <1>6 DEF WriteFD
  <1> QED
    BY <1>4, <1>5, <1>6

\* A failed open of file B has changed no file, and says that the file is not
\* there only if it is not.
LEMMA ErrnoOpenDone ==
    ASSUME Asks(OpenFile(host, "B"), {Err}, "errno.first", "errno.abort"),
           pc' # "errno.abort", host \in HostState
    PROVE  /\ host'.files = host.files
           /\ host.files["B"] # "absent" => host'.errno # "ENOENT"
  <1> DEFINE H(n) == [host EXCEPT !.open[n] = "B",
                                  !.files["A"] = IF "B" = "A" THEN "empty" ELSE @]
  <1>1. PICK o \in OpenFile(host, "B") : o.ret = Err /\ host' = o.host
    BY Passed
  <1>2. \/ o = Failure(host, "ENOENT") /\ host.files["B"] = "absent"
        \/ o \in Flake(host)
        \/ o = Failure(host, "EMFILE")
        \/ \E n \in FreeHandles(host) : o = Outcome(n, H(n))
    BY DEF OpenFile
  <1>3. \A n \in FreeHandles(host) : Outcome(n, H(n)).ret # Err
    BY HandleNumbers DEF FreeHandles, Outcome
  <1>4. \E e \in {"ENOENT", "EIO", "EMFILE"} :
            /\ o = Failure(host, e)
            /\ e = "ENOENT" => host.files["B"] = "absent"
    BY <1>1, <1>2, <1>3 DEF Flake
  <1>5. \A e : /\ Failure(host, e).host.files = host.files
               /\ Failure(host, e).host.errno = e
    BY DEF Failure, Outcome, HostState
  <1> QED
    BY <1>1, <1>4, <1>5

\* Console lines change no file.
LEMMA LoggedFiles ==
    ASSUME NEW h \in HostState, NEW n, NEW g \in Logged(h, n)
    PROVE  g.files = h.files
  BY DEF Logged, HostState

\* The opens of the console change no file.
LEMMA ConsoleOpenFiles ==
    ASSUME TypeOK, NEW at, NEW next, NEW bad, OpenIn(at, next) \/ OpenOut(at, next, bad)
    PROVE  host'.files = host.files
  <1>1. PICK o \in OpenTTY(host, "ttyIn") \cup OpenTTY(host, "ttyOut") :
          host' = o.host \/ host' \in Logged(o.host, o.ret)
    BY AnswerOpenTTY DEF OpenIn, OpenOut
  <1>2. o.host \in HostState
    BY OpenTTYOpens, ChangeType DEF TypeOK
  <1>3. o.host.files = host.files
    BY FilesKept DEF TypeOK
  <1> QED
    BY <1>1, <1>2, <1>3, LoggedFiles

\* What the tests leave of the files.
LEMMA FilesStep ==
    ASSUME TypeOK, testSemihosting, pc' \notin {"failed", "errno.abort"}
    PROVE  /\ pc \notin {"console.write", "file.create", "file.write", "file.writeClosed",
                         "file.rename", "file.remove"}
                 => host'.files["A"] = host.files["A"]
           /\ pc \notin {"file.rename", "file.remove"} => host'.files["B"] = host.files["B"]
  <1>1. TestSteps /\ Flow
    BY StepsByLabel, TestsFlow
  <1>2. host \in HostState
    BY DEF TypeOK
  <1>3. ASSUME NEW outcomes, NEW good, NEW next, NEW bad, Asks(outcomes, good, next, bad),
               \A o \in outcomes : o.host.files = host.files
        PROVE  host'.files = host.files
    BY <1>3 DEF Asks, Follows
  <1>4. ASSUME NEW n, NEW good, NEW next, NEW bad, Asks(WriteFD(host, n), good, next, bad)
        PROVE  host'.files["B"] = host.files["B"]
    BY <1>2, <1>4, WriteDone DEF Asks, Follows
  <1>5. CASE pc \in {"tty.openIn", "tty.openOut"}
    <2>1. OpenIn("tty.openIn", "tty.openOut") \/ OpenOut("tty.openOut", "tty.isInTTY", "failed")
      BY <1>5 DEF testSemihosting, testReadCommandLine, testConsoleHandles,
                  testSemihostingFeatures, testConsoleWrite, testFileIO, writeFileA, readFileB,
                  testIsError, testHeapInfo, testErrno, testTiming, testTempName,
                  testTimekeeping, testIntervals, testExits, CloseIn, CloseOut, CloseFile,
                  OpenAs, Loop, Check, Call
    <2> QED
      BY <2>1, ConsoleOpenFiles
  <1>6. CASE pc \in {"cmdline", "tty.closeIn", "tty.closeOut", "tty.isInTTY", "tty.isOutTTY",
                     "features.length", "features.magic", "features.byte", "features.close",
                     "features.abort", "console.write0", "console.writeC"}
    BY <1>1, <1>2, <1>3, <1>6, FilesKept DEF TestSteps, FirstSteps
  <1>7. CASE pc \in {"file.close", "file.length", "file.read", "file.isTTY",
                     "file.closeRead", "file.readClosed"}
    BY <1>1, <1>2, <1>3, <1>7, FilesKept DEF TestSteps, FileSteps
  <1>8. CASE pc \in {"isError", "heapInfo", "errno.abort", "errno.first", "errno.second",
                     "tickFrequency", "elapsed", "tempName", "timekeeping", "intervals",
                     "exit", "exitExtended"}
    BY <1>1, <1>2, <1>3, <1>8, FilesKept DEF TestSteps, LastSteps
  <1>9. CASE pc = "errno.open"
    BY <1>1, <1>2, <1>9, ErrnoOpenDone DEF TestSteps, LastSteps
  <1>10. CASE pc \in {"features.open", "file.create", "file.open"}
    BY <1>1, <1>2, <1>10, OpenDone DEF TestSteps, FirstSteps, FileSteps
  <1>11. CASE pc \in {"console.write", "file.write", "file.writeClosed"}
    BY <1>1, <1>4, <1>11 DEF TestSteps, FirstSteps, FileSteps
  <1>12. CASE pc \in {"file.rename", "file.remove"}
    BY <1>12
  <1> QED
    BY <1>1, <1>5, <1>6, <1>7, <1>8, <1>9, <1>10, <1>11, <1>12 DEF Flow

\* What a rename that succeeds does.
LEMMA RenameDone ==
    ASSUME Asks(RenameAB(host), {Ok}, "file.open", "failed"), pc' # "failed",
           host \in HostState
    PROVE  /\ host.regression = "rename" => host'.files = host.files
           /\ host.regression # "rename" => host'.files["B"] = host.files["A"]
           /\ host.regression \notin {"rename", "copy"} => host'.files["A"] = "absent"
  <1> DEFINE C == [host EXCEPT !.files["B"] = host.files["A"]]
             M == [host EXCEPT !.files["B"] = host.files["A"], !.files["A"] = "absent"]
  <1>1. PICK o \in RenameAB(host) : o.ret = Ok /\ Follows(o.host, host')
    BY Passed
  <1>2. o.host = CASE host.regression = "rename" -> host
                   [] host.regression = "copy"   -> C
                   [] OTHER                      -> M
    BY <1>1, FlakeFails DEF RenameAB, Failure, Outcome
  <1>3. /\ C.files["B"] = host.files["A"]
        /\ M.files["B"] = host.files["A"] /\ M.files["A"] = "absent"
    BY DEF HostState
  <1> HIDE DEF C, M
  <1> QED
    BY <1>1, <1>2, <1>3 DEF Follows

\* What a removal that succeeds does.
LEMMA RemoveDone ==
    ASSUME Asks(RemoveB(host), {Ok}, "isError", "failed"), pc' # "failed",
           host \in HostState
    PROVE  /\ host.files["B"] # "absent"
           /\ host'.files["A"] = host.files["A"]
           /\ host.regression = "remove" => host'.files = host.files
           /\ host.regression # "remove" => host'.files["B"] = "absent"
  <1> DEFINE R == [host EXCEPT !.files["B"] = "absent"]
  <1>1. PICK o \in RemoveB(host) : o.ret = Ok /\ Follows(o.host, host')
    BY Passed
  <1>2. /\ host.files["B"] # "absent"
        /\ o.host = IF host.regression = "remove" THEN host ELSE R
    BY <1>1, FlakeFails DEF RemoveB, Failure, Outcome
  <1>3. R.files["B"] = "absent" /\ R.files["A"] = host.files["A"]
    BY DEF HostState
  <1> HIDE DEF R
  <1> QED
    BY <1>1, <1>2, <1>3 DEF Follows

-----------------------------------------------------------------------------
(***************************************************************************)
(* Every regression the tests are there to find is excluded by the time    *)
(* they have passed: CatchInv is inductive.                                *)
(***************************************************************************)

\* Where a run is past no check: before its first, or having given up.
PastNone ==
    {"main.openIn", "main.openOut", "cmdline", "failed", "features.abort", "errno.abort",
     "main.closeIn", "main.closeOut", "halted", "returned"}

\* So no set of labels past a check has one of these.
LEMMA NonePast ==
    /\ PastClocks \cap PastNone = {}
    /\ PastTempName \cap PastNone = {}
    /\ PastElapsed \cap PastNone = {}
    /\ PastTick \cap PastNone = {}
    /\ PastSecond \cap PastNone = {}
    /\ PastFirst \cap PastNone = {}
    /\ PastHeap \cap PastNone = {}
    /\ PastCodes \cap PastNone = {}
    /\ PastRemove \cap PastNone = {}
    /\ PastRead \cap PastNone = {}
    /\ PastRename \cap PastNone = {}
    /\ PastClosed \cap PastNone = {}
    /\ PastFeatures \cap PastNone = {}
    /\ PastLength \cap PastNone = {}
    /\ PastHandles \cap PastNone = {}
    /\ PastCmdline \cap PastNone = {}
  BY DEF PastNone, PastClocks, PastTempName, PastElapsed, PastTick, PastSecond, PastFirst,
           PastHeap, PastCodes, PastRemove, PastRead, PastRename, PastClosed, PastFeatures,
           PastLength, PastHandles, PastCmdline

\* "passed" is past every check.
LEMMA PassedIsPast ==
    /\ "passed" \in PastClocks
    /\ "passed" \in PastTempName
    /\ "passed" \in PastElapsed
    /\ "passed" \in PastTick
    /\ "passed" \in PastSecond
    /\ "passed" \in PastFirst
    /\ "passed" \in PastHeap
    /\ "passed" \in PastCodes
    /\ "passed" \in PastRemove
    /\ "passed" \in PastRead
    /\ "passed" \in PastRename
    /\ "passed" \in PastClosed
    /\ "passed" \in PastFeatures
    /\ "passed" \in PastLength
    /\ "passed" \in PastHandles
    /\ "passed" \in PastCmdline
  BY DEF PastClocks, PastTempName, PastElapsed, PastTick, PastSecond, PastFirst,
           PastHeap, PastCodes, PastRemove, PastRead, PastRename, PastClosed, PastFeatures,
           PastLength, PastHandles, PastCmdline

\* While the tests run nothing is reported.
LEMMA TestsUnreported ==
    ASSUME TypeOK, CatchInv, testSemihosting
    PROVE  /\ verdict = "none" /\ verdict' = "none" /\ atStart' = atStart
           /\ host'.regression = host.regression /\ host'.mood = host.mood
           /\ Reported'
  <1>1. /\ Flow
        /\ UNCHANGED run /\ host'.regression = host.regression /\ host'.mood = host.mood
    BY TestsFlow, TestsKind, KindKeeps
  <1>2. verdict = "none"
    BY <1>1 DEF Flow, CatchInv, Reported
  <1> QED
    BY <1>1, <1>2 DEF run, Reported

\* The tests come to file B's end by reading it or by giving up.
LEMMA ReadBeforeB ==
    /\ "file.read" \notin AfterB
    /\ Flow /\ pc' \notin AfterB => pc \notin AfterB
  BY DEF Flow, AfterB, PastClocks, PastTempName, PastElapsed, PastTick, PastSecond, PastFirst,
           PastHeap, PastCodes, PastRemove, PastRead

\* Where the files are dealt with.
LEMMA BIsDone ==
    /\ {"file.remove", "failed", "errno.abort"} \subseteq AfterB
    /\ \A label \in {"console.write", "file.create", "file.write", "file.writeClosed",
                     "file.rename"} : label \notin PastRename
    /\ \A label \in {"file.rename", "file.remove"} : label \notin PastRemove
  BY DEF AfterB, PastRename, PastClocks, PastTempName, PastElapsed, PastTick, PastSecond, PastFirst,
           PastHeap, PastCodes, PastRemove, PastRead

\* Passing a check excludes what the check is about.
LEMMA ExcludedTests ==
    ASSUME TypeOK, ReportInv, CatchInv, testSemihosting
    PROVE  Excluded'
  <1>1. TestSteps /\ Flow
    BY StepsByLabel, TestsFlow
  <1>2. /\ verdict = "none" /\ verdict' = "none" /\ atStart' = atStart
        /\ host'.regression = host.regression /\ host'.mood = host.mood
    BY TestsUnreported
  <1>3. Excluded /\ Evidence
    BY DEF CatchInv
  <1>4. CodesMisjudged' = CodesMisjudged
    BY <1>2 DEF CodesMisjudged
  <1>5. pc' \in PastCmdline => host.regression # "cmdline"
    <2>1. CASE pc \in PastCmdline
      BY <1>3, <2>1 DEF Excluded, Past
    <2>2. CASE pc' \in PastCmdline /\ pc = "cmdline"
      <3>1. pc' \notin {"failed", "features.abort"}
        BY <2>2, NonePast DEF PastNone
      <3> QED
        BY <1>1, <1>3, <2>2, <3>1, QueryPassed DEF TestSteps, FirstSteps
    <2> QED
      BY <1>1, <2>1, <2>2, Entries
  <1>6. pc' \in PastHandles => host.regression \notin {"handles", "isTTY"}
    <2>1. CASE pc \in PastHandles
      BY <1>3, <2>1 DEF Excluded, Past
    <2>2. CASE pc' \in PastHandles /\ pc = "tty.isOutTTY"
      <3>1. pc' \notin {"failed", "features.abort"}
        BY <2>2, NonePast DEF PastNone
      <3> QED
        BY <1>1, <1>3, <2>2, <3>1, HandlesPassed DEF TestSteps, FirstSteps
    <2> QED
      BY <1>1, <2>1, <2>2, Entries
  <1>7. pc' \in PastLength => host.regression # "length"
    <2>1. CASE pc \in PastLength
      BY <1>3, <2>1 DEF Excluded, Past
    <2>2. CASE pc' \in PastLength /\ pc = "features.length"
      <3>1. pc' \notin {"failed", "features.abort"}
        BY <2>2, NonePast DEF PastNone
      <3> QED
        BY <1>1, <1>3, <2>2, <3>1, LengthPassed DEF TestSteps, FirstSteps
    <2> QED
      BY <1>1, <2>1, <2>2, Entries
  <1>8. pc' \in PastFeatures => host.regression \notin {"features", "read"}
    <2>1. CASE pc \in PastFeatures
      BY <1>3, <2>1 DEF Excluded, Past
    <2>2. CASE pc' \in PastFeatures /\ pc = "features.byte"
      <3>1. pc' \notin {"failed", "features.abort"}
        BY <2>2, NonePast DEF PastNone
      <3> QED
        BY <1>1, <1>3, <2>2, <3>1, FeaturesPassed DEF TestSteps, FirstSteps
    <2> QED
      BY <1>1, <2>1, <2>2, Entries
  <1>9. pc' \in PastClosed => (host.regression = "close" => host.mood = "flaky")
    <2>1. CASE pc \in PastClosed
      BY <1>3, <2>1 DEF Excluded, Past
    <2>2. CASE pc' \in PastClosed /\ pc = "file.writeClosed"
      <3>1. pc' \notin {"failed", "features.abort"}
        BY <2>2, NonePast DEF PastNone
      <3> QED
        BY <1>1, <1>3, <2>2, <3>1, ClosePassed DEF TestSteps, FileSteps, Evidence
    <2> QED
      BY <1>1, <2>1, <2>2, Entries
  <1>10. pc' \in PastRead => /\ host.regression \notin {"write", "garble"}
                              /\ (host.regression = "rename" => atStart.files["B"] = "alphabet")
    <2>1. CASE pc \in PastRead
      BY <1>3, <2>1 DEF Excluded, Past
    <2>2. CASE pc' \in PastRead /\ pc = "file.read"
      <3>1. pc' \notin {"failed", "features.abort"}
        BY <2>2, NonePast DEF PastNone
      <3>2. fd \in FileHandles /\ host.open[fd] = "B"
        BY <1>3, <2>2 DEF Evidence
      <3>3. host.files["B"] = "alphabet"
        BY <1>1, <2>2, <3>1, <3>2, ReadPassed DEF TestSteps, FileSteps
      <3>4. host.regression \in {"write", "garble"} => host.files["B"] # "alphabet"
        BY <1>3, <2>2 DEF Evidence
      <3>5. host.regression = "rename" => host.files["B"] = atStart.files["B"]
        BY <1>3, <2>2, ReadBeforeB DEF Evidence
      <3> QED
        BY <3>3, <3>4, <3>5
    <2> QED
      BY <1>1, <2>1, <2>2, Entries
  <1>11. pc' \in PastCodes => ~CodesMisjudged
    <2>1. CASE pc \in PastCodes
      BY <1>3, <2>1 DEF Excluded, Past
    <2>2. CASE pc' \in PastCodes /\ pc = "isError"
      <3> SUFFICES ASSUME CodesMisjudged PROVE FALSE
        OBVIOUS
      <3>1. pc' = "heapInfo"
        BY <1>1, <2>2, NonePast
           DEF Flow, PastNone, PastClocks, PastTempName, PastElapsed, PastTick, PastSecond,
               PastFirst, PastHeap, PastCodes, PastRemove, PastRead, PastRename, PastClosed,
               PastFeatures, PastLength, PastHandles, PastCmdline
      <3>2. Asks(IsError(host, index), IsErrorGood,
                 IF index + 1 < CodeCount THEN "isError" ELSE "heapInfo", "failed")
        BY <1>1, <2>2 DEF TestSteps, LastSteps
      <3>3. index # MisjudgedCode
        BY <3>1, <3>2, CodePassed
      <3>4. ~(index + 1 < CodeCount)
        BY <3>1, <3>2 DEF Asks
      <3>5. index <= MisjudgedCode
        BY <1>3, <2>2 DEF Evidence
      <3>6. MisjudgedCode \in 0 .. CodeCount - 1 /\ index \in Nat /\ CodeCount \in Nat
        BY SuiteAssumption DEF CodesMisjudged, TypeOK
      <3> QED
        BY <3>3, <3>4, <3>5, <3>6
    <2> QED
      BY <1>1, <2>1, <2>2, Entries
  <1>12. pc' \in PastHeap => host.regression # "heapInfo"
    <2>1. CASE pc \in PastHeap
      BY <1>3, <2>1 DEF Excluded, Past
    <2>2. CASE pc' \in PastHeap /\ pc = "heapInfo"
      <3>1. pc' \notin {"failed", "features.abort"}
        BY <2>2, NonePast DEF PastNone
      <3> QED
        BY <1>1, <1>3, <2>2, <3>1, QueryPassed DEF TestSteps, LastSteps
    <2> QED
      BY <1>1, <2>1, <2>2, Entries
  <1>13. pc' \in PastFirst => host.regression # "remove"
    <2>1. CASE pc \in PastFirst
      BY <1>3, <2>1 DEF Excluded, Past
    <2>2. CASE pc' \in PastFirst /\ pc = "errno.first"
      <3>1. pc' \notin {"failed", "features.abort"}
        BY <2>2, NonePast DEF PastNone
      <3> QED
        BY <1>1, <1>3, <2>2, <3>1, FirstPassed DEF TestSteps, LastSteps, Evidence
    <2> QED
      BY <1>1, <2>1, <2>2, Entries
  <1>14. pc' \in PastSecond => host.regression # "errno"
    <2>1. CASE pc \in PastSecond
      BY <1>3, <2>1 DEF Excluded, Past
    <2>2. CASE pc' \in PastSecond /\ pc = "errno.second"
      <3>1. pc' \notin {"failed", "features.abort"}
        BY <2>2, NonePast DEF PastNone
      <3> QED
        BY <1>1, <1>3, <2>2, <3>1, SecondPassed DEF TestSteps, LastSteps, Evidence
    <2> QED
      BY <1>1, <2>1, <2>2, Entries
  <1>15. pc' \in PastTick => host.regression # "tickFreq"
    <2>1. CASE pc \in PastTick
      BY <1>3, <2>1 DEF Excluded, Past
    <2>2. CASE pc' \in PastTick /\ pc = "tickFrequency"
      <3>1. pc' \notin {"failed", "features.abort"}
        BY <2>2, NonePast DEF PastNone
      <3> QED
        BY <1>1, <1>3, <2>2, <3>1, TickPassed DEF TestSteps, LastSteps
    <2> QED
      BY <1>1, <2>1, <2>2, Entries
  <1>16. pc' \in PastElapsed => host.regression # "elapsed"
    <2>1. CASE pc \in PastElapsed
      BY <1>3, <2>1 DEF Excluded, Past
    <2>2. CASE pc' \in PastElapsed /\ pc = "elapsed"
      <3>1. pc' \notin {"failed", "features.abort"}
        BY <2>2, NonePast DEF PastNone
      <3> QED
        BY <1>1, <1>3, <2>2, <3>1, ElapsedPassed DEF TestSteps, LastSteps
    <2> QED
      BY <1>1, <2>1, <2>2, Entries
  <1>17. pc' \in PastTempName => host.regression # "tempName"
    <2>1. CASE pc \in PastTempName
      BY <1>3, <2>1 DEF Excluded, Past
    <2>2. CASE pc' \in PastTempName /\ pc = "tempName"
      <3>1. pc' \notin {"failed", "features.abort"}
        BY <2>2, NonePast DEF PastNone
      <3> QED
        BY <1>1, <1>3, <2>2, <3>1, QueryPassed DEF TestSteps, LastSteps
    <2> QED
      BY <1>1, <2>1, <2>2, Entries
  <1>18. pc' \in PastClocks => host.regression # "clock"
    <2>1. CASE pc \in PastClocks
      BY <1>3, <2>1 DEF Excluded, Past
    <2>2. CASE pc' \in PastClocks /\ pc = "timekeeping"
      <3>1. pc' \notin {"failed", "features.abort"}
        BY <2>2, NonePast DEF PastNone
      <3> QED
        BY <1>1, <1>3, <2>2, <3>1, ClockPassed DEF TestSteps, LastSteps
    <2> QED
      BY <1>1, <2>1, <2>2, Entries
  <1> QED
    BY <1>2, <1>4, <1>5, <1>6, <1>7, <1>8, <1>9, <1>10, <1>11, <1>12,
       <1>13, <1>14, <1>15, <1>16, <1>17, <1>18
       DEF Excluded, Past

\* The files and handles stay as the next check needs them.
LEMMA EvidenceTests ==
    ASSUME TypeOK, CatchInv, testSemihosting
    PROVE  Evidence'
  <1>1. TestSteps /\ Flow
    BY StepsByLabel, TestsFlow
  <1>2. /\ atStart' = atStart
        /\ host'.regression = host.regression /\ host'.mood = host.mood
    BY TestsUnreported
  <1>3. Evidence
    BY DEF CatchInv
  <1>4. host \in HostState
    BY DEF TypeOK
  <1>5. MayHoldFile => fd' = fd
    BY TestsKind, KindKeeps
  <1>6. CodesMisjudged' = CodesMisjudged
    BY <1>2 DEF CodesMisjudged
  <1>7. pc = "file.write" /\ pc' # "failed" =>
          /\ host'.open = host.open
          /\ host.regression \in {"write", "garble"} => host'.files["A"] # "alphabet"
    <2> SUFFICES ASSUME pc = "file.write", pc' # "failed"
                 PROVE  /\ host'.open = host.open
                        /\ host.regression \in {"write", "garble"}
                               => host'.files["A"] # "alphabet"
      OBVIOUS
    <2>1. PICK o \in WriteFD(host, fd) : o.ret = Ok /\ Follows(o.host, host')
      BY <1>1, Passed DEF TestSteps, FileSteps
    <2>2. fd \in FileHandles /\ host.open[fd] = "A"
      BY <1>3 DEF Evidence
    <2> QED
      BY <1>4, <2>1, <2>2, WriteDone DEF Follows
  <1>8. pc' \in {"file.write", "file.close"} => fd' \in FileHandles /\ host'.open[fd'] = "A"
    <2>1. CASE pc = "file.create" /\ pc' = "file.write"
      BY <1>1, <1>4, <2>1, OpenDone DEF TestSteps, FileSteps
    <2>2. CASE pc = "file.write" /\ pc' = "file.close"
      BY <1>3, <1>5, <1>7, <2>2 DEF Evidence, MayHoldFile, HoldLabels
    <2> QED
      BY <1>1, <2>1, <2>2 DEF Flow
  <1>9. pc' = "file.writeClosed" /\ host'.regression = "close"
          => fd' \in FileHandles /\ host'.open[fd'] = "A"
    <2> SUFFICES ASSUME pc' = "file.writeClosed", host'.regression = "close"
                 PROVE  fd' \in FileHandles /\ host'.open[fd'] = "A"
      OBVIOUS
    <2>1. pc = "file.close"
      BY <1>1 DEF Flow
    <2>2. host'.open = host.open
      BY <1>1, <1>2, <1>4, <2>1, CloseDone DEF TestSteps, FileSteps, LeavesOpen
    <2> QED
      BY <1>3, <1>5, <2>1, <2>2 DEF Evidence, MayHoldFile, HoldLabels
  <1>10. pc' \in {"file.close", "file.writeClosed", "file.rename"}
           /\ host'.regression \in {"write", "garble"} => host'.files["A"] # "alphabet"
    <2>1. CASE pc = "file.write" /\ pc' = "file.close"
      BY <1>2, <1>7, <2>1
    <2>2. CASE pc = "file.close" /\ pc' = "file.writeClosed"
      BY <1>2, <1>3, <2>2, FilesStep DEF Evidence
    <2>3. CASE pc = "file.writeClosed" /\ pc' = "file.rename"
      <3>1. PICK o \in WriteFD(host, fd) : Follows(o.host, host')
        BY <1>1, <2>3, Passed DEF TestSteps, FileSteps
      <3> QED
        BY <1>2, <1>3, <1>4, <2>3, <3>1, WriteDone DEF Evidence, Follows
    <2> QED
      BY <1>1, <2>1, <2>2, <2>3 DEF Flow
  <1>11. pc' \in {"file.open", "file.length", "file.read"}
           /\ host'.regression \in {"write", "garble"} => host'.files["B"] # "alphabet"
    <2>1. CASE pc = "file.rename" /\ pc' = "file.open"
      BY <1>1, <1>2, <1>3, <1>4, <2>1, RenameDone DEF TestSteps, FileSteps, Evidence
    <2>2. CASE pc \in {"file.open", "file.length"} /\ pc' \in {"file.length", "file.read"}
      BY <1>2, <1>3, <2>2, FilesStep DEF Evidence
    <2> QED
      BY <1>1, <2>1, <2>2 DEF Flow
  <1>12. pc' \in {"file.length", "file.read"} => fd' \in FileHandles /\ host'.open[fd'] = "B"
    <2>1. CASE pc = "file.open" /\ pc' = "file.length"
      BY <1>1, <1>4, <2>1, OpenDone DEF TestSteps, FileSteps
    <2>2. CASE pc = "file.length" /\ pc' = "file.read"
      <3>1. PICK o \in FileLength(host, fd) : o.ret = Ok /\ Follows(o.host, host')
        BY <1>1, <2>2, Passed DEF TestSteps, FileSteps
      <3>2. o.host = host
        BY <3>1, FlakeFails DEF FileLength, Failure, Outcome
      <3> QED
        BY <1>3, <1>5, <2>2, <3>1, <3>2 DEF Evidence, MayHoldFile, HoldLabels, Follows
    <2> QED
      BY <1>1, <2>1, <2>2 DEF Flow
  <1>13. pc' \notin AfterB /\ host'.regression = "rename"
           => host'.files["B"] = atStart'.files["B"]
    <2> SUFFICES ASSUME pc' \notin AfterB, host'.regression = "rename"
                 PROVE  host'.files["B"] = atStart.files["B"]
      BY <1>2
    <2>1. /\ pc \notin AfterB /\ pc # "file.remove"
          /\ pc' \notin {"failed", "errno.abort"}
      BY <1>1, ReadBeforeB, BIsDone
    <2>2. host.files["B"] = atStart.files["B"]
      BY <1>2, <1>3, <2>1 DEF Evidence
    <2>3. CASE pc = "file.rename"
      BY <1>1, <1>2, <1>4, <2>1, <2>2, <2>3, RenameDone DEF TestSteps, FileSteps
    <2>4. CASE pc # "file.rename"
      BY <2>1, <2>2, <2>4, FilesStep
    <2> QED
      BY <2>3, <2>4
  <1>14. pc' = "isError" /\ CodesMisjudged' => index' <= MisjudgedCode
    <2> SUFFICES ASSUME pc' = "isError", CodesMisjudged PROVE index' <= MisjudgedCode
      BY <1>6
    <2>1. MisjudgedCode \in Int /\ MisjudgedCode >= 0
      BY DEF CodesMisjudged
    <2>2. CASE pc = "file.remove"
      BY <1>1, <2>1, <2>2 DEF TestSteps, FileSteps, TypeOK
    <2>3. CASE pc = "isError"
      <3>1. index' = index + 1 /\ index \in Nat
        BY <1>1, <2>3 DEF TestSteps, LastSteps, TypeOK
      <3>2. index # MisjudgedCode
        BY <1>1, <2>3, CodePassed DEF TestSteps, LastSteps
      <3>3. index <= MisjudgedCode
        BY <1>3, <2>3 DEF Evidence
      <3> QED
        BY <2>1, <3>1, <3>2, <3>3
    <2> QED
      BY <1>1, <2>2, <2>3 DEF Flow
  <1>15. pc' \in {"isError", "heapInfo", "errno.open"} /\ host'.regression = "remove"
           => host'.files["B"] # "absent"
    <2>1. CASE pc = "file.remove" /\ pc' = "isError"
      BY <1>1, <1>2, <1>4, <2>1, RemoveDone DEF TestSteps, FileSteps
    <2>2. CASE pc \in {"isError", "heapInfo"} /\ pc' \in {"isError", "heapInfo", "errno.open"}
      BY <1>2, <1>3, <2>2, FilesStep DEF Evidence
    <2> QED
      BY <1>1, <2>1, <2>2 DEF Flow
  <1>16. pc' = "errno.first" /\ host'.regression = "remove" => host'.errno # "ENOENT"
    <2> SUFFICES ASSUME pc' = "errno.first", host'.regression = "remove"
                 PROVE  host'.errno # "ENOENT"
      OBVIOUS
    <2>1. pc = "errno.open"
      BY <1>1 DEF Flow
    <2> QED
      BY <1>1, <1>2, <1>3, <1>4, <2>1, ErrnoOpenDone DEF TestSteps, LastSteps, Evidence
  <1>17. pc' = "errno.second" /\ host'.regression = "errno" => host'.errno # "success"
    <2> SUFFICES ASSUME pc' = "errno.second", host'.regression = "errno"
                 PROVE  host'.errno # "success"
      OBVIOUS
    <2>1. pc = "errno.first"
      BY <1>1 DEF Flow
    <2>2. PICK o \in LastErrno(host) : o.ret = "ENOENT" /\ Follows(o.host, host')
      BY <1>1, <2>1, Passed DEF TestSteps, LastSteps
    <2>3. o.host = host /\ host.errno = "ENOENT"
      BY <1>2, <2>2 DEF LastErrno, Outcome
    <2> QED
      BY <2>2, <2>3 DEF Follows
  <1> QED
    BY <1>8, <1>9, <1>10, <1>11, <1>12, <1>13, <1>14, <1>15, <1>16, <1>17 DEF Evidence

\* The files are gone and the handles closed when their tests have passed.
LEMMA CleanedTests ==
    ASSUME TypeOK, LeakInv, CatchInv, testSemihosting
    PROVE  Cleaned'
  <1>1. TestSteps /\ Flow
    BY StepsByLabel, TestsFlow
  <1>2. /\ verdict = "none" /\ verdict' = "none"
        /\ host'.regression = host.regression
    BY TestsUnreported
  <1> SUFFICES ASSUME host.regression = "none"
               PROVE  /\ pc' \in PastRename => host'.files["A"] = "absent"
                      /\ pc' \in PastRemove => host'.files["B"] = "absent"
                      /\ pc' = "passed" => NewlyOpen' = {}
    BY <1>2 DEF Cleaned, Past
  <1>3. Cleaned /\ host \in HostState
    BY DEF CatchInv, TypeOK
  <1>4. pc' \in PastRename => host'.files["A"] = "absent"
    <2> SUFFICES ASSUME pc' \in PastRename PROVE host'.files["A"] = "absent"
      OBVIOUS
    <2>1. pc' \notin {"failed", "errno.abort"}
      BY NonePast DEF PastNone
    <2>2. CASE pc = "file.rename"
      BY <1>1, <1>3, <2>1, <2>2, RenameDone DEF TestSteps, FileSteps
    <2>3. CASE pc \in PastRename /\ pc = "file.remove"
      BY <1>1, <1>3, <2>1, <2>3, RemoveDone DEF TestSteps, FileSteps, Cleaned, Past
    <2>4. CASE pc \in PastRename /\ pc # "file.remove"
      <3>1. pc \notin {"console.write", "file.create", "file.write", "file.writeClosed",
                       "file.rename", "file.remove"}
        BY <2>4, BIsDone
      <3> QED
        BY <1>3, <2>1, <2>4, <3>1, FilesStep DEF Cleaned, Past
    <2> QED
      BY <1>1, <2>2, <2>3, <2>4, Entries
  <1>5. pc' \in PastRemove => host'.files["B"] = "absent"
    <2> SUFFICES ASSUME pc' \in PastRemove PROVE host'.files["B"] = "absent"
      OBVIOUS
    <2>1. pc' \notin {"failed", "errno.abort"}
      BY NonePast DEF PastNone
    <2>2. CASE pc = "file.remove"
      BY <1>1, <1>3, <2>1, <2>2, RemoveDone DEF TestSteps, FileSteps
    <2>3. CASE pc \in PastRemove
      <3>1. pc \notin {"file.rename", "file.remove"}
        BY <2>3, BIsDone
      <3> QED
        BY <1>3, <2>1, <2>3, <3>1, FilesStep DEF Cleaned, Past
    <2> QED
      BY <1>1, <2>2, <2>3, Entries
  <1>6. pc' = "passed" => NewlyOpen' = {}
    <2>1. LeakInv'
      BY LeakKind, TestsKind
    <2> QED
      BY <1>2, <2>1 DEF LeakInv, MayHoldFile, HoldLabels
  <1> QED
    BY <1>4, <1>5, <1>6

\* The tests keep the invariant.
LEMMA CatchTests ==
    ASSUME TypeOK, LeakInv, ReportInv, CatchInv, testSemihosting
    PROVE  CatchInv'
  BY TestsUnreported, ExcludedTests, EvidenceTests, CleanedTests DEF CatchInv

\* So does the opening of the console.
LEMMA CatchOpening ==
    ASSUME TypeOK, CatchInv, mainOpenConsole
    PROVE  CatchInv'
  <1>1. /\ pc \in {"main.openIn", "main.openOut"}
        /\ pc' \in {"main.openOut", "cmdline", "returned"}
        /\ atStart' = atStart
        /\ verdict' = verdict
    BY DEF mainOpenConsole, OpenIn, OpenOut, run
  <1>2. host'.regression = host.regression
    BY MainKind, KindKeeps
  <1>3. host'.files = host.files
    BY ConsoleOpenFiles DEF mainOpenConsole
  <1>4. verdict = "none"
    BY <1>1 DEF CatchInv, Reported
  <1>5. Reported' /\ Excluded' /\ Cleaned'
    <2>1. pc' \in PastNone /\ pc' # "passed"
      BY <1>1 DEF PastNone
    <2> QED
      BY <1>1, <1>4, <2>1, NonePast DEF Reported, Excluded, Cleaned, Past
  <1>6. Evidence'
    <2>1. pc \notin AfterB
      BY <1>1 DEF AfterB, PastRead, PastRemove, PastCodes, PastHeap, PastFirst, PastSecond,
                  PastTick, PastElapsed, PastTempName, PastClocks
    <2>2. host.regression = "rename" => host.files["B"] = atStart.files["B"]
      BY <2>1 DEF CatchInv, Evidence
    <2> QED
      BY <1>1, <1>2, <1>3, <2>2 DEF Evidence
  <1> QED
    BY <1>5, <1>6 DEF CatchInv

\* So does a step towards the end of the run that changes no file, opens no
\* handle and reports as a success what is one.
LEMMA CatchEnding ==
    ASSUME CatchInv,
           pc' \in {"main.closeIn", "main.closeOut", "halted", "returned"},
           host'.regression = host.regression, host'.mood = host.mood,
           host'.files = host.files, atStart' = atStart,
           NewlyOpen' \subseteq NewlyOpen,
           verdict' = "success" => verdict = "success" \/ pc = "passed"
    PROVE  CatchInv'
  <1>1. Reported'
    BY DEF Reported
  <1>2. pc' \in PastNone /\ pc' # "passed"
    BY DEF PastNone
  <1>3. CodesMisjudged' = CodesMisjudged
    BY DEF CodesMisjudged
  <1>4. Excluded'
    BY <1>2, <1>3, NonePast, PassedIsPast DEF CatchInv, Excluded, Past
  <1>5. Evidence'
    <2>1. pc' \in AfterB
      BY DEF AfterB
    <2> QED
      BY <2>1 DEF Evidence
  <1>6. Cleaned'
    BY <1>2, NonePast, PassedIsPast DEF CatchInv, Cleaned, Past
  <1> QED
    BY <1>1, <1>4, <1>5, <1>6 DEF CatchInv

\* The report is such a step.
LEMMA CatchReport ==
    ASSUME TypeOK, CatchInv, mainReport
    PROVE  CatchInv'
  <1>1. Quiet(host, host') /\ pc' = "main.closeIn" /\ atStart' = atStart
    BY ReportEffect
  <1>2. host'.files = host.files
    BY LoggedFiles DEF mainReport, TypeOK
  <1>3. host'.regression = host.regression /\ host'.mood = host.mood
    BY <1>1 DEF Quiet
  <1>4. NewlyOpen' \subseteq NewlyOpen
    BY <1>1, NothingOpened
  <1>5. verdict' = "success" => pc = "passed"
    BY DEF mainReport
  <1> QED
    BY <1>1, <1>2, <1>3, <1>4, <1>5, CatchEnding

\* And so are the closes of the console.
LEMMA CatchClosing ==
    ASSUME TypeOK, CatchInv, mainCloseConsole
    PROVE  CatchInv'
  <1>1. PICK n : \/ Check("main.closeIn", close(n), {Ok}, "main.closeOut", "returned")
                 \/ Check("main.closeOut", close(n), {Ok}, "halted", "returned")
    BY DEF mainCloseConsole, CloseIn, CloseOut
  <1>2. /\ pc' \in {"main.closeOut", "halted", "returned"}
        /\ verdict' = verdict /\ atStart' = atStart
    BY <1>1 DEF Check, Call, run
  <1>3. host'.regression = host.regression /\ host'.mood = host.mood
    BY MainKind, KindKeeps
  <1>4. PICK o \in CloseFD(host, n) : Follows(o.host, host')
    BY <1>1, CloseAsks DEF Asks
  <1>5. host'.files = host.files
    BY <1>4, FilesKept DEF Follows, TypeOK
  <1>6. NewlyOpen' \subseteq NewlyOpen
    <2>1. MayClose(host, o.host, n) /\ host' \in HostState
      BY <1>4, MainKind, CloseCloses DEF TypeOK
    <2>2. MayClose(host, host', n)
      BY <1>3, <1>4, <2>1 DEF MayClose, Follows
    <2> QED
      BY <1>2, <2>2, NothingOpened
  <1> QED
    BY <1>2, <1>3, <1>5, <1>6, CatchEnding

\* A reset starts over.
LEMMA CatchReset ==
    ASSUME Reset
    PROVE  CatchInv'
  <1>1. pc' = "main.openIn" /\ verdict' = "none" /\ atStart' = host'
    BY DEF Reset
  <1>2. pc' \in PastNone /\ pc' # "passed"
    BY <1>1 DEF PastNone
  <1>3. Reported' /\ Excluded' /\ Cleaned'
    BY <1>1, <1>2, NonePast DEF Reported, Excluded, Cleaned, Past
  <1>4. Evidence'
    BY <1>1 DEF Evidence
  <1> QED
    BY <1>3, <1>4 DEF CatchInv

\* Every step keeps the invariant.
LEMMA CatchStep == TypeOK /\ LeakInv /\ ReportInv /\ CatchInv /\ [Next]_vars => CatchInv'
  <1> SUFFICES ASSUME TypeOK, LeakInv, ReportInv, CatchInv, [Next]_vars PROVE CatchInv'
    OBVIOUS
  <1>1. CASE testSemihosting
    BY <1>1, CatchTests
  <1>2. CASE mainOpenConsole
    BY <1>2, CatchOpening
  <1>3. CASE mainReport
    BY <1>3, CatchReport
  <1>4. CASE mainCloseConsole
    BY <1>4, CatchClosing
  <1>5. CASE Reset
    BY <1>5, CatchReset
  <1>6. CASE Parked \/ UNCHANGED vars
    BY <1>6 DEF Parked, vars, CatchInv, Reported, Excluded, Past, CodesMisjudged, Evidence,
                Cleaned, NewlyOpen, IsOpen
  <1> QED
    BY <1>1, <1>2, <1>3, <1>4, <1>5, <1>6 DEF Next, main

\* A run starts past no check.
LEMMA CatchStart == Init => CatchInv
  <1> SUFFICES ASSUME Init PROVE CatchInv
    OBVIOUS
  <1>1. pc = "main.openIn" /\ verdict = "none" /\ atStart = host
    BY DEF Init
  <1>2. pc \in PastNone /\ pc # "passed"
    BY <1>1 DEF PastNone
  <1>3. Reported /\ Excluded /\ Cleaned
    BY <1>1, <1>2, NonePast DEF Reported, Excluded, Cleaned, Past
  <1>4. Evidence
    BY <1>1 DEF Evidence
  <1> QED
    BY <1>3, <1>4 DEF CatchInv

\* The invariants of the suite hold in every reachable state.
LEMMA CatchHolds == Spec => [](TypeOK /\ LeakInv /\ ReportInv /\ CatchInv)
  <1>1. Init => LeakInv /\ ReportInv
    BY DEF Init, LeakInv, NewlyOpen, ReportInv
  <1> QED
    BY <1>1, InitType, StepType, CatchStart, LeakStep, ReportStep, CatchStep, PTL DEF Spec

\* "Test complete (success)" is reported only for a host without a regression
\* the tests are there to find, however calls fail and whatever earlier runs
\* left behind (semihosting.cxx:656-672, 700-703).
THEOREM RegressionsCaught == Spec => []RegressionCaught
  <1>1. TypeOK /\ CatchInv => RegressionCaught
    <2> SUFFICES ASSUME TypeOK, CatchInv, verdict = "success" PROVE Undetectable
      BY DEF RegressionCaught
    <2>1. host.regression \in AllRegressions \cup {"none"}
      BY HostAssumption DEF TypeOK, HostState
    <2>2. /\ host.regression \notin {"cmdline", "handles", "isTTY", "length", "features",
                                     "read", "write", "garble", "heapInfo", "remove", "errno",
                                     "tickFreq", "elapsed", "tempName", "clock"}
          /\ host.regression = "close" => host.mood = "flaky"
          /\ host.regression = "rename" => atStart.files["B"] = "alphabet"
      BY DEF CatchInv, Excluded, Past
    <2>3. ~CodesMisjudged /\ host.mood \in {"steady", "flaky"}
      BY HostAssumption DEF CatchInv, Excluded, Past, TypeOK, HostState
    <2> QED
      BY <2>1, <2>2, <2>3 DEF AllRegressions, Undetectable, CodesMisjudged
  <1> QED
    BY <1>1, CatchHolds, PTL

\* A successful run on a correct host has removed its two files and closed
\* every handle it opened.
THEOREM SuccessIsClean == Spec => []CleanOnSuccess
  <1>1. TypeOK /\ CatchInv => CleanOnSuccess
    <2> SUFFICES ASSUME TypeOK, CatchInv, verdict = "success", host.regression = "none"
                 PROVE  /\ host.files = [f \in {"A", "B"} |-> "absent"]
                        /\ NewlyOpen = {}
      BY DEF CleanOnSuccess
    <2>1. host.files["A"] = "absent" /\ host.files["B"] = "absent" /\ NewlyOpen = {}
      BY DEF CatchInv, Cleaned, Past
    <2> QED
      BY <2>1 DEF TypeOK, HostState
  <1> QED
    BY <1>1, CatchHolds, PTL

-----------------------------------------------------------------------------
(***************************************************************************)
(* A run on a good host goes from success to success: SmoothInv is         *)
(* inductive.                                                              *)
(***************************************************************************)

\* A correct host whose calls do not fail.
Sound(h) == h \in HostState /\ h.mood = "steady" /\ h.regression = "none"

\* What it answers to the calls that open, close and change nothing.
LEMMA SoundQueries ==
    ASSUME NEW h, Sound(h)
    PROVE  /\ Flake(h) = {}
           /\ \A r \in AllRegressions : Query(h, r) = {Outcome(Ok, h)}
           /\ \A o \in ClockTest(h) : o.host = h
           /\ ShowExit(h) = {Outcome(Ok, h)}
           /\ TickFrequency(h) = {Failure(h, "EIO")}
           /\ Elapsed(h) = {Failure(h, "EIO")}
           /\ WriteDebug(h) = {Outcome(Ok, h)}
           /\ LastErrno(h) = {Outcome(h.errno, [h EXCEPT !.errno = "success"])}
           /\ \A code : IsError(h, code) = {Outcome(IF code \in FileIOErrno THEN 1 ELSE 0, h)}
  <1>1. Flake(h) = {}
    BY DEF Flake, Sound
  <1>2. \A r \in AllRegressions : r # h.regression
    BY DEF AllRegressions, Sound
  <1>3. \A r \in AllRegressions : Query(h, r) = {Outcome(Ok, h)}
    BY <1>1, <1>2 DEF Query
  <1>4. LastErrno(h) = {Outcome(h.errno, [h EXCEPT !.errno = "success"])}
    BY DEF LastErrno, Sound
  <1>5. ASSUME NEW code
        PROVE  IsError(h, code) = {Outcome(IF code \in FileIOErrno THEN 1 ELSE 0, h)}
    BY <1>1 DEF IsError, Sound
  <1>6. (\A o \in ClockTest(h) : o.host = h) /\ ShowExit(h) = {Outcome(Ok, h)}
    BY <1>1 DEF ClockTest, ShowExit, Outcome
  <1>7. TickFrequency(h) = {Failure(h, "EIO")} /\ Elapsed(h) = {Failure(h, "EIO")}
    BY DEF TickFrequency, Elapsed, Sound
  <1> QED
    BY <1>1, <1>3, <1>4, <1>5, <1>6, <1>7 DEF WriteDebug

\* What it answers to the calls with a handle.
LEMMA SoundHandles ==
    ASSUME NEW h, Sound(h), NEW n \in Handles
    PROVE  /\ h.open[n] # "closed"
                => CloseFD(h, n) = {Outcome(Ok, [h EXCEPT !.open[n] = "closed"])}
           /\ h.open[n] \in {"ttyIn", "ttyOut"} => IsTTY(h, n) = {Outcome(1, h)}
           /\ h.open[n] \in {"B", "Beof"}       => IsTTY(h, n) = {Outcome(0, h)}
           /\ h.open[n] = "features" \/ (h.open[n] = "B" /\ h.files["B"] = "alphabet")
                => FileLength(h, n) = {Outcome(Ok, h)}
           /\ h.open[n] = "features" => ReadFD(h, n) = {Outcome(Ok, h)}
           /\ h.open[n] = "B" /\ h.files["B"] = "alphabet"
                => ReadFD(h, n) = {Outcome(Ok, [h EXCEPT !.open[n] = "Beof"])}
           /\ h.open[n] = "closed" => /\ ReadFD(h, n) = {Failure(h, "EBADF")}
                                      /\ WriteFD(h, n) = {Failure(h, "EBADF")}
           /\ h.open[n] = "ttyOut" => WriteFD(h, n) = {Outcome(Ok, h)}
           /\ h.open[n] = "A"
                => WriteFD(h, n) = {Outcome(Ok, [h EXCEPT !.files["A"] = "alphabet"])}
  <1>1. Flake(h) = {} /\ h.mood # "flaky" /\ h.regression = "none"
    BY SoundQueries DEF Sound
  <1>2. h.open[n] # "closed" => CloseFD(h, n) = {Outcome(Ok, [h EXCEPT !.open[n] = "closed"])}
    BY <1>1 DEF CloseFD, IsOpen, LeavesOpen
  <1>3. /\ h.open[n] \in {"ttyIn", "ttyOut"} => IsTTY(h, n) = {Outcome(1, h)}
        /\ h.open[n] \in {"B", "Beof"}       => IsTTY(h, n) = {Outcome(0, h)}
    BY <1>1 DEF IsTTY, IsOpen
  <1>4. h.open[n] = "features" \/ (h.open[n] = "B" /\ h.files["B"] = "alphabet")
          => FileLength(h, n) = {Outcome(Ok, h)}
    BY <1>1 DEF FileLength, IsOpen
  <1>5. h.open[n] = "features" => ReadFD(h, n) = {Outcome(Ok, h)}
    BY <1>1 DEF ReadFD, IsOpen
  <1>6. h.open[n] = "B" /\ h.files["B"] = "alphabet"
          => ReadFD(h, n) = {Outcome(Ok, [h EXCEPT !.open[n] = "Beof"])}
    BY <1>1 DEF ReadFD, IsOpen
  <1>7. h.open[n] = "closed" => /\ ReadFD(h, n) = {Failure(h, "EBADF")}
                                /\ WriteFD(h, n) = {Failure(h, "EBADF")}
    BY DEF ReadFD, WriteFD, IsOpen, IsConsole
  <1>8. h.open[n] = "ttyOut" => WriteFD(h, n) = {Outcome(Ok, h)}
    BY <1>1 DEF WriteFD, IsConsole
  <1>9. h.open[n] = "A" => WriteFD(h, n) = {Outcome(Ok, [h EXCEPT !.files["A"] = "alphabet"])}
    BY <1>1 DEF WriteFD, IsConsole, IsOpen
  <1> QED
    BY <1>2, <1>3, <1>4, <1>5, <1>6, <1>7, <1>8, <1>9

\* What it answers to the calls that name files.
LEMMA SoundFiles ==
    ASSUME NEW h, Sound(h)
    PROVE  /\ h.files["A"] # "absent" => RenameAB(h) =
                {Outcome(Ok, [h EXCEPT !.files["B"] = h.files["A"], !.files["A"] = "absent"])}
           /\ h.files["B"] # "absent" =>
                RemoveB(h) = {Outcome(Ok, [h EXCEPT !.files["B"] = "absent"])}
           /\ h.files["B"] = "absent" => OpenFile(h, "B") = {Failure(h, "ENOENT")}
           /\ \A stream \in {"A", "B", "features"} :
                 FreeHandles(h) # {} /\ (stream = "B" => h.files["B"] # "absent") =>
                    \A o \in OpenFile(h, stream) :
                       /\ o.ret \in FreeHandles(h)
                       /\ o.host.open = [h.open EXCEPT ![o.ret] = stream]
                       /\ stream # "A" => o.host.files = h.files
  <1>1. Flake(h) = {} /\ h.regression = "none"
    BY SoundQueries DEF Sound
  <1>2. h.files["A"] # "absent" => RenameAB(h) =
          {Outcome(Ok, [h EXCEPT !.files["B"] = h.files["A"], !.files["A"] = "absent"])}
    BY <1>1 DEF RenameAB
  <1>3. h.files["B"] # "absent" => RemoveB(h) = {Outcome(Ok, [h EXCEPT !.files["B"] = "absent"])}
    BY <1>1 DEF RemoveB
  <1>4. h.files["B"] = "absent" => OpenFile(h, "B") = {Failure(h, "ENOENT")}
    BY <1>1 DEF OpenFile
  <1>5. ASSUME NEW stream \in {"A", "B", "features"},
               FreeHandles(h) # {}, stream = "B" => h.files["B"] # "absent",
               NEW o \in OpenFile(h, stream)
        PROVE  /\ o.ret \in FreeHandles(h)
               /\ o.host.open = [h.open EXCEPT ![o.ret] = stream]
               /\ stream # "A" => o.host.files = h.files
    <2> DEFINE H(n) == [h EXCEPT !.open[n] = stream,
                                 !.files["A"] = IF stream = "A" THEN "empty" ELSE @]
    <2>1. PICK n \in FreeHandles(h) : o = Outcome(n, H(n))
      BY <1>1, <1>5 DEF OpenFile
    <2>2. H(n).open = [h.open EXCEPT ![n] = stream]
      BY DEF Sound, HostState
    <2>3. stream # "A" => H(n).files = h.files
      BY DEF Sound, HostState
    <2> HIDE DEF H
    <2> QED
      BY <2>1, <2>2, <2>3 DEF Outcome
  <1> QED
    BY <1>2, <1>3, <1>4, <1>5

\* A call with one right answer is gone on from.
LEMMA AnsweredRight ==
    ASSUME NEW r, NEW h, NEW good, NEW next, NEW bad,
           Asks({Outcome(r, h)}, good, next, bad), r \in good
    PROVE  /\ pc' = next
           /\ host'.open = h.open /\ host'.files = h.files
           /\ h.mood = "steady" /\ IsConsole(h, fdToHost) => host' = h
           /\ pc' = "errno.first" => host' = h
  BY DEF Asks, Outcome, Follows

\* A handle is left on a good host where no test holds one.
LEMMA FreeLeft ==
    ASSUME LeakInv, Good, ~MayHoldFile
    PROVE  FreeHandles(host) # {}
  <1>1. PICK n \in FileHandles : ~IsOpen(atStart, n)
    BY DEF Good
  <1>2. ~IsOpen(host, n)
    BY <1>1 DEF LeakInv, Good, NewlyOpen
  <1> QED
    BY <1>2, HandleNumbers DEF IsOpen, FreeHandles

\* Only the opens of the console change its handles.
LEMMA ConsoleKept ==
    ASSUME testSemihosting, pc \notin {"tty.openIn", "tty.openOut"}
    PROVE  UNCHANGED console
  <1>1. CASE testReadCommandLine \/ testConsoleHandles
    BY <1>1 DEF testReadCommandLine, testConsoleHandles, OpenIn, OpenOut, CloseIn, CloseOut,
                Check, Call
  <1>2. CASE testSemihostingFeatures \/ testConsoleWrite
    BY <1>2 DEF testSemihostingFeatures, testConsoleWrite, CloseFile, OpenAs, Loop, Check, Call
  <1>3. CASE testFileIO
    BY <1>3 DEF testFileIO, writeFileA, readFileB, CloseFile, OpenAs, Check, Call
  <1>4. CASE testIsError \/ testHeapInfo \/ testErrno \/ testTiming
    BY <1>4 DEF testIsError, testHeapInfo, testErrno, testTiming, Loop, Check, Call
  <1>5. CASE testTempName \/ testTimekeeping \/ testIntervals \/ testExits
    BY <1>5 DEF testTempName, testTimekeeping, testIntervals, testExits, Check, Call
  <1> QED
    BY <1>1, <1>2, <1>3, <1>4, <1>5 DEF testSemihosting

\* A call with no effect on files and handles.
Kept == host'.open = host.open /\ host'.files = host.files

\* The calls before the files that only ask pass.
LEMMA SmoothFirst ==
    ASSUME TypeOK, Good, SmoothInv, testSemihosting
    PROVE  /\ pc = "cmdline" => pc' = "tty.closeIn" /\ Kept
           /\ pc = "tty.isInTTY" => pc' = "tty.isOutTTY" /\ Kept
           /\ pc = "tty.isOutTTY" => pc' = "features.open" /\ Kept
           /\ pc = "features.length" => pc' = "features.magic" /\ Kept
           /\ pc = "features.magic" => pc' = "features.byte" /\ Kept
           /\ pc = "features.byte" => pc' = "features.close" /\ Kept
           /\ pc = "console.write" => pc' = "console.write0" /\ Kept
           /\ pc = "console.write0" => pc' = "console.writeC" /\ Kept
           /\ pc = "console.writeC" => pc' \in {"console.writeC", "file.create"} /\ Kept
  <1> USE DEF Kept
  <1>1. TestSteps
    BY StepsByLabel
  <1>2. /\ Sound(host) /\ FilesRight
        /\ pc \notin InDown  => fdFromHost \in Handles /\ host.open[fdFromHost] = "ttyIn"
        /\ pc \notin OutDown => fdToHost \in Handles /\ host.open[fdToHost] = "ttyOut"
    BY HandleNumbers DEF TypeOK, Good, Sound, SmoothInv, ConsoleLive
  <1>3. {"cmdline", "heapInfo", "tempName", "clock", "tickFreq", "elapsed"} \subseteq AllRegressions
    BY DEF AllRegressions
  <1>4. \A e : /\ Failure(host, e) = Outcome(Err, Failure(host, e).host)
               /\ Failure(host, e).host.open = host.open
               /\ Failure(host, e).host.files = host.files
    BY DEF Failure, Outcome, HostState, TypeOK
  <1>5. CASE pc = "cmdline"
    <2>1. Asks(Query(host, "cmdline"), {Ok},
               "tty.closeIn", "failed")
      BY <1>1, <1>5 DEF TestSteps, FirstSteps
    <2>2. Query(host, "cmdline") = {Outcome(Ok, host)}
      BY <1>2, <1>3, <1>4, <1>5, SoundQueries
    <2> QED
      BY <1>4, <1>5, <2>1, <2>2, AnsweredRight
  <1>6. CASE pc = "tty.isInTTY"
    <2>1. Asks(IsTTY(host, fdFromHost), {1},
               "tty.isOutTTY", "failed")
      BY <1>1, <1>6 DEF TestSteps, FirstSteps
    <2>2. IsTTY(host, fdFromHost) = {Outcome(1, host)}
      BY <1>2, <1>3, <1>4, <1>6, SoundHandles DEF InDown
    <2> QED
      BY <1>4, <1>6, <2>1, <2>2, AnsweredRight
  <1>7. CASE pc = "tty.isOutTTY"
    <2>1. Asks(IsTTY(host, fdToHost), {1},
               IF HandlesAsExpected THEN "features.open" ELSE "failed", "failed")
      BY <1>1, <1>7 DEF TestSteps, FirstSteps
    <2>2. IsTTY(host, fdToHost) = {Outcome(1, host)}
      BY <1>2, <1>3, <1>4, <1>7, SoundHandles DEF OutDown
    <2>3. HandlesAsExpected
      BY <1>7 DEF HandlesAsExpected, SmoothInv, ConsoleLive, InDown, OutDown
    <2> QED
      BY <1>7, <2>1, <2>2, <2>3, AnsweredRight
  <1>8. CASE pc = "features.length"
    <2>1. Asks(FileLength(host, fd), {Ok},
               "features.magic", "features.abort")
      BY <1>1, <1>8 DEF TestSteps, FirstSteps
    <2>2. FileLength(host, fd) = {Outcome(Ok, host)}
      BY <1>2, <1>3, <1>4, <1>8, SoundHandles, HandleNumbers DEF FilesRight, Holding
    <2> QED
      BY <1>4, <1>8, <2>1, <2>2, AnsweredRight
  <1>9. CASE pc = "features.magic"
    <2>1. Asks(ReadFD(host, fd), {Ok},
               "features.byte", "features.abort")
      BY <1>1, <1>9 DEF TestSteps, FirstSteps
    <2>2. ReadFD(host, fd) = {Outcome(Ok, host)}
      BY <1>2, <1>3, <1>4, <1>9, SoundHandles, HandleNumbers DEF FilesRight, Holding
    <2> QED
      BY <1>4, <1>9, <2>1, <2>2, AnsweredRight
  <1>10. CASE pc = "features.byte"
    <2>1. Asks(ReadFD(host, fd), {Ok, Wrong},
               IF FeaturesByte(host) = 3 THEN "features.close" ELSE "failed", "features.abort")
      BY <1>1, <1>10 DEF TestSteps, FirstSteps
    <2>2. ReadFD(host, fd) = {Outcome(Ok, host)}
      BY <1>2, <1>3, <1>4, <1>10, SoundHandles, HandleNumbers DEF FilesRight, Holding
    <2>3. FeaturesByte(host) = 3
      BY DEF FeaturesByte, Good
    <2> QED
      BY <1>10, <2>1, <2>2, <2>3, AnsweredRight
  <1>11. CASE pc = "console.write"
    <2>1. Asks(WriteFD(host, fdToHost), {Ok},
               "console.write0", "failed")
      BY <1>1, <1>11 DEF TestSteps, FirstSteps
    <2>2. WriteFD(host, fdToHost) = {Outcome(Ok, host)}
      BY <1>2, <1>3, <1>4, <1>11, SoundHandles DEF OutDown
    <2> QED
      BY <1>4, <1>11, <2>1, <2>2, AnsweredRight
  <1>12. CASE pc = "console.write0"
    <2>1. Asks(WriteDebug(host), {Ok},
               "console.writeC", "failed")
      BY <1>1, <1>12 DEF TestSteps, FirstSteps
    <2>2. WriteDebug(host) = {Outcome(Ok, host)}
      BY <1>2, <1>3, <1>4, <1>12, SoundQueries
    <2> QED
      BY <1>4, <1>12, <2>1, <2>2, AnsweredRight
  <1>13. CASE pc = "console.writeC"
    <2>1. Asks(WriteDebug(host), {Ok},
               IF index + 1 < AlphabetLength THEN "console.writeC" ELSE "file.create", "failed")
      BY <1>1, <1>13 DEF TestSteps, FirstSteps
    <2>2. WriteDebug(host) = {Outcome(Ok, host)}
      BY <1>2, <1>3, <1>4, <1>13, SoundQueries
    <2> QED
      BY <1>4, <1>13, <2>1, <2>2, AnsweredRight
  <1> QED
    BY <1>5, <1>6, <1>7, <1>8, <1>9, <1>10, <1>11, <1>12, <1>13

\* So do those between the calls that change files.
LEMMA SmoothMiddle ==
    ASSUME TypeOK, Good, SmoothInv, testSemihosting
    PROVE  /\ pc = "file.writeClosed" => pc' = "file.rename" /\ Kept
           /\ pc = "file.length" => pc' = "file.read" /\ Kept
           /\ pc = "file.isTTY" => pc' = "file.closeRead" /\ Kept
           /\ pc = "file.readClosed" => pc' = "file.remove" /\ Kept
  <1> USE DEF Kept
  <1>1. TestSteps
    BY StepsByLabel
  <1>2. /\ Sound(host) /\ FilesRight
        /\ pc \notin InDown  => fdFromHost \in Handles /\ host.open[fdFromHost] = "ttyIn"
        /\ pc \notin OutDown => fdToHost \in Handles /\ host.open[fdToHost] = "ttyOut"
    BY HandleNumbers DEF TypeOK, Good, Sound, SmoothInv, ConsoleLive
  <1>3. {"cmdline", "heapInfo", "tempName", "clock", "tickFreq", "elapsed"} \subseteq AllRegressions
    BY DEF AllRegressions
  <1>4. \A e : /\ Failure(host, e) = Outcome(Err, Failure(host, e).host)
               /\ Failure(host, e).host.open = host.open
               /\ Failure(host, e).host.files = host.files
    BY DEF Failure, Outcome, HostState, TypeOK
  <1>5. CASE pc = "file.writeClosed"
    <2>1. Asks(WriteFD(host, fd), {Short, Err},
               "file.rename", "failed")
      BY <1>1, <1>5 DEF TestSteps, FileSteps
    <2>2. WriteFD(host, fd) = {Failure(host, "EBADF")}
      BY <1>2, <1>3, <1>4, <1>5, SoundHandles, HandleNumbers DEF FilesRight, Holding
    <2> QED
      BY <1>4, <1>5, <2>1, <2>2, AnsweredRight
  <1>6. CASE pc = "file.length"
    <2>1. Asks(FileLength(host, fd), {Ok},
               "file.read", "failed")
      BY <1>1, <1>6 DEF TestSteps, FileSteps
    <2>2. FileLength(host, fd) = {Outcome(Ok, host)}
      BY <1>2, <1>3, <1>4, <1>6, SoundHandles, HandleNumbers DEF FilesRight, Holding
    <2> QED
      BY <1>4, <1>6, <2>1, <2>2, AnsweredRight
  <1>7. CASE pc = "file.isTTY"
    <2>1. Asks(IsTTY(host, fd), {0},
               "file.closeRead", "failed")
      BY <1>1, <1>7 DEF TestSteps, FileSteps
    <2>2. IsTTY(host, fd) = {Outcome(0, host)}
      BY <1>2, <1>3, <1>4, <1>7, SoundHandles, HandleNumbers DEF FilesRight, Holding
    <2> QED
      BY <1>4, <1>7, <2>1, <2>2, AnsweredRight
  <1>8. CASE pc = "file.readClosed"
    <2>1. Asks(ReadFD(host, fd), {Short, Err},
               "file.remove", "failed")
      BY <1>1, <1>8 DEF TestSteps, FileSteps
    <2>2. ReadFD(host, fd) = {Failure(host, "EBADF")}
      BY <1>2, <1>3, <1>4, <1>8, SoundHandles, HandleNumbers DEF FilesRight, Holding
    <2> QED
      BY <1>4, <1>8, <2>1, <2>2, AnsweredRight
  <1> QED
    BY <1>5, <1>6, <1>7, <1>8

\* And those after the files.
LEMMA SmoothLast ==
    ASSUME TypeOK, Good, SmoothInv, testSemihosting
    PROVE  /\ pc = "isError" => pc' \in {"isError", "heapInfo"} /\ Kept
           /\ pc = "heapInfo" => pc' = "errno.open" /\ Kept
           /\ pc = "errno.open" => pc' = "errno.first" /\ Kept
           /\ pc = "errno.first" => pc' = "errno.second" /\ Kept
           /\ pc = "errno.second" => pc' = "tickFrequency" /\ Kept
           /\ pc = "tickFrequency" => pc' = "elapsed" /\ Kept
           /\ pc = "elapsed" => pc' = "tempName" /\ Kept
           /\ pc = "tempName" => pc' = "timekeeping" /\ Kept
           /\ pc = "timekeeping" => pc' \in {"intervals", "failed"} /\ Kept
           /\ pc = "intervals" => pc' \in {"exit", "failed"} /\ Kept
           /\ pc = "exit" => pc' = "exitExtended" /\ Kept
           /\ pc = "exitExtended" => pc' = "passed" /\ Kept
           /\ pc = "errno.open"  => host'.errno = "ENOENT"
           /\ pc = "errno.first" => host'.errno = "success"
  <1> USE DEF Kept
  <1>1. TestSteps
    BY StepsByLabel
  <1>2. /\ Sound(host) /\ FilesRight
        /\ pc \notin InDown  => fdFromHost \in Handles /\ host.open[fdFromHost] = "ttyIn"
        /\ pc \notin OutDown => fdToHost \in Handles /\ host.open[fdToHost] = "ttyOut"
    BY HandleNumbers DEF TypeOK, Good, Sound, SmoothInv, ConsoleLive
  <1>3. {"cmdline", "heapInfo", "tempName", "clock", "tickFreq", "elapsed"} \subseteq AllRegressions
    BY DEF AllRegressions
  <1>4. \A e : /\ Failure(host, e) = Outcome(Err, Failure(host, e).host)
               /\ Failure(host, e).host.open = host.open
               /\ Failure(host, e).host.files = host.files
    BY DEF Failure, Outcome, HostState, TypeOK
  <1>5. CASE pc = "isError"
    <2>1. Asks(IsError(host, index), IsErrorGood,
               IF index + 1 < CodeCount THEN "isError" ELSE "heapInfo", "failed")
      BY <1>1, <1>5 DEF TestSteps, LastSteps
    <2> DEFINE r == IF index \in FileIOErrno THEN 1 ELSE 0
    <2>2. IsError(host, index) = {Outcome(r, host)}
      BY <1>2, <1>3, <1>4, <1>5, SoundQueries
    <2>3. r \in IsErrorGood
      BY DEF IsErrorGood, FileIOErrno, fileIOErrno, SaysError
    <2> HIDE DEF r
    <2> QED
      BY <1>5, <2>1, <2>2, <2>3, AnsweredRight
  <1>6. CASE pc = "heapInfo"
    <2>1. Asks(Query(host, "heapInfo"), {Ok},
               "errno.open", "failed")
      BY <1>1, <1>6 DEF TestSteps, LastSteps
    <2>2. Query(host, "heapInfo") = {Outcome(Ok, host)}
      BY <1>2, <1>3, <1>4, <1>6, SoundQueries
    <2> QED
      BY <1>4, <1>6, <2>1, <2>2, AnsweredRight
  <1>7. CASE pc = "errno.open"
    <2>1. Asks(OpenFile(host, "B"), {Err},
               "errno.first", "errno.abort")
      BY <1>1, <1>7 DEF TestSteps, LastSteps
    <2>2. OpenFile(host, "B") = {Failure(host, "ENOENT")}
      BY <1>2, <1>3, <1>4, <1>7, SoundFiles DEF FilesRight
    <2>3. Failure(host, "ENOENT").host.errno = "ENOENT"
      BY <1>2 DEF Failure, Outcome, Sound, HostState
    <2> QED
      BY <1>4, <1>7, <2>1, <2>2, <2>3, AnsweredRight
  <1>8. CASE pc = "errno.first"
    <2>1. Asks(LastErrno(host), {"ENOENT"},
               "errno.second", "failed")
      BY <1>1, <1>8 DEF TestSteps, LastSteps
    <2> DEFINE H == [host EXCEPT !.errno = "success"]
    <2>2. LastErrno(host) = {Outcome("ENOENT", H)}
      BY <1>2, <1>3, <1>4, <1>8, SoundQueries DEF FilesRight
    <2>3. /\ H.open = host.open /\ H.files = host.files /\ H.errno = "success"
          /\ H.mood = "steady" /\ IsConsole(H, fdToHost)
      BY <1>2, <1>8 DEF Sound, HostState, IsConsole, OutDown
    <2> HIDE DEF H
    <2> QED
      BY <1>8, <2>1, <2>2, <2>3, AnsweredRight
  <1>9. CASE pc = "errno.second"
    <2>1. Asks(LastErrno(host), {"success"},
               "tickFrequency", "failed")
      BY <1>1, <1>9 DEF TestSteps, LastSteps
    <2> DEFINE H == [host EXCEPT !.errno = "success"]
    <2>2. LastErrno(host) = {Outcome("success", H)}
      BY <1>2, <1>3, <1>4, <1>9, SoundQueries DEF FilesRight
    <2>3. /\ H.open = host.open /\ H.files = host.files /\ H.errno = "success"
          /\ H.mood = "steady" /\ IsConsole(H, fdToHost)
      BY <1>2, <1>9 DEF Sound, HostState, IsConsole, OutDown
    <2> HIDE DEF H
    <2> QED
      BY <1>9, <2>1, <2>2, <2>3, AnsweredRight
  <1>10. CASE pc = "tickFrequency"
    <2>1. Asks(TickFrequency(host), {Err},
               "elapsed", "failed")
      BY <1>1, <1>10 DEF TestSteps, LastSteps
    <2>2. TickFrequency(host) = {Failure(host, "EIO")}
      BY <1>2, <1>3, <1>4, <1>10, SoundQueries
    <2> QED
      BY <1>4, <1>10, <2>1, <2>2, AnsweredRight
  <1>11. CASE pc = "elapsed"
    <2>1. Asks(Elapsed(host), {Err},
               "tempName", "failed")
      BY <1>1, <1>11 DEF TestSteps, LastSteps
    <2>2. Elapsed(host) = {Failure(host, "EIO")}
      BY <1>2, <1>3, <1>4, <1>11, SoundQueries
    <2> QED
      BY <1>4, <1>11, <2>1, <2>2, AnsweredRight
  <1>12. CASE pc = "tempName"
    <2>1. Asks(Query(host, "tempName"), {Ok},
               "timekeeping", "failed")
      BY <1>1, <1>12 DEF TestSteps, LastSteps
    <2>2. Query(host, "tempName") = {Outcome(Ok, host)}
      BY <1>2, <1>3, <1>4, <1>12, SoundQueries
    <2> QED
      BY <1>4, <1>12, <2>1, <2>2, AnsweredRight
  <1>13. CASE pc = "timekeeping"
    <2>1. Asks(ClockTest(host), {Ok}, "intervals", "failed")
      BY <1>1, <1>13 DEF TestSteps, LastSteps
    <2>2. \A o \in ClockTest(host) : o.host = host
      BY <1>2, SoundQueries
    <2> QED
      BY <1>13, <2>1, <2>2 DEF Asks, Follows
  <1>14. CASE pc = "intervals"
    <2>1. Asks(ClockTest(host), {Ok}, "exit", "failed")
      BY <1>1, <1>14 DEF TestSteps, LastSteps
    <2>2. \A o \in ClockTest(host) : o.host = host
      BY <1>2, SoundQueries
    <2> QED
      BY <1>14, <2>1, <2>2 DEF Asks, Follows
  <1>15. CASE pc = "exit"
    <2>1. Asks(ShowExit(host), {Ok},
               "exitExtended", "exitExtended")
      BY <1>1, <1>15 DEF TestSteps, LastSteps
    <2>2. ShowExit(host) = {Outcome(Ok, host)}
      BY <1>2, <1>3, <1>4, <1>15, SoundQueries
    <2> QED
      BY <1>4, <1>15, <2>1, <2>2, AnsweredRight
  <1>16. CASE pc = "exitExtended"
    <2>1. Asks(ShowExit(host), {Ok},
               "passed", "passed")
      BY <1>1, <1>16 DEF TestSteps, LastSteps
    <2>2. ShowExit(host) = {Outcome(Ok, host)}
      BY <1>2, <1>3, <1>4, <1>16, SoundQueries
    <2> QED
      BY <1>4, <1>16, <2>1, <2>2, AnsweredRight
  <1> QED
    BY <1>5, <1>6, <1>7, <1>8, <1>9, <1>10, <1>11, <1>12, <1>13, <1>14, <1>15, <1>16

\* The ends of the console stay open or closed as they are.
ConsoleOpenKept == \A n \in {stdinFD, stdoutFD} : host'.open[n] = host.open[n]

\* The closes of files and the read of file B.
LEMMA SmoothCloses ==
    ASSUME TypeOK, Good, SmoothInv, testSemihosting
    PROVE  /\ pc = "features.close" =>
                 /\ pc' = "console.write" /\ ConsoleOpenKept
                 /\ host'.files = host.files
           /\ pc = "file.close" =>
                 /\ pc' = "file.writeClosed" /\ ConsoleOpenKept
                 /\ host'.files = host.files /\ host'.open[fd] = "closed"
           /\ pc = "file.closeRead" =>
                 /\ pc' = "file.readClosed" /\ ConsoleOpenKept
                 /\ host'.files = host.files /\ host'.open[fd] = "closed"
           /\ pc = "file.read" =>
                 /\ pc' = "file.isTTY" /\ ConsoleOpenKept
                 /\ host'.files = host.files /\ host'.open[fd] = "Beof"
  <1>1. TestSteps
    BY StepsByLabel
  <1>2. Sound(host) /\ FilesRight
    BY DEF TypeOK, Good, Sound, SmoothInv
  <1> DEFINE H(c) == [host EXCEPT !.open[fd] = c]
  <1>3. ASSUME fd \in FileHandles, NEW c, NEW next, NEW bad,
               Asks({Outcome(Ok, H(c))}, {Ok}, next, bad)
        PROVE  /\ pc' = next /\ ConsoleOpenKept
               /\ host'.files = host.files /\ host'.open[fd] = c
    <2>1. pc' = next /\ host'.open = H(c).open /\ host'.files = H(c).files
      BY <1>3, AnsweredRight
    <2>2. H(c).files = host.files /\ H(c).open = [host.open EXCEPT ![fd] = c]
      BY <1>2 DEF Sound, HostState
    <2>3. fd # stdinFD /\ fd # stdoutFD /\ fd \in Handles
      BY <1>3, HandleNumbers
    <2>4. DOMAIN host.open = Handles
      BY <1>2 DEF Sound, HostState
    <2> QED
      BY <2>1, <2>2, <2>3, <2>4, HandleNumbers DEF ConsoleOpenKept
  <1>4. CASE pc \in {"features.close", "file.close", "file.closeRead"}
    <2>1. fd \in FileHandles /\ fd \in Handles /\ host.open[fd] # "closed"
      BY <1>2, <1>4, HandleNumbers DEF FilesRight, Holding
    <2>2. CloseFD(host, fd) = {Outcome(Ok, H("closed"))}
      BY <1>2, <2>1, SoundHandles
    <2> HIDE DEF H
    <2> QED
      BY <1>1, <1>3, <1>4, <2>1, <2>2 DEF TestSteps, FirstSteps, FileSteps
  <1>5. CASE pc = "file.read"
    <2>1. fd \in FileHandles /\ fd \in Handles /\ host.open[fd] = "B"
          /\ host.files["B"] = "alphabet"
      BY <1>2, <1>5, HandleNumbers DEF FilesRight, Holding
    <2>2. ReadFD(host, fd) = {Outcome(Ok, H("Beof"))}
      BY <1>2, <2>1, SoundHandles
    <2> HIDE DEF H
    <2> QED
      BY <1>1, <1>3, <1>5, <2>1, <2>2 DEF TestSteps, FileSteps
  <1> QED
    BY <1>4, <1>5

\* The opens of files.
LEMMA SmoothOpens ==
    ASSUME TypeOK, LeakInv, Good, SmoothInv, testSemihosting
    PROVE  /\ pc = "features.open" =>
                 pc' = "features.length" /\ ConsoleOpenKept /\ Holding({"features"})'
           /\ pc = "file.create" =>
                 pc' = "file.write" /\ ConsoleOpenKept /\ Holding({"A"})'
           /\ pc = "file.open" =>
                 /\ pc' = "file.length" /\ ConsoleOpenKept /\ Holding({"B"})'
                 /\ host'.files = host.files
  <1>1. TestSteps
    BY StepsByLabel
  <1>2. Sound(host) /\ FilesRight
    BY DEF TypeOK, Good, Sound, SmoothInv
  <1>3. ASSUME NEW stream \in {"A", "B", "features"}, NEW next,
               FreeHandles(host) # {}, stream = "B" => host.files["B"] # "absent",
               OpensFile(stream, next)
        PROVE  /\ pc' = next /\ ConsoleOpenKept /\ Holding({stream})'
               /\ stream # "A" => host'.files = host.files
    <2>1. PICK o \in OpenFile(host, stream) :
            /\ fd' = o.ret
            /\ \/ o.ret > 0 /\ pc' = next /\ Follows(o.host, host')
               \/ o.ret <= 0
      BY <1>3 DEF OpensFile
    <2>2. /\ o.ret \in FreeHandles(host)
          /\ o.host.open = [host.open EXCEPT ![o.ret] = stream]
          /\ stream # "A" => o.host.files = host.files
      <3>1. \A p \in OpenFile(host, stream) :
               /\ p.ret \in FreeHandles(host)
               /\ p.host.open = [host.open EXCEPT ![p.ret] = stream]
               /\ stream # "A" => p.host.files = host.files
        BY <1>2, <1>3, SoundFiles, Zenon
      <3> QED
        BY <3>1
    <2>3. o.ret \in FileHandles /\ o.ret \in Handles /\ o.ret > 2 /\ o.ret \in Int
      BY <2>2, HandleNumbers DEF FreeHandles
    <2>4. pc' = next /\ host'.open = o.host.open /\ host'.files = o.host.files
      BY <2>1, <2>3 DEF Follows
    <2>5. DOMAIN host.open = Handles
      BY <1>2 DEF Sound, HostState
    <2> QED
      BY <2>1, <2>2, <2>3, <2>4, <2>5, HandleNumbers DEF ConsoleOpenKept, Holding
  <1>4. pc \in {"features.open", "file.create", "file.open"} => FreeHandles(host) # {}
    BY FreeLeft DEF MayHoldFile, HoldLabels
  <1>5. pc = "file.open" => host.files["B"] # "absent"
    BY <1>2 DEF FilesRight
  <1> QED
    BY <1>1, <1>3, <1>4, <1>5 DEF TestSteps, FirstSteps, FileSteps

\* The calls that change files.
LEMMA SmoothFiles ==
    ASSUME TypeOK, Good, SmoothInv, testSemihosting
    PROVE  /\ pc = "file.write" =>
                 /\ pc' = "file.close" /\ host'.open = host.open
                 /\ host'.files["A"] = "alphabet"
           /\ pc = "file.rename" =>
                 /\ pc' = "file.open" /\ host'.open = host.open
                 /\ host'.files["B"] = "alphabet"
           /\ pc = "file.remove" =>
                 /\ pc' = "isError" /\ host'.open = host.open
                 /\ host'.files["B"] = "absent"
  <1>1. TestSteps
    BY StepsByLabel
  <1>2. Sound(host) /\ FilesRight
    BY DEF TypeOK, Good, Sound, SmoothInv
  <1>3. CASE pc = "file.write"
    <2> DEFINE H == [host EXCEPT !.files["A"] = "alphabet"]
    <2>1. WriteFD(host, fd) = {Outcome(Ok, H)}
      BY <1>2, <1>3, SoundHandles, HandleNumbers DEF FilesRight, Holding
    <2>2. H.open = host.open /\ H.files["A"] = "alphabet"
      BY <1>2 DEF Sound, HostState
    <2>3. Asks(WriteFD(host, fd), {Ok}, "file.close", "failed")
      BY <1>1, <1>3 DEF TestSteps, FileSteps
    <2> HIDE DEF H
    <2> QED
      BY <1>3, <2>1, <2>2, <2>3, AnsweredRight
  <1>4. CASE pc = "file.rename"
    <2> DEFINE H == [host EXCEPT !.files["B"] = host.files["A"], !.files["A"] = "absent"]
    <2>1. RenameAB(host) = {Outcome(Ok, H)} /\ host.files["A"] = "alphabet"
      BY <1>2, <1>4, SoundFiles DEF FilesRight
    <2>2. H.open = host.open /\ H.files["B"] = host.files["A"]
      BY <1>2 DEF Sound, HostState
    <2>3. Asks(RenameAB(host), {Ok}, "file.open", "failed")
      BY <1>1, <1>4 DEF TestSteps, FileSteps
    <2> HIDE DEF H
    <2> QED
      BY <1>4, <2>1, <2>2, <2>3, AnsweredRight
  <1>5. CASE pc = "file.remove"
    <2> DEFINE H == [host EXCEPT !.files["B"] = "absent"]
    <2>1. RemoveB(host) = {Outcome(Ok, H)}
      BY <1>2, <1>5, SoundFiles DEF FilesRight
    <2>2. H.open = host.open /\ H.files["B"] = "absent"
      BY <1>2 DEF Sound, HostState
    <2>3. Asks(RemoveB(host), {Ok}, "isError", "failed")
      BY <1>1, <1>5 DEF TestSteps, FileSteps
    <2> HIDE DEF H
    <2> QED
      BY <1>5, <2>1, <2>2, <2>3, AnsweredRight
  <1> QED
    BY <1>3, <1>4, <1>5

\* A close of an end of the console that is live closes it, and leaves the
\* other end as it is.
LEMMA SmoothConsoleClose ==
    ASSUME TypeOK, Good, NEW n \in {stdinFD, stdoutFD}, host.open[n] # "closed",
           NEW at, NEW next, NEW bad, Check(at, close(n), {Ok}, next, bad)
    PROVE  /\ pc = at /\ pc' = next /\ UNCHANGED console
           /\ \A m \in {stdinFD, stdoutFD} \ {n} : host'.open[m] = host.open[m]
  <1> DEFINE H == [host EXCEPT !.open[n] = "closed"]
  <1>1. Sound(host)
    BY DEF TypeOK, Good, Sound
  <1>2. pc = at /\ Asks(CloseFD(host, n), {Ok}, next, bad)
    BY CloseAsks
  <1>3. n \in Handles
    BY HandleNumbers
  <1>4. CloseFD(host, n) = {Outcome(Ok, H)}
    BY <1>1, <1>3, SoundHandles
  <1>5. H.open = [host.open EXCEPT ![n] = "closed"] /\ DOMAIN host.open = Handles
    BY <1>1 DEF Sound, HostState
  <1>6. UNCHANGED console
    BY DEF Check, Call
  <1> HIDE DEF H
  <1>7. pc' = next /\ host'.open = H.open
    BY <1>2, <1>4, AnsweredRight
  <1> QED
    BY <1>2, <1>5, <1>6, <1>7, HandleNumbers

\* An open of an end of the console makes it live, and leaves the other end
\* as it is.
LEMMA SmoothConsoleOpen ==
    ASSUME TypeOK, Good, NEW at, NEW next, NEW bad
    PROVE  /\ OpenIn(at, next) =>
                 /\ pc' = next
                 /\ fdFromHost' = stdinFD /\ host'.open[stdinFD] = "ttyIn"
           /\ OpenOut(at, next, bad) /\ fdFromHost = stdinFD /\ host.open[stdinFD] = "ttyIn" =>
                 /\ pc' = next
                 /\ fdFromHost' = stdinFD /\ host'.open[stdinFD] = "ttyIn"
                 /\ fdToHost' = stdoutFD /\ host'.open[stdoutFD] = "ttyOut"
  <1> DEFINE H(n, stream) == [host EXCEPT !.open[n] = stream]
  <1>1. /\ OpenTTY(host, "ttyIn") = {Outcome(stdinFD, H(stdinFD, "ttyIn"))}
        /\ OpenTTY(host, "ttyOut") = {Outcome(stdoutFD, H(stdoutFD, "ttyOut"))}
    BY DEF OpenTTY, TTYNumber, Good, Flake
  <1>2. \A n, stream : H(n, stream).open = [host.open EXCEPT ![n] = stream]
    BY DEF TypeOK, HostState
  <1>3. DOMAIN host.open = Handles
    BY DEF TypeOK, HostState
  <1>4. ASSUME OpenIn(at, next)
        PROVE  pc' = next /\ fdFromHost' = stdinFD /\ host' = H(stdinFD, "ttyIn")
    BY <1>1, <1>4, AnswerOpenTTY DEF OpenIn, Outcome
  <1>5. ASSUME OpenOut(at, next, bad), fdFromHost = stdinFD
        PROVE  /\ pc' = next /\ fdToHost' = stdoutFD /\ fdFromHost' = fdFromHost
               /\ host'.open = H(stdoutFD, "ttyOut").open
    <2>1. PICK o \in OpenTTY(host, "ttyOut") :
            /\ fdToHost' = o.ret
            /\ pc' = IF fdFromHost # -1 /\ o.ret # -1 THEN next ELSE bad
            /\ host' = o.host \/ host' \in Logged(o.host, o.ret)
      BY <1>5, AnswerOpenTTY DEF OpenOut
    <2>2. o.ret = stdoutFD /\ o.host = H(stdoutFD, "ttyOut")
      BY <1>1 DEF Outcome
    <2>3. o.host \in HostState
      BY OpenTTYOpens, ChangeType DEF TypeOK
    <2>4. \A g \in Logged(o.host, o.ret) : g.open = o.host.open
      BY <2>3 DEF Logged, HostState
    <2>5. fdFromHost' = fdFromHost
      BY <1>5 DEF OpenOut
    <2>6. fdToHost' = stdoutFD /\ pc' = next
      BY <1>5, <2>1, <2>2
    <2>7. host'.open = o.host.open
      BY <2>1, <2>4
    <2> QED
      BY <2>2, <2>5, <2>6, <2>7
  <1>6. /\ H(stdinFD, "ttyIn").open[stdinFD] = "ttyIn"
        /\ H(stdoutFD, "ttyOut").open[stdoutFD] = "ttyOut"
        /\ H(stdoutFD, "ttyOut").open[stdinFD] = host.open[stdinFD]
    BY <1>2, <1>3, HandleNumbers
  <1> HIDE DEF H
  <1> QED
    BY <1>4, <1>5, <1>6

\* The steps of testConsoleHandles keep what is live of the console.
LEMMA SmoothConsole ==
    ASSUME TypeOK, Good, SmoothInv, testConsoleHandles \/ testReadCommandLine,
           pc \in {"tty.closeIn", "tty.closeOut", "tty.openIn", "tty.openOut"}
    PROVE  ConsoleLive' /\ pc' \in {"tty.closeOut", "tty.openIn", "tty.openOut", "tty.isInTTY"}
  <1>1. ConsoleLive
    BY DEF SmoothInv
  <1>2. CASE Check("tty.closeIn", close(fdFromHost), {Ok}, "tty.closeOut", "failed")
    <2>1. pc = "tty.closeIn"
      BY <1>2 DEF Check, Call
    <2>2. /\ fdFromHost = stdinFD /\ host.open[stdinFD] = "ttyIn"
          /\ fdToHost = stdoutFD /\ host.open[stdoutFD] = "ttyOut"
      BY <1>1, <2>1 DEF ConsoleLive, InDown, OutDown
    <2>3. Check("tty.closeIn", close(stdinFD), {Ok}, "tty.closeOut", "failed")
      BY <1>2, <2>2
    <2>4. pc' = "tty.closeOut" /\ UNCHANGED console /\ host'.open[stdoutFD] = host.open[stdoutFD]
      BY <2>2, <2>3, SmoothConsoleClose
    <2> QED
      BY <2>2, <2>4 DEF console, ConsoleLive, InDown
  <1>3. CASE Check("tty.closeOut", close(fdToHost), {Ok}, "tty.openIn", "failed")
    <2>1. pc = "tty.closeOut"
      BY <1>3 DEF Check, Call
    <2>2. fdToHost = stdoutFD /\ host.open[stdoutFD] = "ttyOut"
      BY <1>1, <2>1 DEF ConsoleLive, OutDown
    <2>3. Check("tty.closeOut", close(stdoutFD), {Ok}, "tty.openIn", "failed")
      BY <1>3, <2>2
    <2>4. pc' = "tty.openIn"
      BY <2>2, <2>3, SmoothConsoleClose
    <2> QED
      BY <2>4 DEF ConsoleLive, InDown, OutDown
  <1>4. CASE OpenIn("tty.openIn", "tty.openOut")
    <2>1. pc' = "tty.openOut" /\ fdFromHost' = stdinFD /\ host'.open[stdinFD] = "ttyIn"
      BY <1>4, SmoothConsoleOpen
    <2> QED
      BY <2>1 DEF ConsoleLive, OutDown
  <1>5. CASE OpenOut("tty.openOut", "tty.isInTTY", "failed")
    <2>1. pc = "tty.openOut"
      BY <1>5 DEF OpenOut
    <2>2. fdFromHost = stdinFD /\ host.open[stdinFD] = "ttyIn"
      BY <1>1, <2>1 DEF ConsoleLive, InDown
    <2>3. /\ pc' = "tty.isInTTY"
          /\ fdFromHost' = stdinFD /\ host'.open[stdinFD] = "ttyIn"
          /\ fdToHost' = stdoutFD /\ host'.open[stdoutFD] = "ttyOut"
      BY <1>5, <2>2, SmoothConsoleOpen
    <2> QED
      BY <2>3 DEF ConsoleLive
  <1> QED
    BY <1>2, <1>3, <1>4, <1>5
       DEF testConsoleHandles, testReadCommandLine, CloseIn, CloseOut, Check, Call

\* The tests' labels but those at which the console is down or a call failed.
Running ==
    {"cmdline", "tty.isInTTY", "tty.isOutTTY", "features.open", "features.length",
     "features.magic", "features.byte", "features.close", "console.write", "console.write0",
     "console.writeC", "file.create", "file.write", "file.close", "file.writeClosed",
     "file.rename", "file.open", "file.length", "file.read", "file.isTTY", "file.closeRead",
     "file.readClosed", "file.remove", "isError", "heapInfo", "errno.open", "errno.first",
     "errno.second", "tickFrequency", "elapsed", "tempName", "timekeeping", "intervals",
     "exit", "exitExtended"}

\* The tests go on, and the console stays as it is.
LEMMA SmoothRunning ==
    ASSUME TypeOK, LeakInv, Good, SmoothInv, testSemihosting, pc \in Running
    PROVE  /\ pc' \in Running \cup {"tty.closeIn", "passed", "failed"}
           /\ pc' = "failed" => pc \in ClockLabels
           /\ UNCHANGED console /\ ConsoleOpenKept
  <1> USE DEF ClockLabels
  <1>1. UNCHANGED console
    BY ConsoleKept DEF Running
  <1>2. Kept => ConsoleOpenKept
    BY DEF Kept, ConsoleOpenKept
  <1>3. host'.open = host.open => ConsoleOpenKept
    BY DEF ConsoleOpenKept
  <1>4. CASE pc \in {"cmdline", "tty.isInTTY", "tty.isOutTTY", "features.length",
                     "features.magic", "features.byte", "console.write", "console.write0",
                     "console.writeC"}
    BY <1>1, <1>2, <1>4, SmoothFirst DEF Running
  <1>5. CASE pc \in {"file.writeClosed", "file.length", "file.isTTY", "file.readClosed"}
    BY <1>1, <1>2, <1>5, SmoothMiddle DEF Running
  <1>6. CASE pc \in {"isError", "heapInfo", "errno.open", "errno.first", "errno.second",
                     "tickFrequency", "elapsed", "tempName", "timekeeping", "intervals",
                     "exit", "exitExtended"}
    BY <1>1, <1>2, <1>6, SmoothLast DEF Running
  <1>7. CASE pc \in {"features.close", "file.close", "file.closeRead", "file.read"}
    BY <1>1, <1>7, SmoothCloses DEF Running
  <1>8. CASE pc \in {"features.open", "file.create", "file.open"}
    BY <1>1, <1>8, SmoothOpens DEF Running
  <1>9. CASE pc \in {"file.write", "file.rename", "file.remove"}
    BY <1>1, <1>3, <1>9, SmoothFiles DEF Running
  <1> QED
    BY <1>4, <1>5, <1>6, <1>7, <1>8, <1>9 DEF Running

\* The tests' files are as the next call needs them.
LEMMA SmoothFilesRight ==
    ASSUME TypeOK, LeakInv, Good, SmoothInv, testSemihosting
    PROVE  FilesRight'
  <1>1. Flow /\ FilesRight
    BY TestsFlow DEF SmoothInv
  <1>2. MayHoldFile => fd' = fd
    BY TestsKind, KindKeeps
  <1> DEFINE Holds(labels, streams) == pc \in labels => Holding(streams)
             Sees(labels, file, content) == pc \in labels => host.files[file] = content
  <1>3. ASSUME NEW streams, Holding(streams), MayHoldFile, Kept \/ host'.open = host.open
        PROVE  Holding(streams)'
    BY <1>2, <1>3 DEF Holding, Kept
  <1>4. Holds({"features.length", "features.magic", "features.byte", "features.close"},
              {"features"})'
    <2>1. CASE pc = "features.open"
      BY <2>1, SmoothOpens
    <2>2. CASE pc \in {"features.length", "features.magic", "features.byte"}
      BY <1>1, <1>3, <2>2, SmoothFirst DEF FilesRight, MayHoldFile, HoldLabels
    <2> QED
      BY <1>1, <2>1, <2>2 DEF Flow
  <1>5. Holds({"file.write", "file.close"}, {"A"})'
    <2>1. CASE pc = "file.create"
      BY <2>1, SmoothOpens
    <2>2. CASE pc = "file.write"
      BY <1>1, <1>3, <2>2, SmoothFiles DEF FilesRight, MayHoldFile, HoldLabels
    <2> QED
      BY <1>1, <2>1, <2>2 DEF Flow
  <1>6. Holds({"file.length", "file.read"}, {"B"})'
    <2>1. CASE pc = "file.open"
      BY <2>1, SmoothOpens
    <2>2. CASE pc = "file.length"
      BY <1>1, <1>3, <2>2, SmoothMiddle DEF FilesRight, MayHoldFile, HoldLabels
    <2> QED
      BY <1>1, <2>1, <2>2 DEF Flow
  <1>7. Holds({"file.isTTY", "file.closeRead"}, {"B", "Beof"})'
    <2>1. CASE pc = "file.read"
      BY <1>1, <1>2, <2>1, SmoothCloses DEF FilesRight, Holding, MayHoldFile, HoldLabels
    <2>2. CASE pc = "file.isTTY"
      BY <1>1, <1>3, <2>2, SmoothMiddle DEF FilesRight, MayHoldFile, HoldLabels
    <2> QED
      BY <1>1, <2>1, <2>2 DEF Flow
  <1>8. Holds({"file.writeClosed", "file.readClosed"}, {"closed"})'
    <2>1. CASE pc \in {"file.close", "file.closeRead"}
      BY <1>1, <1>2, <2>1, SmoothCloses DEF FilesRight, Holding, MayHoldFile, HoldLabels
    <2> QED
      BY <1>1, <2>1 DEF Flow
  <1>9. Sees({"file.close", "file.writeClosed", "file.rename"}, "A", "alphabet")'
    <2>1. CASE pc = "file.write"
      BY <2>1, SmoothFiles
    <2>2. CASE pc = "file.close"
      BY <1>1, <2>2, SmoothCloses DEF FilesRight
    <2>3. CASE pc = "file.writeClosed"
      BY <1>1, <2>3, SmoothMiddle DEF FilesRight, Kept
    <2> QED
      BY <1>1, <2>1, <2>2, <2>3 DEF Flow
  <1>10. Sees({"file.open", "file.length", "file.read", "file.isTTY", "file.closeRead",
               "file.readClosed", "file.remove"}, "B", "alphabet")'
    <2>1. CASE pc = "file.rename"
      BY <2>1, SmoothFiles
    <2>2. CASE pc = "file.open"
      BY <1>1, <2>2, SmoothOpens DEF FilesRight
    <2>3. CASE pc \in {"file.read", "file.closeRead"}
      BY <1>1, <2>3, SmoothCloses DEF FilesRight
    <2>4. CASE pc \in {"file.length", "file.isTTY", "file.readClosed"}
      BY <1>1, <2>4, SmoothMiddle DEF FilesRight, Kept
    <2> QED
      BY <1>1, <2>1, <2>2, <2>3, <2>4 DEF Flow
  <1>11. Sees({"isError", "heapInfo", "errno.open"}, "B", "absent")'
    <2>1. CASE pc = "file.remove"
      BY <2>1, SmoothFiles
    <2>2. CASE pc \in {"isError", "heapInfo"}
      BY <1>1, <2>2, SmoothLast DEF FilesRight, Kept
    <2> QED
      BY <1>1, <2>1, <2>2 DEF Flow
  <1>12. /\ pc' = "errno.first"  => host'.errno = "ENOENT"
         /\ pc' = "errno.second" => host'.errno = "success"
    BY <1>1, SmoothLast DEF Flow
  <1> QED
    BY <1>4, <1>5, <1>6, <1>7, <1>8, <1>9, <1>10, <1>11, <1>12 DEF FilesRight

\* The tests keep the invariant.
LEMMA SmoothTests ==
    ASSUME TypeOK, LeakInv, CatchInv, SmoothInv, testSemihosting
    PROVE  SmoothInv' /\ OnlyClocksFail
  <1>1. /\ verdict' = "none" /\ atStart' = atStart
        /\ host'.regression = host.regression /\ host'.mood = host.mood
    BY TestsUnreported
  <1>2. Good' => Good
    BY <1>1 DEF Good, IsOpen
  <1> SUFFICES ASSUME Good
               PROVE  ConsoleLive' /\ FilesRight' /\ NothingAborted' /\ OnlyClocksFail
    BY <1>2 DEF SmoothInv, OnlyClocksFail
  <1>3. FilesRight' /\ Flow
    BY SmoothFilesRight, TestsFlow
  <1>4. pc \in Running \cup {"tty.closeIn", "tty.closeOut", "tty.openIn", "tty.openOut"}
    BY <1>3 DEF Flow, Running, SmoothInv, NothingAborted
  <1>5. CASE pc \in Running
    <2>1. /\ pc' \in Running \cup {"tty.closeIn", "passed", "failed"}
          /\ pc' = "failed" => pc \in ClockLabels
          /\ UNCHANGED console /\ ConsoleOpenKept
      BY <1>5, SmoothRunning
    <2>2. /\ fdFromHost = stdinFD /\ host.open[stdinFD] = "ttyIn"
          /\ fdToHost = stdoutFD /\ host.open[stdoutFD] = "ttyOut"
      BY <1>5 DEF SmoothInv, ConsoleLive, Running, InDown, OutDown
    <2>3. ConsoleLive'
      BY <2>1, <2>2 DEF ConsoleLive, ConsoleOpenKept, console
    <2> QED
      BY <1>1, <1>3, <2>1, <2>3 DEF NothingAborted, OnlyClocksFail, Running
  <1>6. CASE pc \in {"tty.closeIn", "tty.closeOut", "tty.openIn", "tty.openOut"}
    <2>1. testConsoleHandles \/ testReadCommandLine
      BY <1>6 DEF testSemihosting, testSemihostingFeatures, testConsoleWrite, testFileIO,
                  writeFileA, readFileB, testIsError, testHeapInfo, testErrno, testTiming,
                  testTempName, testTimekeeping, testIntervals, testExits, CloseFile, OpenAs,
                  Loop, Check, Call
    <2>2. ConsoleLive' /\ pc' \in {"tty.closeOut", "tty.openIn", "tty.openOut", "tty.isInTTY"}
      BY <1>6, <2>1, SmoothConsole
    <2> QED
      BY <1>1, <1>3, <2>2 DEF NothingAborted, OnlyClocksFail
  <1> QED
    BY <1>4, <1>5, <1>6

\* So do the opens of the console by main().
LEMMA SmoothOpening ==
    ASSUME TypeOK, CatchInv, SmoothInv, mainOpenConsole
    PROVE  SmoothInv' /\ OnlyClocksFail
  <1>1. /\ verdict' = verdict /\ atStart' = atStart
        /\ pc \in {"main.openIn", "main.openOut"}
    BY DEF mainOpenConsole, OpenIn, OpenOut, run
  <1>2. host'.regression = host.regression /\ host'.mood = host.mood
    BY MainKind, KindKeeps
  <1>3. verdict = "none"
    BY <1>1 DEF CatchInv, Reported
  <1>4. Good' => Good
    BY <1>1, <1>2 DEF Good, IsOpen
  <1> SUFFICES ASSUME Good
               PROVE  ConsoleLive' /\ FilesRight' /\ NothingAborted' /\ OnlyClocksFail
    BY <1>4 DEF SmoothInv, OnlyClocksFail
  <1>5. CASE OpenIn("main.openIn", "main.openOut")
    <2>1. pc' = "main.openOut" /\ fdFromHost' = stdinFD /\ host'.open[stdinFD] = "ttyIn"
      BY <1>5, SmoothConsoleOpen
    <2> QED
      BY <1>1, <1>3, <2>1 DEF ConsoleLive, OutDown, FilesRight, NothingAborted, OnlyClocksFail
  <1>6. CASE OpenOut("main.openOut", "cmdline", "returned")
    <2>1. fdFromHost = stdinFD /\ host.open[stdinFD] = "ttyIn"
      BY <1>6 DEF OpenOut, SmoothInv, ConsoleLive, InDown
    <2>2. /\ pc' = "cmdline"
          /\ fdFromHost' = stdinFD /\ host'.open[stdinFD] = "ttyIn"
          /\ fdToHost' = stdoutFD /\ host'.open[stdoutFD] = "ttyOut"
      BY <1>6, <2>1, SmoothConsoleOpen
    <2> QED
      BY <1>1, <1>3, <2>2 DEF ConsoleLive, FilesRight, NothingAborted, OnlyClocksFail
  <1> QED
    BY <1>5, <1>6 DEF mainOpenConsole

\* So does the report.
LEMMA SmoothReport ==
    ASSUME TypeOK, SmoothInv, mainReport
    PROVE  SmoothInv' /\ OnlyClocksFail
  <1>1. /\ Quiet(host, host') /\ pc' = "main.closeIn" /\ UNCHANGED <<console, atStart>>
        /\ pc \in {"passed", "failed"}
        /\ verdict' = IF pc = "passed" THEN "success" ELSE "failed"
    BY ReportEffect DEF mainReport
  <1>2. host'.open = host.open
    BY DEF mainReport, Logged, TypeOK, HostState
  <1>3. Good' => Good
    BY <1>1 DEF Good, IsOpen, Quiet
  <1> SUFFICES ASSUME Good
               PROVE  ConsoleLive' /\ FilesRight' /\ NothingAborted' /\ OnlyClocksFail
    BY <1>3 DEF SmoothInv, OnlyClocksFail
  <1>4. ConsoleLive'
    BY <1>1, <1>2 DEF SmoothInv, ConsoleLive, console, InDown, OutDown
  <1>5. FilesRight' /\ NothingAborted' /\ OnlyClocksFail
    BY <1>1 DEF SmoothInv, FilesRight, NothingAborted, OnlyClocksFail
  <1> QED
    BY <1>4, <1>5

\* So do the closes of the console by main().
LEMMA SmoothClosing ==
    ASSUME TypeOK, SmoothInv, mainCloseConsole
    PROVE  SmoothInv' /\ OnlyClocksFail
  <1>1. /\ verdict' = verdict /\ atStart' = atStart
        /\ pc' \in {"main.closeOut", "halted", "returned"}
    BY DEF mainCloseConsole, CloseIn, CloseOut, Check, Call, run
  <1>2. host'.regression = host.regression /\ host'.mood = host.mood
    BY MainKind, KindKeeps
  <1>3. Good' => Good
    BY <1>1, <1>2 DEF Good, IsOpen
  <1> SUFFICES ASSUME Good
               PROVE  ConsoleLive' /\ FilesRight' /\ NothingAborted' /\ OnlyClocksFail
    BY <1>3 DEF SmoothInv, OnlyClocksFail
  <1>4. FilesRight' /\ NothingAborted'
    BY <1>1 DEF SmoothInv, FilesRight, NothingAborted
  <1>5. ConsoleLive' /\ OnlyClocksFail
    <2>1. CASE Check("main.closeIn", close(fdFromHost), {Ok}, "main.closeOut", "returned")
      <3>1. pc = "main.closeIn"
        BY <2>1 DEF Check, Call
      <3>2. /\ fdFromHost = stdinFD /\ host.open[stdinFD] = "ttyIn"
            /\ fdToHost = stdoutFD /\ host.open[stdoutFD] = "ttyOut"
        BY <3>1 DEF SmoothInv, ConsoleLive, InDown, OutDown
      <3>3. Check("main.closeIn", close(stdinFD), {Ok}, "main.closeOut", "returned")
        BY <2>1, <3>2
      <3>4. /\ pc' = "main.closeOut" /\ UNCHANGED console
            /\ host'.open[stdoutFD] = host.open[stdoutFD]
        BY <3>2, <3>3, SmoothConsoleClose
      <3> QED
        BY <3>2, <3>4 DEF console, ConsoleLive, InDown, OnlyClocksFail
    <2>2. CASE Check("main.closeOut", close(fdToHost), {Ok}, "halted", "returned")
      <3>1. pc = "main.closeOut"
        BY <2>2 DEF Check, Call
      <3>2. fdToHost = stdoutFD /\ host.open[stdoutFD] = "ttyOut"
        BY <3>1 DEF SmoothInv, ConsoleLive, OutDown
      <3>3. Check("main.closeOut", close(stdoutFD), {Ok}, "halted", "returned")
        BY <2>2, <3>2
      <3>4. pc' = "halted"
        BY <3>2, <3>3, SmoothConsoleClose
      <3> QED
        BY <3>4 DEF ConsoleLive, InDown, OutDown, OnlyClocksFail
    <2> QED
      BY <2>1, <2>2 DEF mainCloseConsole, CloseIn, CloseOut
  <1> QED
    BY <1>4, <1>5

\* Every step keeps the invariant.
LEMMA SmoothStep ==
    TypeOK /\ LeakInv /\ CatchInv /\ SmoothInv /\ [Next]_vars => SmoothInv' /\ OnlyClocksFail
  <1> SUFFICES ASSUME TypeOK, LeakInv, CatchInv, SmoothInv, [Next]_vars
               PROVE  SmoothInv' /\ OnlyClocksFail
    OBVIOUS
  <1>1. CASE testSemihosting
    BY <1>1, SmoothTests
  <1>2. CASE mainOpenConsole
    BY <1>2, SmoothOpening
  <1>3. CASE mainReport
    BY <1>3, SmoothReport
  <1>4. CASE mainCloseConsole
    BY <1>4, SmoothClosing
  <1>5. CASE Reset
    <2>1. pc' = "main.openIn"
      BY <1>5 DEF Reset
    <2> QED
      BY <2>1 DEF SmoothInv, ConsoleLive, InDown, OutDown, FilesRight, NothingAborted,
                  OnlyClocksFail
  <1>6. CASE Parked \/ UNCHANGED vars
    BY <1>6 DEF Parked, vars, SmoothInv, Good, IsOpen, ConsoleLive, FilesRight, Holding,
                NothingAborted, OnlyClocksFail
  <1> QED
    BY <1>1, <1>2, <1>3, <1>4, <1>5, <1>6 DEF Next, main

\* The step of the property.
LEMMA AlarmStep ==
    ASSUME OnlyClocksFail
    PROVE  host.mood = "steady" /\ host.regression = "none"
           /\ pc' # pc /\ pc' \in {"failed", "returned"} =>
              \/ pc \in {"timekeeping", "intervals"}
              \/ \A n \in FileHandles : IsOpen(atStart, n)
  BY DEF OnlyClocksFail, Good, ClockLabels

\* On a correct host whose calls do not fail, nothing but the two clock tests
\* fails a run, unless earlier runs left it no handle to issue
\* (semihosting.cxx:656-672, 689-715).
THEOREM GoodHostPasses == Spec => NoFalseAlarm
  <1>1. Init => SmoothInv
    BY DEF Init, SmoothInv, ConsoleLive, InDown, OutDown, FilesRight, NothingAborted
  <1>2. TypeOK /\ LeakInv /\ CatchInv /\ SmoothInv /\ [Next]_vars =>
          [host.mood = "steady" /\ host.regression = "none"
             /\ pc' # pc /\ pc' \in {"failed", "returned"} =>
                \/ pc \in {"timekeeping", "intervals"}
                \/ \A n \in FileHandles : IsOpen(atStart, n)]_vars
    BY SmoothStep, AlarmStep
  <1> QED
    BY <1>1, <1>2, SmoothStep, CatchHolds, PTL DEF Spec, NoFalseAlarm
=============================================================================
