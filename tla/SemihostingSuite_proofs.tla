----------------------- MODULE SemihostingSuite_proofs -----------------------
(***************************************************************************)
(* Theorems about the semihosting test firmware, for every set of file     *)
(* handles, every set of regressions, a reliable or an unreliable host,    *)
(* every loop length and any number of resets.                             *)
(***************************************************************************)
EXTENDS SemihostingSuite, TLAPS

(***************************************************************************)
(* What the host may do to its handles in one call.                        *)
(***************************************************************************)

\* No handle is opened or closed from h to g.
Quiet(h, g) ==
    /\ g \in HostState /\ g.regression = h.regression /\ g.mood = h.mood
    /\ \A n \in Handles : \/ g.open[n] = h.open[n]
                          \/ h.open[n] = "B" /\ g.open[n] = "Beof"

\* At most handle m is closed from h to g, and none opened.
MayClose(h, g, m) ==
    /\ g \in HostState /\ g.regression = h.regression /\ g.mood = h.mood
    /\ \A n \in Handles : \/ g.open[n] = h.open[n]
                          \/ h.open[n] = "B" /\ g.open[n] = "Beof"
                          \/ n = m /\ g.open[n] = "closed"

\* Handle m is opened from h to g, on stream, and no other handle changes.
Opens(h, g, m, stream) ==
    /\ g \in HostState /\ g.regression = h.regression /\ g.mood = h.mood
    /\ m \in Handles
    /\ \/ g.open[m] = stream
       \/ stream = "B" /\ g.open[m] = "Beof"
    /\ \A n \in Handles \ {m} : \/ g.open[n] = h.open[n]
                                \/ h.open[n] = "B" /\ g.open[n] = "Beof"

USE DEF Ok, Short, Wrong, Err, stdinFD, stdoutFD

\* The console's handles are not file handles.
LEMMA HandleNumbers ==
    /\ FileHandles \subseteq Handles
    /\ stdinFD \in Handles /\ stdoutFD \in Handles
    /\ \A n \in FileHandles : n \in Int /\ n > 2
    /\ \A n \in Handles : n \in Int /\ n > 0
  BY HostAssumption DEF Handles

\* A fresh host is a host state.
LEMMA FreshType ==
    ASSUME NEW r \in Regressions \cup {"none"}, NEW m \in Moods
    PROVE  FreshHost(r, m) \in HostState
  BY DEF FreshHost, HostState, Streams, Contents, Errnos

\* Setting the error of a host leaves its handles alone.
LEMMA ErrnoQuiet ==
    ASSUME NEW h \in HostState, NEW e \in Errnos
    PROVE  Quiet(h, [h EXCEPT !.errno = e])
  BY DEF Quiet, HostState

\* A host that does not change has a quiet change.
LEMMA QuietReflexive ==
    ASSUME NEW h \in HostState
    PROVE  Quiet(h, h)
  BY DEF Quiet

\* Console lines after a call do not change what it did to the handles.
LEMMA ThenQuiet ==
    ASSUME NEW h \in HostState, NEW g, NEW k, g \in HostState => Quiet(g, k)
    PROVE  /\ Quiet(h, g) => Quiet(h, k)
           /\ \A m : MayClose(h, g, m) => MayClose(h, k, m)
           /\ \A m, stream : stream # "closed" /\ Opens(h, g, m, stream)
                                => Opens(h, k, m, stream)
  BY DEF Quiet, MayClose, Opens

\* A failure is quiet, whatever the call.
LEMMA FailureQuiet ==
    ASSUME NEW h \in HostState, NEW e \in Errnos
    PROVE  Failure(h, e).ret = Err /\ Quiet(h, Failure(h, e).host)
  BY ErrnoQuiet DEF Failure, Outcome

\* A call that fails for no reason of its own only sets the error number.
LEMMA FlakeQuiet ==
    ASSUME NEW h \in HostState, NEW o \in Flake(h)
    PROVE  o.ret = Err /\ Quiet(h, o.host)
  <1>1. "EIO" \in Errnos
    BY DEF Errnos
  <1> QED
    BY <1>1, FailureQuiet DEF Flake

\* Console lines are quiet.
LEMMA LoggedQuiet ==
    ASSUME NEW h \in HostState, NEW n, NEW g \in Logged(h, n)
    PROVE  Quiet(h, g)
  <1>1. "EIO" \in Errnos /\ "EBADF" \in Errnos
    BY DEF Errnos
  <1>2. g \in {h, [h EXCEPT !.errno = "EIO"], [h EXCEPT !.errno = "EBADF"]}
    BY DEF Logged
  <1> QED
    BY <1>1, <1>2, QuietReflexive, ErrnoQuiet

\* Changing a file leaves the handles alone.
LEMMA FileQuiet ==
    ASSUME NEW h \in HostState, NEW f \in [{"A", "B"} -> Contents]
    PROVE  Quiet(h, [h EXCEPT !.files = f])
  BY DEF Quiet, HostState

\* The calls that neither open nor close a handle are quiet.
LEMMA WriteQuiet ==
    ASSUME NEW h \in HostState, NEW n, NEW o \in WriteFD(h, n)
    PROVE  Quiet(h, o.host)
  <1> DEFINE W(c) == [h EXCEPT !.files["A"] = c]
  <1>1. \A c \in Contents : Quiet(h, W(c))
    <2> SUFFICES ASSUME NEW c \in Contents PROVE Quiet(h, W(c))
      OBVIOUS
    <2>1. [h.files EXCEPT !["A"] = c] \in [{"A", "B"} -> Contents]
      BY DEF HostState
    <2>2. W(c) = [h EXCEPT !.files = [h.files EXCEPT !["A"] = c]]
      BY DEF HostState
    <2> QED
      BY <2>1, <2>2, FileQuiet
  <1>2. {"empty", "part", "alphabet", "garbled"} \subseteq Contents
    BY DEF Contents
  <1>3. "EBADF" \in Errnos
    BY DEF Errnos
  <1>4. CASE IsConsole(h, n)
    BY <1>4, FlakeQuiet, QuietReflexive DEF WriteFD, Outcome
  <1>5. CASE ~IsConsole(h, n) /\ IsOpen(h, n) /\ h.open[n] = "A"
    BY <1>5, <1>1, <1>2, FlakeQuiet DEF WriteFD, Outcome
  <1>6. CASE ~IsConsole(h, n) /\ ~(IsOpen(h, n) /\ h.open[n] = "A")
    BY <1>6, <1>3, FailureQuiet DEF WriteFD
  <1> QED
    BY <1>4, <1>5, <1>6

\* SYS_READ moves a file to its end at most.
LEMMA ReadQuiet ==
    ASSUME NEW h \in HostState, NEW n, NEW o \in ReadFD(h, n)
    PROVE  Quiet(h, o.host)
  <1> DEFINE E == [h EXCEPT !.open[n] = "Beof"]
  <1>1. ASSUME n \in Handles, h.open[n] \in {"B", "Beof"} PROVE Quiet(h, E)
    BY <1>1 DEF Quiet, HostState, Streams
  <1>2. "EBADF" \in Errnos
    BY DEF Errnos
  <1>3. CASE ~IsOpen(h, n) \/ h.open[n] \notin {"features", "B", "Beof"}
    BY <1>3, <1>2, FailureQuiet DEF ReadFD
  <1>4. CASE IsOpen(h, n) /\ h.open[n] = "features"
    BY <1>4, FlakeQuiet, QuietReflexive DEF ReadFD, Outcome
  <1>5. CASE IsOpen(h, n) /\ h.open[n] \in {"B", "Beof"}
    <2>1. o \in Flake(h) \/ o.host = E
      BY <1>5 DEF ReadFD, Outcome
    <2> QED
      BY <2>1, <1>1, <1>5, FlakeQuiet DEF IsOpen
  <1> QED
    BY <1>3, <1>4, <1>5

\* SYS_FLEN changes nothing but the error number.
LEMMA LengthQuiet ==
    ASSUME NEW h \in HostState, NEW n, NEW o \in FileLength(h, n)
    PROVE  Quiet(h, o.host)
  <1>1. "EBADF" \in Errnos
    BY DEF Errnos
  <1> QED
    BY <1>1, FailureQuiet, FlakeQuiet, QuietReflexive DEF FileLength, Outcome

\* SYS_ISTTY changes nothing but the error number.
LEMMA IsTTYQuiet ==
    ASSUME NEW h \in HostState, NEW n, NEW o \in IsTTY(h, n)
    PROVE  Quiet(h, o.host)
  <1>1. "EBADF" \in Errnos
    BY DEF Errnos
  <1> QED
    BY <1>1, FailureQuiet, FlakeQuiet, QuietReflexive DEF IsTTY, Outcome

\* SYS_RENAME changes the files, and no handle.
LEMMA RenameQuiet ==
    ASSUME NEW h \in HostState, NEW o \in RenameAB(h)
    PROVE  Quiet(h, o.host)
  <1> DEFINE C == [h EXCEPT !.files["B"] = h.files["A"]]
             M == [h EXCEPT !.files["B"] = h.files["A"], !.files["A"] = "absent"]
  <1>1. Quiet(h, C)
    BY DEF Quiet, HostState
  <1>2. Quiet(h, M)
    BY DEF Quiet, HostState, Contents
  <1>3. "ENOENT" \in Errnos
    BY DEF Errnos
  <1>4. CASE h.files["A"] = "absent"
    BY <1>4, <1>3, FailureQuiet DEF RenameAB
  <1>5. CASE h.files["A"] # "absent"
    <2>1. o \in Flake(h) \/ o.host \in {h, C, M}
      BY <1>5 DEF RenameAB, Outcome
    <2> QED
      BY <2>1, <1>1, <1>2, FlakeQuiet, QuietReflexive
  <1> QED
    BY <1>4, <1>5

\* SYS_REMOVE changes the files, and no handle.
LEMMA RemoveQuiet ==
    ASSUME NEW h \in HostState, NEW o \in RemoveB(h)
    PROVE  Quiet(h, o.host)
  <1> DEFINE R == [h EXCEPT !.files["B"] = "absent"]
  <1>1. Quiet(h, R)
    BY DEF Quiet, HostState, Contents
  <1>2. "ENOENT" \in Errnos
    BY DEF Errnos
  <1>3. CASE h.files["B"] = "absent"
    BY <1>3, <1>2, FailureQuiet DEF RemoveB
  <1>4. CASE h.files["B"] # "absent"
    <2>1. o \in Flake(h) \/ o.host \in {h, R}
      BY <1>4 DEF RemoveB, Outcome
    <2> QED
      BY <2>1, <1>1, FlakeQuiet, QuietReflexive
  <1> QED
    BY <1>3, <1>4

\* SYS_ERRNO changes nothing but the error number.
LEMMA ErrnoReportQuiet ==
    ASSUME NEW h \in HostState, NEW o \in LastErrno(h)
    PROVE  Quiet(h, o.host)
  <1>1. "success" \in Errnos
    BY DEF Errnos
  <1>2. o.host \in {h, [h EXCEPT !.errno = "success"]}
    BY DEF LastErrno, Outcome
  <1> QED
    BY <1>1, <1>2, ErrnoQuiet, QuietReflexive

\* A call that only asks leaves the handles alone.
LEMMA QueryQuiet ==
    ASSUME NEW h \in HostState, NEW r, NEW o \in Query(h, r)
    PROVE  Quiet(h, o.host)
  BY FlakeQuiet, QuietReflexive DEF Query, Outcome

\* SYS_WRITE0 and SYS_WRITEC use no handle.
LEMMA DebugQuiet ==
    ASSUME NEW h \in HostState, NEW o \in WriteDebug(h)
    PROVE  Quiet(h, o.host)
  BY FlakeQuiet, QuietReflexive DEF WriteDebug, Outcome

\* The clock tests and the exits use no handle.
LEMMA ClockQuiet ==
    ASSUME NEW h \in HostState, NEW o \in ClockTest(h) \cup ShowExit(h)
    PROVE  Quiet(h, o.host)
  BY FlakeQuiet, QuietReflexive DEF ClockTest, ShowExit, Outcome

\* The calls the probe does not implement change at most the error number.
LEMMA UnimplementedQuiet ==
    ASSUME NEW h \in HostState, NEW o \in TickFrequency(h) \cup Elapsed(h)
    PROVE  Quiet(h, o.host)
  <1>1. "EIO" \in Errnos
    BY DEF Errnos
  <1>2. \/ o.host = h \/ o.host = [h EXCEPT !.errno = "EIO"]
    BY DEF TickFrequency, Elapsed, Failure, Outcome
  <1> QED
    BY <1>1, <1>2, ErrnoQuiet, QuietReflexive

\* SYS_ISERROR leaves the handles alone.
LEMMA IsErrorQuiet ==
    ASSUME NEW h \in HostState, NEW code, NEW o \in IsError(h, code)
    PROVE  Quiet(h, o.host)
  BY FlakeQuiet, QuietReflexive DEF IsError, Outcome

\* SYS_CLOSE closes no handle but its own, and when it succeeds on a host that
\* closes properly its own was open and is closed.
LEMMA CloseCloses ==
    ASSUME NEW h \in HostState, NEW n, NEW o \in CloseFD(h, n)
    PROVE  /\ MayClose(h, o.host, n)
           /\ o.ret \in {Ok, Err}
           /\ o.ret = Ok => n \in Handles /\ h.open[n] # "closed"
           /\ o.ret = Ok /\ h.regression \notin {"close", "closeRead"}
                 => o.host.open[n] = "closed"
  <1> DEFINE C == [h EXCEPT !.open[n] = "closed"]
  <1>1. \A g : Quiet(h, g) /\ g.open = h.open => MayClose(h, g, n)
    BY DEF Quiet, MayClose
  <1>2. "EBADF" \in Errnos /\ "EIO" \in Errnos
    BY DEF Errnos
  <1>3. \A e \in Errnos : /\ Failure(h, e).ret = Err
                        /\ MayClose(h, Failure(h, e).host, n)
    BY DEF Failure, Outcome, MayClose, HostState
  <1>4. CASE ~IsOpen(h, n)
    BY <1>4, <1>3, <1>2 DEF CloseFD
  <1>5. CASE IsOpen(h, n) /\ o \in Flake(h)
    BY <1>5, <1>3, <1>2 DEF Flake
  <1>6. CASE IsOpen(h, n) /\ o \notin Flake(h) /\ LeavesOpen(h, n)
    <2>1. o = Outcome(Ok, h)
      BY <1>6 DEF CloseFD
    <2>2. h.regression \in {"close", "closeRead"}
      BY <1>6 DEF LeavesOpen
    <2> QED
      BY <2>1, <2>2, <1>6 DEF Outcome, MayClose, IsOpen
  <1>7. CASE IsOpen(h, n) /\ o \notin Flake(h) /\ ~LeavesOpen(h, n)
    <2>1. o = Outcome(Ok, C)
      BY <1>7 DEF CloseFD
    <2>2. n \in Handles
      BY <1>7 DEF IsOpen
    <2>3. MayClose(h, C, n) /\ C.open[n] = "closed"
      BY <2>2 DEF MayClose, HostState, Streams
    <2> QED
      BY <2>1, <2>3, <1>7 DEF Outcome, IsOpen
  <1> QED
    BY <1>4, <1>5, <1>6, <1>7

\* SYS_OPEN of ":tt".
LEMMA OpenTTYOpens ==
    ASSUME NEW h \in HostState, NEW stream \in {"ttyIn", "ttyOut"},
           NEW o \in OpenTTY(h, stream)
    PROVE  \/ /\ o.ret = TTYNumber(h, stream)
              /\ Opens(h, o.host, o.ret, stream)
           \/ o.ret = Err /\ Quiet(h, o.host)
  <1> DEFINE n == TTYNumber(h, stream)
             H == [h EXCEPT !.open[n] = stream]
  <1>1. n \in Handles
    BY HandleNumbers DEF TTYNumber
  <1>2. Opens(h, H, n, stream)
    BY <1>1 DEF Opens, HostState, Streams
  <1>3. o \in Flake(h) \/ o = Outcome(n, H)
    BY DEF OpenTTY
  <1> QED
    BY <1>2, <1>3, FlakeQuiet DEF Outcome

\* SYS_OPEN of a file.
LEMMA OpenFileOpens ==
    ASSUME NEW h \in HostState, NEW stream \in {"A", "B", "features"},
           NEW o \in OpenFile(h, stream)
    PROVE  \/ /\ o.ret \in FileHandles /\ h.open[o.ret] = "closed"
              /\ Opens(h, o.host, o.ret, stream)
           \/ o.ret = Err /\ Quiet(h, o.host)
  <1> DEFINE H(n) == [h EXCEPT !.open[n] = stream,
                               !.files["A"] = IF stream = "A" THEN "empty" ELSE @]
  <1>1. \A n \in FileHandles : Opens(h, H(n), n, stream)
    BY HandleNumbers DEF Opens, HostState, Streams, Contents
  <1>2. "ENOENT" \in Errnos /\ "EMFILE" \in Errnos
    BY DEF Errnos
  <1>3. \/ o \in Flake(h)
        \/ o \in {Failure(h, "ENOENT"), Failure(h, "EMFILE")}
        \/ \E n \in FreeHandles(h) : o = Outcome(n, H(n))
    BY DEF OpenFile
  <1>4. CASE \E n \in FreeHandles(h) : o = Outcome(n, H(n))
    <2>1. PICK n \in FreeHandles(h) : o = Outcome(n, H(n))
      BY <1>4
    <2>2. n \in FileHandles /\ h.open[n] = "closed"
      BY DEF FreeHandles
    <2>3. o.ret = n /\ o.host = H(n)
      BY <2>1 DEF Outcome
    <2> QED
      BY <2>2, <2>3, <1>1
  <1> QED
    BY <1>2, <1>3, <1>4, FailureQuiet, FlakeQuiet

-----------------------------------------------------------------------------
(***************************************************************************)
(* What the host makes of the wrappers' requests.                          *)
(***************************************************************************)

\* A request that is neither SYS_OPEN nor SYS_CLOSE.
Plain(request) == request.syscall \notin {1, 2}

\* SYS_TMPNAM leaves the handles alone.
LEMMA TempNameQuiet ==
    ASSUME NEW h \in HostState, NEW id, NEW o \in TempName(h, id)
    PROVE  Quiet(h, o.host)
  BY QueryQuiet, QuietReflexive DEF TempName, Outcome

\* A call other than SYS_OPEN and SYS_CLOSE is quiet, whatever its arguments.
LEMMA ServeQuiet ==
    ASSUME NEW h \in HostState, NEW n, NEW b, NEW o \in Serve(h, n, b)
    PROVE  Quiet(h, o.host)
  <1>1. "EIO" \in Errnos
    BY DEF Errnos
  <1>2. \A p \in Refused(h) : Quiet(h, p.host)
    BY <1>1, FailureQuiet DEF Refused
  <1>3. \/ o \in WriteDebug(h) \/ o \in Refused(h)
        \/ o \in WriteFD(h, b[1]) \/ o \in ReadFD(h, b[1])
        \/ o \in IsError(h, b[1]) \/ o \in IsTTY(h, b[1]) \/ o \in FileLength(h, b[1])
        \/ o \in TempName(h, b[2])
        \/ o \in RemoveB(h) \/ o \in RenameAB(h) \/ o \in LastErrno(h)
        \/ o \in Query(h, "cmdline") \/ o \in Query(h, "heapInfo")
        \/ o \in ClockTest(h) \cup ShowExit(h)
        \/ o \in TickFrequency(h) \cup Elapsed(h)
    BY DEF Serve
  <1> QED
    BY <1>2, <1>3, DebugQuiet, WriteQuiet, ReadQuiet, IsErrorQuiet, IsTTYQuiet,
       LengthQuiet, TempNameQuiet, RemoveQuiet, RenameQuiet, ErrnoReportQuiet, QueryQuiet,
       ClockQuiet, UnimplementedQuiet

\* So is the answer to any request but those two.
LEMMA AnswerQuiet ==
    ASSUME NEW h \in HostState, NEW request, Plain(request), NEW o \in Answer(h, request)
    PROVE  Quiet(h, o.host)
  <1>1. o \in Serve(h, request.syscall, request.params)
    BY DEF Answer, Plain
  <1> QED
    BY <1>1, ServeQuiet

\* SYS_CLOSE gets the handle it is given.
LEMMA AnswerClose ==
    ASSUME NEW h, NEW n
    PROVE  Answer(h, close(n)) = CloseFD(h, n)
  BY DEF Answer, close, semihostingSyscall, Syscall

\* SYS_OPEN gets the name, the mode and the name's length.
LEMMA AnswerOpen ==
    ASSUME NEW h, NEW path, NEW mode
    PROVE  Answer(h, open(path, mode)) = Open(h, path.data, mode, path.length)
  BY DEF Answer, open, semihostingSyscall, Syscall

\* The two opens of the console.
LEMMA AnswerOpenTTY ==
    ASSUME NEW h
    PROVE  /\ Answer(h, open(tty, OpenMode.read)) = OpenTTY(h, "ttyIn")
           /\ Answer(h, open(tty, OpenMode.write)) = OpenTTY(h, "ttyOut")
  <1>1. /\ tty.data = ":tt" /\ tty.length = 3
        /\ OpenMode.read = 0 /\ OpenMode.write = 4
    BY DEF tty, View, OpenMode
  <1> QED
    BY <1>1, AnswerOpen DEF Open

\* The opens of files.
LEMMA AnswerOpenFile ==
    ASSUME NEW h
    PROVE  /\ Answer(h, open(featuresFile, OpenMode.read)) = OpenFile(h, "features")
           /\ Answer(h, open(testFileA, OpenMode.writeBinary)) = OpenFile(h, "A")
           /\ Answer(h, open(testFileB, OpenMode.readBinary)) = OpenFile(h, "B")
  <1>1. /\ featuresFile.data = ":semihosting-features" /\ featuresFile.length = 21
        /\ testFileA.data = "semihosting-test.a" /\ testFileA.length = 18
        /\ testFileB.data = "semihosting-test.b" /\ testFileB.length = 18
        /\ OpenMode.read = 0 /\ OpenMode.writeBinary = 5 /\ OpenMode.readBinary = 1
    BY DEF featuresFile, testFileA, testFileB, View, OpenMode
  <1> QED
    BY <1>1, AnswerOpen DEF Open

\* The other wrappers' requests are plain.
LEMMA PlainRequests ==
    /\ \A x : /\ Plain(writeChar(x)) /\ Plain(writeNul(x)) /\ Plain(isError(x))
            /\ Plain(isTTY(x)) /\ Plain(fileLength(x)) /\ Plain(remove(x))
            /\ Plain(readCommandLine(x)) /\ Plain(heapInfo(x)) /\ Plain(exit(x))
            /\ Plain(elapsedTime(x))
    /\ \A x, y : /\ Plain(write(x, y)) /\ Plain(read(x, y)) /\ Plain(tempName(x, y))
               /\ Plain(rename(x, y)) /\ Plain(exitExtended(x, y))
    /\ Plain(clock) /\ Plain(time) /\ Plain(lastErrno) /\ Plain(tickFrequency)
  BY DEF Plain, semihostingSyscall, Syscall, writeChar, writeNul, isError, isTTY, fileLength,
         remove, readCommandLine, heapInfo, exit, elapsedTime, write, read, tempName, rename,
         exitExtended, clock, time, lastErrno, tickFrequency

-----------------------------------------------------------------------------
(***************************************************************************)
(* Every step of the firmware is of one of the following kinds.            *)
(***************************************************************************)

\* The labels between which the console's shutdown happens.
Ending == {"main.closeIn", "main.closeOut", "halted"}

\* No handle is opened or closed.
QuietStep ==
    /\ Quiet(host, host')
    /\ pc' \notin Ending
    /\ MayHoldFile => MayHoldFile'
    /\ UNCHANGED <<fd, console, run>>

\* A test opens a file and keeps its handle, or fails to.
FileOpenStep ==
    /\ ~MayHoldFile /\ pc' \notin Ending
    /\ \/ /\ MayHoldFile'
          /\ fd' \in FileHandles
          /\ \E stream \in {"A", "B", "features"} : Opens(host, host', fd', stream)
       \/ Quiet(host, host')
    /\ UNCHANGED <<console, run>>

\* A test closes its file, or fails to and ends.
FileCloseStep ==
    /\ MayHoldFile /\ pc' \notin Ending
    /\ MayClose(host, host', fd)
    /\ \/ MayHoldFile'
       \/ host.regression \notin {"close", "closeRead"} =>
             fd \in Handles /\ host'.open[fd] = "closed"
    /\ UNCHANGED <<fd, console, run>>

\* An end of the console is closed, or its close fails.
ConsoleCloseStep ==
    /\ MayClose(host, host', fdFromHost) \/ MayClose(host, host', fdToHost)
    /\ MayHoldFile => MayHoldFile'
    /\ pc' = "main.closeOut" => pc = "main.closeIn"
    /\ pc' = "halted" => /\ pc = "main.closeOut" /\ fdToHost \in Handles
                         /\ host.open[fdToHost] # "closed"
    /\ pc' # "main.closeIn"
    /\ UNCHANGED <<fd, console, run>>

\* An end of the console is opened, or its open fails.
ConsoleOpenStep ==
    /\ ~MayHoldFile /\ pc' \notin Ending
    /\ \/ /\ UNCHANGED fdToHost
          /\ Opens(host, host', TTYNumber(host, "ttyIn"), "ttyIn")
       \/ /\ fdToHost' = TTYNumber(host, "ttyOut")
          /\ Opens(host, host', fdToHost', "ttyOut")
       \/ /\ fdToHost' \in {fdToHost, -1}
          /\ Quiet(host, host')
    /\ UNCHANGED <<fd, run>>

StepKind ==
    \/ QuietStep \/ FileOpenStep \/ FileCloseStep
    \/ ConsoleCloseStep \/ ConsoleOpenStep

\* What a system call and the lines after it do, given what the call does.
LEMMA CallEffect ==
    ASSUME NEW at \in Labels, NEW outcomes, NEW good,
           NEW next \in Labels, NEW bad \in Labels, TypeOK,
           Call(at, outcomes, good, next, bad)
    PROVE  /\ pc = at /\ pc' \in Labels
           /\ UNCHANGED <<console, run>>
           /\ \E o \in outcomes :
                /\ pc' = IF o.ret \in good THEN next ELSE bad
                /\ o.host \in HostState => Quiet(o.host, host')
  <1>1. PICK o \in outcomes :
           /\ pc' = IF o.ret \in good THEN next ELSE bad
           /\ host' \in Lines(o, fdToHost, at, pc')
    BY DEF Call
  <1>2. o.host \in HostState => Quiet(o.host, host')
    BY <1>1, LoggedQuiet, QuietReflexive DEF Lines
  <1>3. pc = at /\ UNCHANGED <<console, run>>
    BY DEF Call
  <1>4. pc' \in Labels
    BY <1>1
  <1> QED
    BY <1>1, <1>2, <1>3, <1>4

\* A host state follows a host state by each kind of change.
LEMMA ChangeType ==
    ASSUME NEW h, NEW g,
           \/ Quiet(h, g) \/ (\E m : MayClose(h, g, m))
           \/ (\E m, stream : Opens(h, g, m, stream))
    PROVE  g \in HostState
  BY DEF Quiet, MayClose, Opens

\* A plain request is a quiet step.
LEMMA CheckQuiet ==
    ASSUME TypeOK,
           NEW at \in Labels \ {"console.writeC", "isError"},
           NEW request, Plain(request), NEW good,
           NEW next \in Labels \ Ending, NEW bad \in Labels \ Ending,
           Check(at, request, good, next, bad)
    PROVE  /\ pc = at /\ pc' \in {next, bad}
           /\ TypeOK' /\ Quiet(host, host')
           /\ UNCHANGED <<fd, console, run>>
  <1> DEFINE outcomes == Answer(host, request)
  <1>1. Call(at, outcomes, good, next, bad) /\ UNCHANGED <<fd, index>>
    BY DEF Check
  <1>2. host \in HostState /\ \A o \in outcomes : Quiet(host, o.host)
    BY AnswerQuiet DEF TypeOK
  <1> HIDE DEF outcomes
  <1>3. PICK o \in outcomes : /\ pc' = IF o.ret \in good THEN next ELSE bad
                              /\ o.host \in HostState => Quiet(o.host, host')
    <2>1. at \in Labels /\ next \in Labels /\ bad \in Labels
      OBVIOUS
    <2>2. Call(at, outcomes, good, next, bad)
      BY <1>1
    <2> HIDE <1>1
    <2> QED
      BY <2>1, <2>2, CallEffect
  <1>4. Quiet(host, host') /\ host' \in HostState
    BY <1>2, <1>3, ThenQuiet, ChangeType
  <1>5. pc = at /\ UNCHANGED <<console, run>>
    BY <1>1, CallEffect
  <1>6. TypeOK'
    BY <1>1, <1>3, <1>4, <1>5 DEF TypeOK, console, run
  <1> QED
    BY <1>1, <1>3, <1>4, <1>5, <1>6

\* A plain request with the check of its answer is an ordinary step.
LEMMA CheckKind ==
    ASSUME TypeOK,
           NEW at \in Labels \ {"console.writeC", "isError"},
           NEW request, Plain(request), NEW good,
           NEW next \in Labels \ Ending, NEW bad \in Labels \ Ending,
           at \in HoldLabels => next \in HoldLabels /\ bad \in HoldLabels,
           Check(at, request, good, next, bad)
    PROVE  TypeOK' /\ StepKind
  <1>1. /\ pc = at /\ pc' \in {next, bad}
        /\ TypeOK' /\ Quiet(host, host')
        /\ UNCHANGED <<fd, console, run>>
    BY CheckQuiet
  <1> QED
    BY <1>1 DEF StepKind, QuietStep, MayHoldFile

\* So is a plain request made in a loop.
LEMMA LoopKind ==
    ASSUME TypeOK,
           NEW at, NEW n, <<at, n>> \in {<<"console.writeC", AlphabetLength>>,
                                        <<"isError", CodeCount>>},
           NEW request, Plain(request), NEW good,
           NEW next \in (Labels \ Ending) \ {at},
           Loop(at, request, good, n, next)
    PROVE  TypeOK' /\ StepKind
  <1> DEFINE to == IF index + 1 < n THEN at ELSE next
             outcomes == Answer(host, request)
  <1>1. /\ Call(at, outcomes, good, to, "failed")
        /\ index' = IF pc' = at THEN index + 1 ELSE 0
        /\ fd' = fd
    BY DEF Loop
  <1>2. /\ at \in Labels /\ to \in Labels /\ "failed" \in Labels
        /\ at \notin Ending /\ "failed" \notin Ending /\ at # "failed"
        /\ at \notin HoldLabels
    BY DEF Labels, Ending, HoldLabels
  <1>3. Call(at, outcomes, good, to, "failed")
    BY <1>1
  <1> HIDE DEF to
  <1>4. PICK o \in outcomes : /\ pc' = IF o.ret \in good THEN to ELSE "failed"
                              /\ o.host \in HostState => Quiet(o.host, host')
    BY <1>2, <1>3, CallEffect
  <1>5. pc = at /\ UNCHANGED <<console, run>>
    BY <1>2, <1>3, CallEffect
  <1>6. Quiet(host, host') /\ host' \in HostState
    <2>1. host \in HostState /\ \A p \in outcomes : Quiet(host, p.host)
      BY AnswerQuiet DEF TypeOK
    <2> QED
      BY <2>1, <1>4, ThenQuiet, ChangeType
  <1>7. pc' \in {at, next, "failed"} /\ (pc' = at => index + 1 < n)
    BY <1>2, <1>4 DEF to
  <1>8. index \in Nat
    BY DEF TypeOK
  <1>9. index' \in Nat /\ (index' # 0 => pc' = at /\ index' < n)
    BY <1>1, <1>7, <1>8
  <1>10. \/ index' = 0
         \/ pc' = "console.writeC" /\ index' < AlphabetLength
         \/ pc' = "isError" /\ index' < CodeCount
    BY <1>9
  <1>11. TypeOK'
    BY <1>1, <1>2, <1>5, <1>6, <1>7, <1>9, <1>10 DEF TypeOK, console, run
  <1> QED
    BY <1>1, <1>2, <1>5, <1>6, <1>7, <1>11 DEF StepKind, QuietStep, MayHoldFile

\* SYS_OPEN of a file.
LEMMA OpenAsKind ==
    ASSUME TypeOK,
           NEW at \in (Labels \ HoldLabels) \ {"console.writeC", "isError"},
           NEW path, NEW mode, NEW stream \in {"A", "B", "features"},
           Answer(host, open(path, mode)) = OpenFile(host, stream),
           NEW next \in (HoldLabels \cap Labels) \ Ending,
           OpenAs(at, path, mode, next)
    PROVE  TypeOK' /\ StepKind
  <1>1. PICK o \in OpenFile(host, stream) :
          /\ fd' = o.ret
          /\ \/ /\ o.ret > 0
                /\ pc' = next
                /\ host' \in Logged(o.host, fdToHost)
             \/ /\ o.ret <= 0
                /\ pc' = "failed"
                /\ \E e \in Answer(o.host, lastErrno) : host' \in Logged(e.host, fdToHost)
    BY DEF OpenAs
  <1>2. pc = at /\ UNCHANGED <<console, index, run>>
    BY DEF OpenAs
  <1>3. host \in HostState /\ index = 0
    BY <1>2 DEF TypeOK
  <1>4. "failed" \in Labels /\ "failed" \in HoldLabels /\ "failed" \notin Ending
    BY DEF Labels, HoldLabels, Ending
  <1>5. CASE o.ret \in FileHandles /\ Opens(host, o.host, o.ret, stream)
    <2>1. /\ o.ret > 0 /\ pc' = next
          /\ host' \in Logged(o.host, fdToHost)
      BY <1>1, <1>5, HandleNumbers
    <2>2. o.host \in HostState
      BY <1>5 DEF Opens
    <2>3. Opens(host, host', fd', stream)
      <3>1. Quiet(o.host, host')
        BY <2>1, <2>2, LoggedQuiet
      <3> QED
        BY <3>1, <1>1, <1>3, <1>5, ThenQuiet
    <2>4. TypeOK'
      BY <1>1, <1>2, <1>3, <1>4, <1>5, <2>1, <2>3, ChangeType DEF TypeOK, console, run
    <2> QED
      BY <1>1, <1>2, <1>5, <2>1, <2>3, <2>4
         DEF StepKind, FileOpenStep, MayHoldFile
  <1>6. CASE o.ret = Err /\ Quiet(host, o.host)
    <2>1. pc' = "failed"
      BY <1>1, <1>6
    <2>2. PICK e \in Answer(o.host, lastErrno) : host' \in Logged(e.host, fdToHost)
      BY <1>1, <1>6
    <2>3. Quiet(host, host')
      <3>1. o.host \in HostState
        BY <1>6 DEF Quiet
      <3>2. Quiet(o.host, e.host)
        BY <3>1, PlainRequests, AnswerQuiet
      <3>3. e.host \in HostState /\ Quiet(host, e.host)
        BY <1>3, <1>6, <3>2, ThenQuiet, ChangeType
      <3> QED
        BY <1>3, <2>2, <3>3, LoggedQuiet, ThenQuiet
    <2>4. TypeOK'
      BY <1>1, <1>2, <1>3, <1>4, <1>6, <2>1, <2>3, ChangeType DEF TypeOK, console, run
    <2> QED
      BY <1>2, <1>4, <2>1, <2>3, <2>4, <1>1 DEF StepKind, FileOpenStep, MayHoldFile
  <1> QED
    BY <1>3, <1>5, <1>6, OpenFileOpens

\* SYS_CLOSE of the test's file, whatever the test makes of a failure.
LEMMA CloseKind ==
    ASSUME TypeOK,
           NEW at \in Labels \cap HoldLabels,
           NEW next \in Labels \ Ending, NEW bad \in (Labels \cap HoldLabels) \ Ending,
           Check(at, close(fd), {Ok}, next, bad)
    PROVE  TypeOK' /\ StepKind
  <1>1. Call(at, CloseFD(host, fd), {Ok}, next, bad) /\ UNCHANGED <<fd, index>>
    BY AnswerClose DEF Check
  <1>2. Call(at, CloseFD(host, fd), {Ok}, next, bad)
    BY <1>1
  <1>3. pc = at /\ UNCHANGED <<console, run>>
    BY <1>2, CallEffect
  <1>4. host \in HostState /\ index = 0
    BY <1>3 DEF TypeOK, HoldLabels
  <1>5. PICK o \in CloseFD(host, fd) :
          /\ pc' = IF o.ret \in {Ok} THEN next ELSE bad
          /\ o.host \in HostState => Quiet(o.host, host')
    BY <1>2, CallEffect
  <1>6. /\ MayClose(host, o.host, fd)
        /\ o.ret = Ok => fd \in Handles
        /\ o.ret = Ok /\ host.regression \notin {"close", "closeRead"}
              => o.host.open[fd] = "closed"
    BY <1>4, CloseCloses
  <1>7. MayClose(host, host', fd) /\ host' \in HostState
    BY <1>4, <1>5, <1>6, ThenQuiet, ChangeType
  <1>8. ASSUME ~MayHoldFile', host.regression \notin {"close", "closeRead"}
        PROVE  fd \in Handles /\ host'.open[fd] = "closed"
    <2>1. o.ret = Ok
      BY <1>5, <1>8 DEF MayHoldFile
    <2>2. fd \in Handles /\ o.host.open[fd] = "closed"
      BY <2>1, <1>6, <1>8
    <2>3. Quiet(o.host, host')
      BY <1>5, <1>6 DEF MayClose
    <2> QED
      BY <2>2, <2>3 DEF Quiet
  <1>9. pc' \in Labels /\ pc' \notin Ending
    BY <1>5
  <1>10. TypeOK'
    BY <1>1, <1>3, <1>4, <1>7, <1>9 DEF TypeOK, console, run
  <1> QED
    BY <1>1, <1>3, <1>7, <1>8, <1>9, <1>10 DEF StepKind, FileCloseStep, MayHoldFile

\* Where an end of the console is closed, and what comes next.
ClosesConsole(at, next, n) ==
    \/ n = fdFromHost /\ <<at, next>> \in {<<"tty.closeIn", "tty.closeOut">>,
                                        <<"main.closeIn", "main.closeOut">>}
    \/ n = fdToHost /\ <<at, next>> \in {<<"tty.closeOut", "tty.openIn">>,
                                      <<"main.closeOut", "halted">>}

\* SYS_CLOSE of an end of the console.
LEMMA ConsoleCloseKind ==
    ASSUME TypeOK,
           NEW at, NEW n, NEW next, NEW bad,
           ClosesConsole(at, next, n),
           bad \in {"failed", "returned"},
           Check(at, close(n), {Ok}, next, bad)
    PROVE  TypeOK' /\ StepKind
  <1>1. Call(at, CloseFD(host, n), {Ok}, next, bad) /\ UNCHANGED <<fd, index>>
    BY AnswerClose DEF Check
  <1>2. /\ at \in Labels /\ next \in Labels /\ bad \in Labels
        /\ Call(at, CloseFD(host, n), {Ok}, next, bad)
    BY <1>1 DEF Labels, ClosesConsole
  <1>3. pc = at /\ UNCHANGED <<console, run>>
    BY <1>2, CallEffect
  <1>4. host \in HostState /\ index = 0
    BY <1>3 DEF TypeOK, ClosesConsole
  <1>5. PICK o \in CloseFD(host, n) :
          /\ pc' = IF o.ret \in {Ok} THEN next ELSE bad
          /\ o.host \in HostState => Quiet(o.host, host')
    BY <1>2, CallEffect
  <1>6. /\ MayClose(host, o.host, n)
        /\ o.ret = Ok => n \in Handles /\ host.open[n] # "closed"
    BY <1>4, CloseCloses
  <1>7. MayClose(host, host', n) /\ host' \in HostState
    BY <1>4, <1>5, <1>6, ThenQuiet, ChangeType
  <1>8. /\ pc' \in {next, bad}
        /\ pc' = next => n \in Handles /\ host.open[n] # "closed"
    BY <1>5, <1>6 DEF ClosesConsole
  <1>9. TypeOK'
    BY <1>1, <1>2, <1>3, <1>4, <1>7, <1>8 DEF TypeOK, console, run
  <1>10. ConsoleCloseStep
    BY <1>1, <1>3, <1>7, <1>8
       DEF ConsoleCloseStep, MayHoldFile, HoldLabels, ClosesConsole
  <1> QED
    BY <1>9, <1>10 DEF StepKind

\* SYS_OPEN of ":tt" for input.
LEMMA OpenInKind ==
    ASSUME TypeOK,
           NEW at, NEW next, <<at, next>> \in {<<"main.openIn", "main.openOut">>,
                                              <<"tty.openIn", "tty.openOut">>},
           OpenIn(at, next)
    PROVE  TypeOK' /\ StepKind
  <1>1. PICK o \in OpenTTY(host, "ttyIn") : host' = o.host /\ fdFromHost' = o.ret
    BY AnswerOpenTTY DEF OpenIn
  <1>2. /\ pc = at /\ pc' = next
        /\ UNCHANGED <<fdToHost, fd, index, run>>
    BY DEF OpenIn
  <1>3. host \in HostState /\ index = 0
    BY <1>2 DEF TypeOK
  <1>4. \/ o.ret = TTYNumber(host, "ttyIn") /\ Opens(host, host', o.ret, "ttyIn")
        \/ o.ret = Err /\ Quiet(host, host')
    BY <1>1, <1>3, OpenTTYOpens
  <1>5. host' \in HostState /\ o.ret \in Handles \cup {-1}
    BY <1>4 DEF Opens, Quiet
  <1>6. pc' \in Labels /\ pc' \notin Ending /\ pc \notin HoldLabels
    BY <1>2 DEF Labels, Ending, HoldLabels
  <1>7. TypeOK'
    BY <1>1, <1>2, <1>3, <1>5, <1>6 DEF TypeOK, run
  <1>8. ConsoleOpenStep
    BY <1>2, <1>4, <1>6 DEF ConsoleOpenStep, MayHoldFile
  <1> QED
    BY <1>7, <1>8 DEF StepKind

\* SYS_OPEN of ":tt" for output.
LEMMA OpenOutKind ==
    ASSUME TypeOK,
           NEW at, NEW ok, NEW bad,
           <<at, ok, bad>> \in {<<"main.openOut", "cmdline", "returned">>,
                               <<"tty.openOut", "tty.isInTTY", "failed">>},
           OpenOut(at, ok, bad)
    PROVE  TypeOK' /\ StepKind
  <1>1. PICK o \in OpenTTY(host, "ttyOut") :
          /\ fdToHost' = o.ret
          /\ pc' = IF fdFromHost # -1 /\ o.ret # -1 THEN ok ELSE bad
          /\ host' \in IF pc' = "returned" THEN {o.host} ELSE Logged(o.host, o.ret)
    BY AnswerOpenTTY DEF OpenOut
  <1>2. /\ pc = at
        /\ UNCHANGED <<fdFromHost, fd, index, run>>
    BY DEF OpenOut
  <1>3. host \in HostState /\ index = 0
    BY <1>2 DEF TypeOK
  <1>4. o.host \in HostState => Quiet(o.host, host')
    BY <1>1, LoggedQuiet, QuietReflexive
  <1>5. \/ o.ret = TTYNumber(host, "ttyOut") /\ Opens(host, o.host, o.ret, "ttyOut")
        \/ o.ret = Err /\ Quiet(host, o.host)
    BY <1>3, OpenTTYOpens
  <1>6. \/ o.ret = TTYNumber(host, "ttyOut") /\ Opens(host, host', o.ret, "ttyOut")
        \/ o.ret = Err /\ Quiet(host, host')
    BY <1>3, <1>4, <1>5, ThenQuiet
  <1>7. host' \in HostState /\ o.ret \in Handles \cup {-1}
    BY <1>6 DEF Opens, Quiet
  <1>8. pc' \in Labels /\ pc' \notin Ending /\ pc \notin HoldLabels
    BY <1>1, <1>2 DEF Labels, Ending, HoldLabels
  <1>9. TypeOK'
    BY <1>1, <1>2, <1>3, <1>7, <1>8 DEF TypeOK, run
  <1>10. ConsoleOpenStep
    BY <1>1, <1>2, <1>6, <1>8 DEF ConsoleOpenStep, MayHoldFile
  <1> QED
    BY <1>9, <1>10 DEF StepKind

-----------------------------------------------------------------------------
(***************************************************************************)
(* The tests, one by one.                                                  *)
(***************************************************************************)

\* The steps of testReadCommandLine.
LEMMA CommandLineKind ==
    ASSUME TypeOK, testReadCommandLine
    PROVE  TypeOK' /\ StepKind
  <1>1. /\ "cmdline" \in Labels \ {"console.writeC", "isError"}
        /\ "tty.closeIn" \in Labels \ Ending /\ "failed" \in Labels \ Ending
        /\ "cmdline" \notin HoldLabels
    BY DEF Labels, Ending, HoldLabels
  <1> QED
    BY <1>1, PlainRequests, CheckKind DEF testReadCommandLine

\* The steps of testConsoleHandles.
LEMMA ConsoleHandlesKind ==
    ASSUME TypeOK, testConsoleHandles
    PROVE  TypeOK' /\ StepKind
  <1>1. CASE CloseIn("tty.closeIn", "tty.closeOut", "failed")
    BY <1>1, ConsoleCloseKind DEF CloseIn, ClosesConsole
  <1>2. CASE CloseOut("tty.closeOut", "tty.openIn", "failed")
    BY <1>2, ConsoleCloseKind DEF CloseOut, ClosesConsole
  <1>3. CASE OpenIn("tty.openIn", "tty.openOut")
    BY <1>3, OpenInKind
  <1>4. CASE OpenOut("tty.openOut", "tty.isInTTY", "failed")
    BY <1>4, OpenOutKind
  <1>5. CASE Check("tty.isInTTY", isTTY(fdFromHost), {1}, "tty.isOutTTY", "failed")
    <2>1. /\ "tty.isInTTY" \in Labels \ {"console.writeC", "isError"}
          /\ "tty.isOutTTY" \in Labels \ Ending /\ "failed" \in Labels \ Ending
          /\ "tty.isInTTY" \notin HoldLabels
      BY DEF Labels, Ending, HoldLabels
    <2> QED
      BY <1>5, <2>1, PlainRequests, CheckKind
  <1>6. CASE Check("tty.isOutTTY", isTTY(fdToHost), {1},
                   IF HandlesAsExpected THEN "features.open" ELSE "failed", "failed")
    <2> DEFINE to == IF HandlesAsExpected THEN "features.open" ELSE "failed"
    <2>1. /\ "tty.isOutTTY" \in Labels \ {"console.writeC", "isError"}
          /\ to \in Labels \ Ending /\ "failed" \in Labels \ Ending
          /\ "tty.isOutTTY" \notin HoldLabels
      BY DEF Labels, Ending, HoldLabels
    <2>2. Check("tty.isOutTTY", isTTY(fdToHost), {1}, to, "failed")
      BY <1>6
    <2> HIDE DEF to
    <2> QED
      BY <2>1, <2>2, PlainRequests, CheckKind
  <1> QED
    BY <1>1, <1>2, <1>3, <1>4, <1>5, <1>6 DEF testConsoleHandles

\* The steps of testSemihostingFeatures.
LEMMA FeaturesKind ==
    ASSUME TypeOK, testSemihostingFeatures
    PROVE  TypeOK' /\ StepKind
  <1>1. /\ {"features.length", "features.magic", "features.byte", "features.close",
             "features.abort", "failed"} \subseteq (Labels \cap HoldLabels) \ Ending
        /\ {"features.open", "features.length", "features.magic", "features.byte"}
               \subseteq Labels \ {"console.writeC", "isError"}
        /\ "features.open" \in Labels \ HoldLabels
        /\ "console.write" \in Labels \ Ending
    BY DEF Labels, HoldLabels, Ending
  <1>2. CASE OpenAs("features.open", featuresFile, OpenMode.read, "features.length")
    BY <1>1, <1>2, AnswerOpenFile, OpenAsKind
  <1>3. CASE Check("features.length", fileLength(fd), {Ok}, "features.magic",
                   "features.abort")
    BY <1>1, <1>3, PlainRequests, CheckKind
  <1>4. CASE Check("features.magic", read(fd, View("magic", 4)), {Ok},
                   "features.byte", "features.abort")
    BY <1>1, <1>4, PlainRequests, CheckKind
  <1>5. CASE Check("features.byte", read(fd, View("byte", 1)), {Ok, Wrong},
                   IF FeaturesByte(host) = 3 THEN "features.close" ELSE "failed",
                   "features.abort")
    <2> DEFINE to == IF FeaturesByte(host) = 3 THEN "features.close" ELSE "failed"
    <2>1. to \in (Labels \cap HoldLabels) \ Ending
      BY <1>1
    <2>2. Check("features.byte", read(fd, View("byte", 1)), {Ok, Wrong}, to,
                "features.abort")
      BY <1>5
    <2> HIDE DEF to
    <2> QED
      BY <1>1, <2>1, <2>2, PlainRequests, CheckKind
  <1>6. CASE CloseFile("features.close", "console.write")
    BY <1>1, <1>6, CloseKind DEF CloseFile
  <1>7. CASE Check("features.abort", close(fd), {Ok}, "failed", "failed")
    BY <1>1, <1>7, CloseKind
  <1> QED
    BY <1>2, <1>3, <1>4, <1>5, <1>6, <1>7 DEF testSemihostingFeatures

\* The steps of testConsoleWrite.
LEMMA ConsoleWriteKind ==
    ASSUME TypeOK, testConsoleWrite
    PROVE  TypeOK' /\ StepKind
  <1>1. /\ {"console.write", "console.write0"}
               \subseteq (Labels \ HoldLabels) \ {"console.writeC", "isError"}
        /\ {"console.write0", "console.writeC", "failed"} \subseteq Labels \ Ending
        /\ "file.create" \in (Labels \ Ending) \ {"console.writeC"}
    BY DEF Labels, HoldLabels, Ending
  <1>2. CASE Check("console.write", write(fdToHost, alphabet), {Ok},
                   "console.write0", "failed")
    BY <1>1, <1>2, PlainRequests, CheckKind
  <1>3. CASE Check("console.write0", writeNul(alphabet.data), {Ok},
                   "console.writeC", "failed")
    BY <1>1, <1>3, PlainRequests, CheckKind
  <1>4. CASE Loop("console.writeC", writeChar("chr"), {Ok}, alphabet.length, "file.create")
    <2>1. alphabet.length = AlphabetLength
      BY DEF alphabet, View
    <2> QED
      BY <1>1, <1>4, <2>1, PlainRequests, LoopKind
  <1> QED
    BY <1>2, <1>3, <1>4 DEF testConsoleWrite

\* The steps of testFileIO.
LEMMA FileIOKind ==
    ASSUME TypeOK, testFileIO
    PROVE  TypeOK' /\ StepKind
  <1>1. /\ {"file.create", "file.writeClosed", "file.rename", "file.open",
             "file.readClosed", "file.remove"}
               \subseteq (Labels \ HoldLabels) \ {"console.writeC", "isError"}
        /\ {"file.write", "file.close", "file.length", "file.read", "file.isTTY",
             "file.closeRead", "failed"} \subseteq (Labels \cap HoldLabels) \ Ending
        /\ {"file.write", "file.length", "file.read", "file.isTTY"}
               \subseteq Labels \ {"console.writeC", "isError"}
        /\ {"file.writeClosed", "file.rename", "file.open", "file.readClosed",
             "file.remove", "isError"} \subseteq Labels \ Ending
    BY DEF Labels, HoldLabels, Ending
  <1>2. ASSUME writeFileA PROVE TypeOK' /\ StepKind
    <2>1. CASE OpenAs("file.create", testFileA, OpenMode.writeBinary, "file.write")
      BY <1>1, <2>1, AnswerOpenFile, OpenAsKind
    <2>2. CASE Check("file.write", write(fd, alphabet), {Ok}, "file.close", "failed")
      BY <1>1, <2>2, PlainRequests, CheckKind
    <2>3. CASE CloseFile("file.close", "file.writeClosed")
      BY <1>1, <2>3, CloseKind DEF CloseFile
    <2>4. CASE Check("file.writeClosed", write(fd, alphabet), {Short, Err},
                     "file.rename", "failed")
      BY <1>1, <2>4, PlainRequests, CheckKind
    <2> QED
      BY <1>2, <2>1, <2>2, <2>3, <2>4 DEF writeFileA
  <1>3. ASSUME readFileB PROVE TypeOK' /\ StepKind
    <2>1. CASE OpenAs("file.open", testFileB, OpenMode.readBinary, "file.length")
      BY <1>1, <2>1, AnswerOpenFile, OpenAsKind
    <2>2. CASE Check("file.length", fileLength(fd), {Ok}, "file.read", "failed")
      BY <1>1, <2>2, PlainRequests, CheckKind
    <2>3. CASE Check("file.read", read(fd, buffer), {Ok}, "file.isTTY", "failed")
      BY <1>1, <2>3, PlainRequests, CheckKind
    <2>4. CASE Check("file.isTTY", isTTY(fd), {0}, "file.closeRead", "failed")
      BY <1>1, <2>4, PlainRequests, CheckKind
    <2>5. CASE CloseFile("file.closeRead", "file.readClosed")
      BY <1>1, <2>5, CloseKind DEF CloseFile
    <2>6. CASE Check("file.readClosed", read(fd, buffer), {Short, Err},
                     "file.remove", "failed")
      BY <1>1, <2>6, PlainRequests, CheckKind
    <2> QED
      BY <1>3, <2>1, <2>2, <2>3, <2>4, <2>5, <2>6 DEF readFileB
  <1>4. CASE Check("file.rename", rename(testFileA, testFileB), {Ok}, "file.open", "failed")
    BY <1>1, <1>4, PlainRequests, CheckKind
  <1>5. CASE Check("file.remove", remove(testFileB), {Ok}, "isError", "failed")
    BY <1>1, <1>5, PlainRequests, CheckKind
  <1> QED
    BY <1>2, <1>3, <1>4, <1>5 DEF testFileIO

\* The steps of testIsError.
LEMMA ErrorCodesKind ==
    ASSUME TypeOK, testIsError
    PROVE  TypeOK' /\ StepKind
  <1> DEFINE good == {r \in {0, 1, Err} : SaysError(r) = (index \in fileIOErrno)}
  <1>1. Loop("isError", isError(index), good, CodeCount, "heapInfo")
    BY DEF testIsError
  <1>2. "heapInfo" \in (Labels \ Ending) \ {"isError"}
    BY DEF Labels, Ending
  <1> HIDE DEF good
  <1> QED
    BY <1>1, <1>2, PlainRequests, LoopKind

\* testErrno's open is expected to fail; the handle is closed if it does not.
LEMMA ErrnoOpenKind ==
    ASSUME TypeOK, NEW o \in OpenFile(host, "B"),
           Call("errno.open", {o}, {Err}, "errno.first", "errno.abort"),
           fd' = o.ret, index' = index
    PROVE  TypeOK' /\ StepKind
  <1>1. {"errno.open", "errno.first", "errno.abort"} \subseteq Labels
    BY DEF Labels
  <1>2. /\ pc = "errno.open" /\ pc' \in Labels
        /\ UNCHANGED <<console, run>>
    BY <1>1, CallEffect
  <1>3. PICK p \in {o} :
          /\ pc' = IF p.ret \in {Err} THEN "errno.first" ELSE "errno.abort"
          /\ p.host \in HostState => Quiet(p.host, host')
    BY <1>1, CallEffect
  <1>4. /\ pc' = IF o.ret \in {Err} THEN "errno.first" ELSE "errno.abort"
        /\ o.host \in HostState => Quiet(o.host, host')
    BY <1>3
  <1>5. host \in HostState /\ index = 0
    BY <1>2 DEF TypeOK
  <1>6. /\ "errno.open" \notin HoldLabels /\ "errno.abort" \in HoldLabels
        /\ "errno.abort" \notin Ending /\ "errno.first" \notin Ending
    BY DEF HoldLabels, Ending
  <1>7. CASE o.ret \in FileHandles /\ Opens(host, o.host, o.ret, "B")
    <2>1. pc' = "errno.abort"
      BY <1>4, <1>7, HandleNumbers
    <2>2. Opens(host, host', fd', "B")
      BY <1>4, <1>5, <1>7, ThenQuiet
    <2>3. host' \in HostState
      BY <2>2, ChangeType
    <2>4. TypeOK'
      BY <1>2, <1>5, <1>7, <2>3 DEF TypeOK, console, run
    <2> QED
      BY <1>2, <1>6, <1>7, <2>1, <2>2, <2>4 DEF StepKind, FileOpenStep, MayHoldFile
  <1>8. CASE o.ret = Err /\ Quiet(host, o.host)
    <2>1. pc' = "errno.first"
      BY <1>4, <1>8
    <2>2. Quiet(host, host') /\ host' \in HostState
      BY <1>4, <1>5, <1>8, ThenQuiet, ChangeType
    <2>3. TypeOK'
      BY <1>2, <1>5, <1>8, <2>2 DEF TypeOK, console, run
    <2> QED
      BY <1>2, <1>6, <2>1, <2>2, <2>3 DEF StepKind, FileOpenStep, MayHoldFile
  <1> QED
    BY <1>5, <1>7, <1>8, OpenFileOpens

\* The steps of testErrno.
LEMMA ErrnoKind ==
    ASSUME TypeOK, testErrno
    PROVE  TypeOK' /\ StepKind
  <1>1. /\ {"errno.first", "errno.second"}
               \subseteq (Labels \ HoldLabels) \ {"console.writeC", "isError"}
        /\ "errno.abort" \in Labels \cap HoldLabels
        /\ "failed" \in (Labels \cap HoldLabels) \ Ending
        /\ {"errno.second", "tickFrequency"} \subseteq Labels \ Ending
    BY DEF Labels, HoldLabels, Ending
  <1>2. CASE /\ \E o \in Answer(host, open(testFileB, OpenMode.readBinary)) :
                  /\ Call("errno.open", {o}, {Err}, "errno.first", "errno.abort")
                  /\ fd' = o.ret
             /\ UNCHANGED index
    BY <1>2, AnswerOpenFile, ErrnoOpenKind
  <1>3. CASE Check("errno.abort", close(fd), {Ok}, "failed", "failed")
    BY <1>1, <1>3, CloseKind
  <1>4. CASE Check("errno.first", lastErrno, {"ENOENT"}, "errno.second", "failed")
    BY <1>1, <1>4, PlainRequests, CheckKind
  <1>5. CASE Check("errno.second", lastErrno, {"success"}, "tickFrequency", "failed")
    BY <1>1, <1>5, PlainRequests, CheckKind
  <1> QED
    BY <1>2, <1>3, <1>4, <1>5 DEF testErrno

\* The tests that only ask.
LEMMA QueriesKind ==
    ASSUME TypeOK,
           \/ testHeapInfo \/ testTiming \/ testTempName
           \/ testTimekeeping \/ testIntervals \/ testExits
    PROVE  TypeOK' /\ StepKind
  <1>1. /\ {"heapInfo", "tickFrequency", "elapsed", "tempName", "timekeeping",
             "intervals", "exit", "exitExtended"}
               \subseteq (Labels \ HoldLabels) \ {"console.writeC", "isError"}
        /\ {"errno.open", "elapsed", "tempName", "timekeeping", "intervals", "exit",
             "exitExtended", "passed", "failed"} \subseteq Labels \ Ending
    BY DEF Labels, HoldLabels, Ending
  <1>2. CASE testHeapInfo
    BY <1>1, <1>2, PlainRequests, CheckKind DEF testHeapInfo
  <1>3. CASE testTiming
    <2>1. CASE Check("tickFrequency", tickFrequency, {Err}, "elapsed", "failed")
      BY <1>1, <2>1, PlainRequests, CheckKind
    <2>2. CASE Check("elapsed", elapsedTime("ticks"), {Err}, "tempName", "failed")
      BY <1>1, <2>2, PlainRequests, CheckKind
    <2> QED
      BY <1>3, <2>1, <2>2 DEF testTiming
  <1>4. CASE testTempName
    BY <1>1, <1>4, PlainRequests, CheckKind DEF testTempName
  <1>5. CASE testTimekeeping
    BY <1>1, <1>5, PlainRequests, CheckKind DEF testTimekeeping
  <1>6. CASE testIntervals
    BY <1>1, <1>6, PlainRequests, CheckKind DEF testIntervals
  <1>7. CASE testExits
    <2>1. CASE Check("exit", exit(applicationExit), {Ok}, "exitExtended", "exitExtended")
      BY <1>1, <2>1, PlainRequests, CheckKind
    <2>2. CASE Check("exitExtended", exitExtended(applicationExit, 25), {Ok},
                     "passed", "passed")
      BY <1>1, <2>2, PlainRequests, CheckKind
    <2> QED
      BY <1>7, <2>1, <2>2 DEF testExits
  <1> QED
    BY <1>2, <1>3, <1>4, <1>5, <1>6, <1>7

-----------------------------------------------------------------------------
(***************************************************************************)
(* main() around the tests.                                                *)
(***************************************************************************)

\* The steps of testSemihosting.
LEMMA TestsKind ==
    ASSUME TypeOK, testSemihosting
    PROVE  TypeOK' /\ StepKind
  BY CommandLineKind, ConsoleHandlesKind, FeaturesKind, ConsoleWriteKind, FileIOKind,
     ErrorCodesKind, ErrnoKind, QueriesKind
     DEF testSemihosting

\* The steps of main() other than its report.
LEMMA MainKind ==
    ASSUME TypeOK, mainOpenConsole \/ mainCloseConsole
    PROVE  TypeOK' /\ StepKind
  <1>1. CASE OpenIn("main.openIn", "main.openOut")
    BY <1>1, OpenInKind
  <1>2. CASE OpenOut("main.openOut", "cmdline", "returned")
    BY <1>2, OpenOutKind
  <1>3. CASE CloseIn("main.closeIn", "main.closeOut", "returned")
    BY <1>3, ConsoleCloseKind DEF CloseIn, ClosesConsole
  <1>4. CASE CloseOut("main.closeOut", "halted", "returned")
    BY <1>4, ConsoleCloseKind DEF CloseOut, ClosesConsole
  <1> QED
    BY <1>1, <1>2, <1>3, <1>4 DEF mainOpenConsole, mainCloseConsole

\* The report reaches the host over a handle it leaves alone.
LEMMA ReportEffect ==
    ASSUME TypeOK, mainReport
    PROVE  /\ TypeOK' /\ Quiet(host, host')
           /\ pc' = "main.closeIn"
           /\ told' = IF IsConsole(host, fdToHost) THEN verdict' ELSE told
           /\ MayHoldFile => MayHoldFile'
           /\ UNCHANGED <<fd, console, atStart>>
  <1>1. /\ host \in HostState /\ index = 0
        /\ pc \in {"passed", "failed"}
    BY DEF mainReport, TypeOK
  <1>2. Quiet(host, host') /\ host' \in HostState
    BY <1>1, LoggedQuiet, ChangeType DEF mainReport
  <1>3. "main.closeIn" \in Labels /\ "main.closeIn" \in HoldLabels
    BY DEF Labels, HoldLabels
  <1>4. TypeOK'
    BY <1>1, <1>2, <1>3 DEF mainReport, TypeOK, console
  <1> QED
    BY <1>2, <1>3, <1>4 DEF mainReport, MayHoldFile

\* A reset starts the firmware over and leaves the host its handles.
LEMMA ResetEffect ==
    ASSUME TypeOK, Reset
    PROVE  /\ TypeOK' /\ NewlyOpen' = {}
           /\ pc' = "main.openIn" /\ fdToHost' = -1
  <1>1. PICK r \in Regressions \cup {"none"} : host' = [host EXCEPT !.regression = r]
    BY DEF Reset
  <1>2. host' \in HostState
    BY <1>1 DEF TypeOK, HostState
  <1>3. "main.openIn" \in Labels
    BY DEF Labels
  <1>4. resets' \in 0 .. MaxResets
    BY SuiteAssumption DEF Reset, TypeOK
  <1>5. TypeOK'
    BY <1>2, <1>3, <1>4 DEF Reset, TypeOK
  <1>6. NewlyOpen' = {}
    BY DEF Reset, NewlyOpen
  <1> QED
    BY <1>5, <1>6 DEF Reset

-----------------------------------------------------------------------------
(***************************************************************************)
(* Type correctness.                                                       *)
(***************************************************************************)

\* The initial states have their types.
LEMMA InitType == Init => TypeOK
  <1> SUFFICES ASSUME Init PROVE TypeOK
    OBVIOUS
  <1>1. host \in HostState
    BY FreshType DEF Init
  <1>2. "main.openIn" \in Labels
    BY DEF Labels
  <1> QED
    BY <1>1, <1>2, SuiteAssumption DEF Init, TypeOK

\* Every step keeps the types.
LEMMA StepType == TypeOK /\ [Next]_vars => TypeOK'
  <1> SUFFICES ASSUME TypeOK, [Next]_vars PROVE TypeOK'
    OBVIOUS
  <1>1. CASE testSemihosting
    BY <1>1, TestsKind
  <1>2. CASE mainOpenConsole \/ mainCloseConsole
    BY <1>2, MainKind
  <1>3. CASE mainReport
    BY <1>3, ReportEffect
  <1>4. CASE Reset
    BY <1>4, ResetEffect
  <1>5. CASE Parked \/ UNCHANGED vars
    BY <1>5 DEF Parked, vars, TypeOK
  <1> QED
    BY <1>1, <1>2, <1>3, <1>4, <1>5 DEF Next, main

\* The type invariant holds in every reachable state, whatever the host does.
THEOREM TypeCorrect == Spec => []TypeOK
  BY InitType, StepType, PTL DEF Spec

-----------------------------------------------------------------------------
(***************************************************************************)
(* At most the running test's file is left open.                           *)
(***************************************************************************)

\* What is newly open does not grow when nothing is opened.
LEMMA NothingOpened ==
    ASSUME NEW m, Quiet(host, host') \/ MayClose(host, host', m), atStart' = atStart
    PROVE  NewlyOpen' \subseteq NewlyOpen
  BY HandleNumbers DEF Quiet, MayClose, NewlyOpen, IsOpen

\* A quiet change opens no handle.
LEMMA LeakQuiet ==
    ASSUME TypeOK, LeakInv, Quiet(host, host'), MayHoldFile => MayHoldFile',
           UNCHANGED <<fd, atStart>>
    PROVE  LeakInv'
  <1>1. NewlyOpen' \subseteq NewlyOpen
    BY NothingOpened
  <1>2. host'.regression = host.regression
    BY DEF Quiet
  <1> QED
    BY <1>1, <1>2 DEF LeakInv

\* Each kind of step keeps the handles newly open within the running test's.
LEMMA LeakKind ==
    ASSUME TypeOK, LeakInv, StepKind
    PROVE  LeakInv'
  <1>1. CASE QuietStep
    BY <1>1, LeakQuiet DEF QuietStep, run
  <1>2. CASE FileOpenStep
    <2>1. /\ ~MayHoldFile /\ atStart' = atStart
      BY <1>2 DEF FileOpenStep, run
    <2>2. CASE Quiet(host, host')
      <3>1. NewlyOpen' \subseteq NewlyOpen
        BY <2>1, <2>2, NothingOpened
      <3>2. host'.regression = host.regression
        BY <2>2 DEF Quiet
      <3> QED
        BY <2>1, <3>1, <3>2 DEF LeakInv
    <2>3. ASSUME MayHoldFile', NEW stream \in {"A", "B", "features"},
                 Opens(host, host', fd', stream)
          PROVE  LeakInv'
      <3>1. NewlyOpen' \subseteq NewlyOpen \cup {fd'}
        BY <2>1, <2>3, HandleNumbers DEF Opens, NewlyOpen, IsOpen
      <3>2. host'.regression = host.regression
        BY <2>3 DEF Opens
      <3> QED
        BY <2>1, <2>3, <3>1, <3>2 DEF LeakInv
    <2> QED
      BY <1>2, <2>2, <2>3 DEF FileOpenStep
  <1>3. CASE FileCloseStep
    <2>1. /\ MayHoldFile /\ MayClose(host, host', fd)
          /\ fd' = fd /\ atStart' = atStart
      BY <1>3 DEF FileCloseStep, run
    <2>2. NewlyOpen' \subseteq NewlyOpen /\ host'.regression = host.regression
      BY <2>1, NothingOpened DEF MayClose
    <2>3. CASE MayHoldFile'
      BY <2>1, <2>2, <2>3 DEF LeakInv
    <2>4. ASSUME fd \in Handles, host'.open[fd] = "closed" PROVE LeakInv'
      <3>1. fd \notin NewlyOpen'
        BY <2>4 DEF NewlyOpen, IsOpen
      <3> QED
        BY <2>1, <2>2, <3>1 DEF LeakInv
    <2>5. CASE host.regression \in {"close", "closeRead"}
      BY <2>2, <2>5 DEF LeakInv
    <2> QED
      BY <1>3, <2>3, <2>4, <2>5 DEF FileCloseStep
  <1>4. CASE ConsoleCloseStep
    <2>1. NewlyOpen' \subseteq NewlyOpen /\ host'.regression = host.regression
      BY <1>4, NothingOpened DEF ConsoleCloseStep, run, MayClose
    <2> QED
      BY <1>4, <2>1 DEF ConsoleCloseStep, LeakInv
  <1>5. CASE ConsoleOpenStep
    <2>1. ~MayHoldFile /\ fd' = fd /\ atStart' = atStart
      BY <1>5 DEF ConsoleOpenStep, run
    <2>2. ASSUME NEW m, m \in {1, 2}, NEW stream, Opens(host, host', m, stream)
          PROVE  NewlyOpen' \subseteq NewlyOpen /\ host'.regression = host.regression
      <3>1. FileHandles \subseteq Handles \ {m}
        BY <2>2, HandleNumbers
      <3>2. \A n \in FileHandles : IsOpen(host', n) => IsOpen(host, n)
        BY <2>2, <3>1 DEF Opens, IsOpen
      <3> QED
        BY <2>1, <2>2, <3>2 DEF Opens, NewlyOpen, IsOpen
    <2>3. \A stream : TTYNumber(host, stream) \in {1, 2}
      BY DEF TTYNumber
    <2>4. Quiet(host, host') =>
            NewlyOpen' \subseteq NewlyOpen /\ host'.regression = host.regression
      BY <2>1, NothingOpened DEF Quiet
    <2>5. NewlyOpen' \subseteq NewlyOpen /\ host'.regression = host.regression
      BY <1>5, <2>2, <2>3, <2>4 DEF ConsoleOpenStep
    <2> QED
      BY <2>1, <2>5 DEF LeakInv
  <1> QED
    BY <1>1, <1>2, <1>3, <1>4, <1>5 DEF StepKind

\* Every step keeps the handles newly open within the running test's.
LEMMA LeakStep == TypeOK /\ LeakInv /\ [Next]_vars => LeakInv'
  <1> SUFFICES ASSUME TypeOK, LeakInv, [Next]_vars PROVE LeakInv'
    OBVIOUS
  <1>1. CASE testSemihosting
    BY <1>1, TestsKind, LeakKind
  <1>2. CASE mainOpenConsole \/ mainCloseConsole
    BY <1>2, MainKind, LeakKind
  <1>3. CASE mainReport
    BY <1>3, ReportEffect, LeakQuiet
  <1>4. CASE Reset
    BY <1>4, ResetEffect DEF LeakInv
  <1>5. CASE Parked \/ UNCHANGED vars
    BY <1>5 DEF Parked, vars, LeakInv, NewlyOpen, IsOpen, MayHoldFile
  <1> QED
    BY <1>1, <1>2, <1>3, <1>4, <1>5 DEF Next, main

\* Provided closing works, a run never has more than one file handle open,
\* and none outlives its test unless that test failed.
THEOREM OneFileAtMost == Spec => []LeakBound
  <1>1. Init => LeakInv
    BY DEF Init, LeakInv, NewlyOpen
  <1>2. TypeOK /\ LeakInv => LeakBound
    BY DEF LeakInv, LeakBound
  <1> QED
    BY <1>1, <1>2, LeakStep, TypeCorrect, PTL DEF Spec

-----------------------------------------------------------------------------
(***************************************************************************)
(* The verdict is not lost.                                                *)
(***************************************************************************)

\* Nothing that leaves the output handle's number alone turns it into a live
\* console, and what is open on it stays the console's output end.
LEMMA OutputKept ==
    ASSUME TypeOK, ReportInv, fdToHost' = fdToHost, NEW m,
           Quiet(host, host') \/ MayClose(host, host', m)
    PROVE  /\ \/ fdToHost' = -1
              \/ /\ fdToHost' = TTYNumber(host', "ttyOut")
                 /\ host'.open[fdToHost'] \in {"closed", "ttyOut"}
           /\ IsConsole(host', fdToHost') => IsConsole(host, fdToHost)
  <1>1. TTYNumber(host', "ttyOut") = TTYNumber(host, "ttyOut")
    BY DEF TTYNumber, Quiet, MayClose
  <1>2. TTYNumber(host, "ttyOut") \in Handles /\ -1 \notin Handles
    BY HandleNumbers DEF TTYNumber
  <1> QED
    BY <1>1, <1>2 DEF ReportInv, Quiet, MayClose, IsConsole

\* Each kind of step keeps the report delivered, or the output handle dead.
LEMMA ReportKind ==
    ASSUME TypeOK, ReportInv, StepKind
    PROVE  ReportInv'
  <1>1. CASE QuietStep
    BY <1>1, OutputKept DEF QuietStep, ReportInv, Ending, console
  <1>2. CASE FileCloseStep
    BY <1>2, OutputKept DEF FileCloseStep, ReportInv, Ending, console
  <1>3. CASE FileOpenStep
    <2>1. fdToHost' = fdToHost /\ pc' \notin Ending
      BY <1>3 DEF FileOpenStep, console
    <2>2. CASE Quiet(host, host')
      BY <2>1, <2>2, OutputKept DEF ReportInv, Ending
    <2>3. ASSUME fd' \in FileHandles, NEW stream, Opens(host, host', fd', stream)
          PROVE  ReportInv'
      <3>1. TTYNumber(host', "ttyOut") = TTYNumber(host, "ttyOut")
        BY <2>3 DEF TTYNumber, Opens
      <3>2. TTYNumber(host, "ttyOut") \in Handles \ {fd'}
        BY <2>3, HandleNumbers DEF TTYNumber
      <3> QED
        BY <2>1, <2>3, <3>1, <3>2 DEF ReportInv, Opens, Ending
    <2> QED
      BY <1>3, <2>2, <2>3 DEF FileOpenStep
  <1>4. CASE ConsoleCloseStep
    <2>1. UNCHANGED <<fdToHost, told, verdict>>
      BY <1>4 DEF ConsoleCloseStep, console, run
    <2>2. /\ \/ fdToHost' = -1
             \/ /\ fdToHost' = TTYNumber(host', "ttyOut")
                /\ host'.open[fdToHost'] \in {"closed", "ttyOut"}
          /\ IsConsole(host', fdToHost') => IsConsole(host, fdToHost)
      BY <1>4, <2>1, OutputKept DEF ConsoleCloseStep
    <2>3. pc' \in {"main.closeIn", "main.closeOut"} =>
             told' = verdict' \/ ~IsConsole(host', fdToHost')
      BY <1>4, <2>1, <2>2 DEF ConsoleCloseStep, ReportInv
    <2>4. pc' = "halted" => told' = verdict'
      <3> HAVE pc' = "halted"
      <3>1. pc = "main.closeOut" /\ fdToHost \in Handles /\ host.open[fdToHost] # "closed"
        BY <1>4 DEF ConsoleCloseStep
      <3>2. IsConsole(host, fdToHost)
        BY <3>1, HandleNumbers DEF ReportInv, IsConsole
      <3> QED
        BY <2>1, <3>1, <3>2 DEF ReportInv
    <2> QED
      BY <2>2, <2>3, <2>4 DEF ReportInv
  <1>5. CASE ConsoleOpenStep
    <2>1. pc' \notin Ending
      BY <1>5 DEF ConsoleOpenStep
    <2>2. CASE /\ fdToHost' = fdToHost
               /\ Opens(host, host', TTYNumber(host, "ttyIn"), "ttyIn")
      <3>1. TTYNumber(host', "ttyOut") = TTYNumber(host, "ttyOut")
        BY <2>2 DEF TTYNumber, Opens
      <3>2. TTYNumber(host, "ttyOut") \in Handles \ {TTYNumber(host, "ttyIn")}
        BY HandleNumbers DEF TTYNumber
      <3> QED
        BY <2>1, <2>2, <3>1, <3>2 DEF ReportInv, Opens, Ending
    <2>3. CASE /\ fdToHost' = TTYNumber(host, "ttyOut")
               /\ Opens(host, host', fdToHost', "ttyOut")
      <3>1. TTYNumber(host', "ttyOut") = TTYNumber(host, "ttyOut")
        BY <2>3 DEF TTYNumber, Opens
      <3> QED
        BY <2>1, <2>3, <3>1 DEF ReportInv, Opens, Ending
    <2>4. CASE fdToHost' = fdToHost /\ Quiet(host, host')
      BY <2>1, <2>4, OutputKept DEF ReportInv, Ending
    <2>5. CASE fdToHost' = -1
      BY <2>1, <2>5 DEF ReportInv, Ending
    <2> QED
      BY <1>5, <2>2, <2>3, <2>4, <2>5 DEF ConsoleOpenStep
  <1> QED
    BY <1>1, <1>2, <1>3, <1>4, <1>5 DEF StepKind

\* Every step keeps the report delivered, or the output handle dead.
LEMMA ReportStep == TypeOK /\ ReportInv /\ [Next]_vars => ReportInv'
  <1> SUFFICES ASSUME TypeOK, ReportInv, [Next]_vars PROVE ReportInv'
    OBVIOUS
  <1>1. CASE testSemihosting
    BY <1>1, TestsKind, ReportKind
  <1>2. CASE mainOpenConsole \/ mainCloseConsole
    BY <1>2, MainKind, ReportKind
  <1>3. CASE mainReport
    BY <1>3, ReportEffect, OutputKept DEF ReportInv, console
  <1>4. CASE Reset
    BY <1>4, ResetEffect DEF ReportInv
  <1>5. CASE Parked \/ UNCHANGED vars
    BY <1>5 DEF Parked, vars, ReportInv
  <1> QED
    BY <1>1, <1>2, <1>3, <1>4, <1>5 DEF Next, main

\* The firmware does not stop at its final breakpoint with its verdict written
\* to a handle that was not a live console.
THEOREM VerdictNotLost == Spec => []VerdictDelivered
  <1>1. Init => ReportInv
    BY DEF Init, ReportInv
  <1>2. ReportInv => VerdictDelivered
    BY DEF ReportInv, VerdictDelivered
  <1> QED
    BY <1>1, <1>2, ReportStep, TypeCorrect, PTL DEF Spec
=============================================================================
