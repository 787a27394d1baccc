-------------------------- MODULE SemihostingHost --------------------------
(***************************************************************************)
(* The other end of `bkpt #0xab`: the debug probe (and the debugger behind *)
(* it) that answers the semihosting calls of                               *)
(* src/semihosting/stm32f411/syscalls.cxx.  The host is not part of the    *)
(* repository.  It is modelled from what the test firmware asks of it, so  *)
(* every definition of this module is external.                            *)
(*                                                                         *)
(* A host state h is a record                                              *)
(*   open        what every handle is open on                              *)
(*   files       what each of the two test files holds                     *)
(*   errno       the value the next SYS_ERRNO reports                      *)
(*   regression  the one way in which this host misbehaves while reporting *)
(*               success ("none" for a correct host)                       *)
(*   mood        whether any call may also fail honestly, with no effect   *)
(* and a request is answered by one of a set of possible outcomes, each a  *)
(* returned value with the host state after the call.                      *)
(***************************************************************************)
EXTENDS Syscalls

CONSTANTS
    FileHandles,    \* handle numbers the host may issue for files
    Moods,          \* "steady": calls fail with reason; "flaky": any call may
    Regressions,    \* the misbehaviours the host may have
    MisjudgedCode,  \* the code the "isError" regression answers wrongly
    AlphabetLength  \* length of the text the files hold (28)

\* ":tt" gives the firmware handles 1 and 2 (semihosting.cxx:51-52).
stdinFD  == 1
stdoutFD == 2
Handles  == {stdinFD, stdoutFD} \cup FileHandles

\* What a call returns, as far as the firmware tells it apart: success, a
\* positive count of bytes left over, success with the wrong contents, and
\* failure (-1).
Ok    == 0
Short == 1
Wrong == 2
Err   == -1

AllRegressions ==
    {"cmdline", "handles", "isTTY", "features", "close", "closeRead", "write",
     "garble", "rename", "copy", "length", "read", "remove", "isError",
     "heapInfo", "errno", "tickFreq", "elapsed", "tempName", "clock"}

ASSUME HostAssumption ==
    /\ \A n \in FileHandles : n \in Int /\ n > stdoutFD
    /\ Moods \subseteq {"steady", "flaky"}
    /\ Regressions \subseteq AllRegressions
    /\ AlphabetLength \in Nat \ {0}

\* A handle is closed or open on a stream; "Beof" is file B read to its end.
Streams  == {"closed", "ttyIn", "ttyOut", "features", "A", "B", "Beof"}
\* A test file as its checks tell it apart.  "garbled": the right length, the
\* wrong bytes.
Contents == {"absent", "empty", "part", "alphabet", "garbled"}
Errnos   == {"success", "ENOENT", "EBADF", "EMFILE", "EIO"}

HostState ==
    [open : [Handles -> Streams], files : [{"A", "B"} -> Contents],
     errno : Errnos, regression : Regressions \cup {"none"}, mood : Moods]

\* A freshly attached host: nothing open, and the test files not there.
FreshHost(r, m) ==
    [open |-> [n \in Handles |-> "closed"],
     files |-> [f \in {"A", "B"} |-> "absent"],
     errno |-> "success", regression |-> r, mood |-> m]

-----------------------------------------------------------------------------
Outcome(r, h) == [ret |-> r, host |-> h]
Failure(h, e) == Outcome(Err, [h EXCEPT !.errno = e])
Flake(h)      == IF h.mood = "flaky" THEN {Failure(h, "EIO")} ELSE {}

IsOpen(h, n) == n \in Handles /\ h.open[n] # "closed"
\* Handle n shows what is written to it on the host's console.
IsConsole(h, n) == n \in Handles /\ h.open[n] = "ttyOut"

\* The host after console lines were written to handle n, their results
\* ignored (Console::write).
Logged(h, n) ==
    IF IsConsole(h, n)
    THEN {h} \cup (IF h.mood = "flaky" THEN {[h EXCEPT !.errno = "EIO"]} ELSE {})
    ELSE {[h EXCEPT !.errno = "EBADF"]}

\* The fixed number of a console end.
TTYNumber(h, stream) ==
    IF (stream = "ttyIn") = (h.regression # "handles") THEN stdinFD ELSE stdoutFD

\* SYS_OPEN of ":tt".
OpenTTY(h, stream) ==
    LET n == TTYNumber(h, stream)
    IN {Outcome(n, [h EXCEPT !.open[n] = stream])} \cup Flake(h)

FreeHandles(h) == {n \in FileHandles : h.open[n] = "closed"}

\* SYS_OPEN of a file: "A" for writing (created or truncated), "B" and
\* "features" for reading.
OpenFile(h, stream) ==
    (IF stream = "B" /\ h.files["B"] = "absent" THEN {Failure(h, "ENOENT")}
     ELSE IF FreeHandles(h) = {} THEN {Failure(h, "EMFILE")}
     ELSE {Outcome(n, [h EXCEPT !.open[n] = stream,
                                !.files["A"] = IF stream = "A" THEN "empty" ELSE @]) :
             n \in FreeHandles(h)})
    \cup Flake(h)

\* SYS_CLOSE.
LeavesOpen(h, n) ==
    \/ h.regression = "close"
    \/ h.regression = "closeRead" /\ h.open[n] \in {"features", "B", "Beof"}

CloseFD(h, n) ==
    IF ~IsOpen(h, n) THEN {Failure(h, "EBADF")}
    ELSE {Outcome(Ok, IF LeavesOpen(h, n) THEN h
                      ELSE [h EXCEPT !.open[n] = "closed"])} \cup Flake(h)

\* SYS_WRITE: the number of bytes not written.
WriteFD(h, n) ==
    IF IsConsole(h, n) THEN {Outcome(Ok, h)} \cup Flake(h)
    ELSE IF IsOpen(h, n) /\ h.open[n] = "A"
    THEN {Outcome(Ok, [h EXCEPT !.files["A"] =
              CASE h.regression = "write"  -> "empty"
                [] h.regression = "garble" -> "garbled"
                [] OTHER                   -> "alphabet"])}
         \cup Flake(h)
         \cup (IF h.mood = "flaky"
               THEN {Outcome(Short, [h EXCEPT !.files["A"] = "part"])} ELSE {})
    ELSE {Failure(h, "EBADF")}

\* SYS_READ of as many bytes as the stream is expected to hold, with the
\* comparison of what arrived: the number of bytes not read, or Wrong.
ReadFD(h, n) ==
    IF ~IsOpen(h, n) \/ h.open[n] \notin {"features", "B", "Beof"}
    THEN {Failure(h, "EBADF")}
    ELSE Flake(h) \cup
         (IF h.open[n] = "features"
          THEN {Outcome(IF h.regression = "read" THEN Wrong ELSE Ok, h)}
          ELSE IF h.open[n] = "B" /\ h.files["B"] \in {"alphabet", "garbled"}
          THEN {Outcome(IF h.files["B"] = "garbled" \/ h.regression = "read"
                        THEN Wrong ELSE Ok, [h EXCEPT !.open[n] = "Beof"])}
          ELSE {Outcome(Short, [h EXCEPT !.open[n] = "Beof"])})

\* The supported features byte of ":semihosting-features".
FeaturesByte(h) == IF h.regression \in {"features", "read"} THEN 0 ELSE 3

\* SYS_FLEN, compared with the expected length.
FileLength(h, n) ==
    IF ~IsOpen(h, n) \/ h.open[n] \in {"ttyIn", "ttyOut"} THEN {Failure(h, "EBADF")}
    ELSE {Outcome(IF h.regression # "length"
                     /\ (h.open[n] = "B" => h.files["B"] \in {"alphabet", "garbled"})
                  THEN Ok ELSE Wrong, h)} \cup Flake(h)

\* SYS_ISTTY: 1 for a console, 0 for a file.
IsTTY(h, n) ==
    IF ~IsOpen(h, n) THEN {Failure(h, "EBADF")}
    ELSE {Outcome(IF (h.open[n] \in {"ttyIn", "ttyOut"}) = (h.regression # "isTTY")
                  THEN 1 ELSE 0, h)} \cup Flake(h)

\* SYS_RENAME of A to B; an existing B is replaced.
RenameAB(h) ==
    IF h.files["A"] = "absent" THEN {Failure(h, "ENOENT")}
    ELSE {Outcome(Ok, CASE h.regression = "rename" -> h
                        [] h.regression = "copy" ->
                             [h EXCEPT !.files["B"] = h.files["A"]]
                        [] OTHER ->
                             [h EXCEPT !.files["B"] = h.files["A"],
                                       !.files["A"] = "absent"])} \cup Flake(h)

\* SYS_REMOVE of B.
RemoveB(h) ==
    IF h.files["B"] = "absent" THEN {Failure(h, "ENOENT")}
    ELSE {Outcome(Ok, IF h.regression = "remove" THEN h
                      ELSE [h EXCEPT !.files["B"] = "absent"])} \cup Flake(h)

\* SYS_ERRNO: reports the last error once.
LastErrno(h) ==
    {Outcome(h.errno, IF h.regression = "errno" THEN h
                      ELSE [h EXCEPT !.errno = "success"])}

\* A call that only answers: what comes back is right unless the regression
\* named r makes it wrong.
Query(h, r) == {Outcome(IF h.regression = r THEN Wrong ELSE Ok, h)} \cup Flake(h)

\* SYS_TMPNAM: "tempAK.tmp" for target 10, another name for any other target.
TempName(h, targetID) == IF targetID = 10 THEN Query(h, "tempName") ELSE {Outcome(Wrong, h)}

\* SYS_WRITE0, SYS_WRITEC: to the debug console, whatever handles are open.
WriteDebug(h) == {Outcome(Ok, h)} \cup Flake(h)

\* All the calls of one clock test.  The test may find the times wrong on any
\* host, on one that keeps time as well (module ClockTests says when).
ClockTest(h) ==
    {Outcome(Wrong, h)} \cup (IF h.regression = "clock" THEN {} ELSE {Outcome(Ok, h)})
    \cup Flake(h)

\* SYS_EXIT, SYS_EXIT_EXTENDED: the host shows the exit and lets the target go on.
ShowExit(h) == {Outcome(Ok, h)} \cup Flake(h)

\* SYS_TICKFREQ is not implemented: it fails.
TickFrequency(h) ==
    IF h.regression = "tickFreq" THEN {Outcome(Ok, h)} ELSE {Failure(h, "EIO")}

\* Nor is SYS_ELAPSED.  A host that has it wrong succeeds, or fails and yet
\* writes a tick count.
Elapsed(h) ==
    IF h.regression = "elapsed"
    THEN {Outcome(Ok, h), Outcome(Wrong, [h EXCEPT !.errno = "EIO"])}
    ELSE {Failure(h, "EIO")}

\* FileIOErrno (syscallTypes.hxx:98-144): the codes SYS_ISERROR calls errors.
FileIOErrno ==
    {1, 2, 4, 5, 9, 13, 14, 16, 17, 19, 20, 21, 22, 23, 24, 27, 28, 29, 30, 88, 91}

IsError(h, code) ==
    {Outcome(IF (code \in FileIOErrno) # (h.regression = "isError" /\ code = MisjudgedCode)
             THEN 1 ELSE 0, h)} \cup Flake(h)

-----------------------------------------------------------------------------
(***************************************************************************)
(* How the host reads a request: the call's number and the place of each   *)
(* argument in its block.  It refuses what the firmware never asks for.    *)
(***************************************************************************)
Refused(h) == {Failure(h, "EIO")}

\* SYS_OPEN: the name's address, the mode, the name's length.
Open(h, name, mode, length) ==
    CASE <<name, length>> = <<":tt", 3>> /\ mode \in 0 .. 3 -> OpenTTY(h, "ttyIn")
      [] <<name, length>> = <<":tt", 3>> /\ mode \in 4 .. 7 -> OpenTTY(h, "ttyOut")
      [] <<name, length>> = <<":semihosting-features", 21>> /\ mode \in 0 .. 1
           -> OpenFile(h, "features")
      [] <<name, length>> = <<"semihosting-test.a", 18>> /\ mode \in 4 .. 5
           -> OpenFile(h, "A")
      [] <<name, length>> = <<"semihosting-test.b", 18>> /\ mode \in 0 .. 1
           -> OpenFile(h, "B")
      [] OTHER -> Refused(h)

\* The calls that open and close no handle, by number.
Serve(h, n, b) ==
    CASE n \in {3, 4} -> WriteDebug(h)
      [] n = 5  -> IF b[2] = "alphabet" /\ b[3] = AlphabetLength
                   THEN WriteFD(h, b[1]) ELSE Refused(h)
      [] n = 6  -> IF b[3] \in {1, 4, AlphabetLength} THEN ReadFD(h, b[1]) ELSE Refused(h)
      [] n = 8  -> IsError(h, b[1])
      [] n = 9  -> IsTTY(h, b[1])
      [] n = 12 -> FileLength(h, b[1])
      [] n = 13 -> TempName(h, b[2])
      [] n = 14 -> IF b = <<"semihosting-test.b", 18>> THEN RemoveB(h) ELSE Refused(h)
      [] n = 15 -> IF b = <<"semihosting-test.a", 18, "semihosting-test.b", 18>>
                   THEN RenameAB(h) ELSE Refused(h)
      [] n \in {16, 17} -> ClockTest(h)
      [] n = 19 -> LastErrno(h)
      [] n = 21 -> IF b[2] > 19 THEN Query(h, "cmdline") ELSE Refused(h)
      [] n = 22 -> Query(h, "heapInfo")
      [] n \in {24, 32} -> ShowExit(h)
      [] n = 48 -> Elapsed(h)
      [] n = 49 -> TickFrequency(h)
      [] OTHER  -> Refused(h)

Answer(h, request) ==
    LET b == request.params
    IN CASE request.syscall = 1 -> Open(h, b[1], b[2], b[3])
         [] request.syscall = 2 -> CloseFD(h, b[1])
         [] OTHER -> Serve(h, request.syscall, b)
=============================================================================
