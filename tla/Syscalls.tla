------------------------------ MODULE Syscalls ------------------------------
(***************************************************************************)
(* The system call layer of the semihosting firmware,                      *)
(* src/semihosting/stm32f411/syscalls.cxx: each wrapper lays its arguments *)
(* out in the parameter block its call is defined with and executes        *)
(* `bkpt #0xab` with the call's number in r0 and the block's address in r1.*)
(* A request is that pair.  An address stands for what is found there, so a*)
(* pointer to a single value is a block of one; a null pointer is an empty *)
(* block.                                                                  *)
(*                                                                         *)
(* The wrappers readChar, seek and system have no caller and are left out. *)
(***************************************************************************)
EXTENDS Integers

\* enum class Syscall.
Syscall ==
    [open |-> 1, close |-> 2, writeChar |-> 3, writeNulStr |-> 4, write |-> 5,
     read |-> 6, isError |-> 8, isTTY |-> 9, fileLength |-> 12, tempName |-> 13,
     remove |-> 14, rename |-> 15, clock |-> 16, time |-> 17, lastErrno |-> 19,
     readCommandLine |-> 21, heapInfo |-> 22, exit |-> 24, exitExtended |-> 32,
     elapsed |-> 48, tickFrequency |-> 49]

\* enum class OpenMode.
OpenMode ==
    [read |-> 0, readBinary |-> 1, readPlus |-> 2, readBinaryPlus |-> 3,
     write |-> 4, writeBinary |-> 5, writePlus |-> 6, writeBinaryPlus |-> 7,
     append |-> 8, appendBinary |-> 9, appendPlus |-> 10, appendBinaryPlus |-> 11]

\* ExitReason::applicationExit.
applicationExit == 131110

\* A string view or a span: what its data pointer finds, and its length in bytes.
View(data, length) == [data |-> data, length |-> length]

semihostingSyscall(syscall, params) == [syscall |-> syscall, params |-> params]
-----------------------------------------------------------------------------
open(path, mode) ==
    semihostingSyscall(Syscall.open, <<path.data, mode, path.length>>)

close(fd) == semihostingSyscall(Syscall.close, <<fd>>)

writeChar(chr)   == semihostingSyscall(Syscall.writeChar, <<chr>>)
writeNul(string) == semihostingSyscall(Syscall.writeNulStr, <<string>>)

write(fd, span) == semihostingSyscall(Syscall.write, <<fd, span.data, span.length>>)
read(fd, span)  == semihostingSyscall(Syscall.read, <<fd, span.data, span.length>>)

isError(status) == semihostingSyscall(Syscall.isError, <<status>>)
\* The bool that isError() makes of what the call returns.
SaysError(result) == result # 0

isTTY(fd)      == semihostingSyscall(Syscall.isTTY, <<fd>>)
fileLength(fd) == semihostingSyscall(Syscall.fileLength, <<fd>>)

\* Mutant: the buffer's size where the target's number belongs.
tempNameSwapped(fileName, targetID) ==
    semihostingSyscall(Syscall.tempName, <<fileName.data, fileName.length, targetID>>)

tempName(fileName, targetID) ==
    semihostingSyscall(Syscall.tempName, <<fileName.data, targetID, fileName.length>>)

remove(path) == semihostingSyscall(Syscall.remove, <<path.data, path.length>>)

rename(oldName, newName) ==
    semihostingSyscall(Syscall.rename,
                       <<oldName.data, oldName.length, newName.data, newName.length>>)

clock     == semihostingSyscall(Syscall.clock, <<>>)
time      == semihostingSyscall(Syscall.time, <<>>)
lastErrno == semihostingSyscall(Syscall.lastErrno, <<>>)

readCommandLine(commandLine) ==
    semihostingSyscall(Syscall.readCommandLine, <<commandLine.data, commandLine.length>>)

heapInfo(infoBlock) == semihostingSyscall(Syscall.heapInfo, <<infoBlock>>)

\* SYS_EXIT takes the reason itself in r1, SYS_EXIT_EXTENDED a block.
exit(reason) == semihostingSyscall(Syscall.exit, reason)
exitExtended(reason, statusCode) ==
    semihostingSyscall(Syscall.exitExtended, <<reason, statusCode>>)

elapsedTime(ticks) == semihostingSyscall(Syscall.elapsed, <<ticks>>)
tickFrequency      == semihostingSyscall(Syscall.tickFrequency, <<>>)
=============================================================================
