# Formal models of the Black Magic test firmware

The repository holds small firmwares that a developer of the Black Magic debug
probe flashes onto evaluation boards to exercise the probe. This directory models
the behaviour of those firmwares in TLA+, model-checks it with TLC and proves the
most important properties with TLAPS. All paths below are relative to `src/`.

## 1. The system

| Part | Source | State | Operations | Modelled |
|---|---|---|---|---|
| Semihosting test suite | `semihosting/stm32f411/semihosting.cxx` | the file handle of the running test, loop counters | `main()`, thirteen tests | `SemihostingSuite` |
| Clock tests | the same, lines 521-639 | timer TIM1, start time, last time, period | `testTimekeeping()`, `testIntervals()` | `ClockTests` |
| Host console | `hostConsole.*`, `consoleHelpers.hxx` | `fdFromHost`, `fdToHost` | open, close, write a text, write a number | `SemihostingSuite`, `HostConsole` |
| System call layer | `syscalls.*`, `syscallTypes.hxx` | none | one wrapper per semihosting call | `Syscalls` |
| Semihosting host | not in the repository (probe and debugger) | open handles, files, last error | answers the calls | `SemihostingHost` (external) |
| K32 L2B startup | `kinetis/k32/l2b/blink/startup.cxx` | RAM sections | reset, NMI, hard fault, default handler | `K32Startup` |
| K32 L2B blink | `blink.cxx`, `constants.hxx`, `k32l2b.hxx` | clock generator, port C | clock mode switch, blink | `K32Blink` |
| STM32F4 SWO | `stm32/f4/swo/swo.c` | TPIU, DWT, ITM registers | trace setup, `itm_write()` | `SwoTrace` |
| STM32F4 serial | `stm32/f4/serial/src/main.rs` | UART, RTT channel | clock tree, blocking write loop, log | `SerialWriter` |
| STM32G0 blink | `stm32/g0/blink/blink.c` | port A | blink | no |
| Build files, linker scripts, newlib stubs | `*/Makefile*`, `*.ld`, `Cargo.*`, `_getpid`, `_kill` | none | none | no: nothing happens at run time |

The firmwares do not interact with each other. Within the semihosting firmware,
`main()` opens the console (two `SYS_OPEN` of `:tt`), runs the tests one after the
other until one fails, reports, closes the console and stops at a breakpoint.
Every test, and every console line, is a series of system calls: `bkpt #0xab` stops
the core, the probe answers and lets it go on. There is one thread, no interrupt is
enabled, and the only shared state is that of the host.

### What is hard about it

* The other side is unreliable. A call may fail at any time, with or without an
  effect, and the suite exists to find hosts that report success and do the wrong
  thing. Which of these does it find, and does it ever complain about a good host?
* The target may be reset by the probe between any two calls. The firmware starts
  over; the host keeps the files and the handles the interrupted run left.
* The thirteen tests share handles, files and the last error: each starts from what
  the one before left. Console lines are system calls as well and touch the same
  last error.
* Errors are reported over the channel whose failure may be the error.
* The clock tests compare two clocks in real time across calls of unknown duration,
  with a calibration loop that retries, in unsigned 32-bit arithmetic.
* Numbers are printed digit by digit on the way out of a recursion.
* The register-level firmwares wait for hardware that goes at its own pace, write
  registers whose effect depends on other registers, and start on whatever a previous
  run or debug session left behind.

`PROJECT.json` lists these as hazards with the line where each bites and the
properties that watch it.

### What makes each part correct

* Suite: success is reported only if the host has no defect the tests are there to
  find; no check fails a good host, those of the two clock tests apart; the verdict
  reaches a live console; no more than one handle leaks; a successful run cleans up;
  every run ends.
* Clock tests: the calibrated period is longer than a call; no comparison fails a good
  host within the tolerance; a host that passes keeps time within a bound; a failed
  call does not pass for an answer; no busy-wait on a stopped counter; the calibration
  tries for eight seconds before giving up.
* Console: the number on the console is the number given; no text is written from
  outside its view; the recursion is bounded.
* System call layer: each request reaches the host as its call is defined.
* K32: statics are initialised before a constructor or `run()` sees them; the range
  of the reference is only changed while the processor runs on the other one, and the
  processor never runs on a clock that is off; the LED blinks for ever, no LED
  flashes before.
* SWO, serial: every character is on the wire once, in order, for ever; the setup
  takes effect whatever it finds; the divisors give the advertised rates; LED and log
  do not get ahead of the text.

## 2. The modules

`Syscalls` is the wrappers: a request is the call's number with the parameter block,
the arguments in the order the array in the wrapper gives them. A pointer to data
stands for what it points at. The wrappers `readChar`, `seek` and `system` have no
caller in the firmware and are left out.

`SemihostingHost` is the host: a record of open handles, two test files, the last
error, a *regression*, the one way in which this host does the wrong thing while
reporting success, and a *mood*, whether calls may also fail honestly. `Answer` reads
a request as the call is defined and gives the set of its outcomes, each a returned
value with the next host state; a request the firmware has no reason to make is
refused. The module is external: its definitions come from what the wrappers and the
checks in `src/` ask for, and a correct host is one that satisfies every check.
Returned values are abstracted to what the code tells apart: success, a short count,
wrong contents, failure, and the handle numbers. Data written to files is abstracted
to absent, empty, part, the alphabet, or the right length with the wrong bytes.

`SemihostingSuite` is the firmware. One action stands for one system call with the
check of its answer and the console lines up to the next call; `pc` names the next
call. `Call` and `Check` are that pattern, `Loop` the calls made in a loop, `OpenAs`
an open whose error line asks for `SYS_ERRNO`. Each test of the source is an
operator of the same name, the disjunction of its calls. The lines printed between
two calls matter only through the last error and through whether the output handle
is a live console: `Lines` has both. `Silent` lists the places where the code prints
nothing in between. The two clock tests are one step each here, which may fail any
host: `ClockTests` says when they do. `Reset` is the probe
resetting the target, possibly after the probe itself got other firmware (another
regression). The variables `told` and `atStart` are history.

`SuiteContract` is the abstract specification: open the console, pass tests one by
one until one fails or none is left, report once, shut down, stop; a restart is
possible any time. `SuiteRefinement` gives the mapping: the phase and the count of
passed tests are read off `pc`.

`ClockTests` is real time in milliseconds. Timer TIM1 is the time of its last
restart, its period register (half milliseconds less one, as in the code), whether
it runs, and the update flag; `TIM1(t, x)` is the timer at time `x`. A call reads
the host's clock some time after it is made and returns, with the line printed after
it, some time later; a host is a record of these delays, its sub-second phase, its
rate and whether its calls may fail. 2^32 is the constant `Word`.

`HostConsole` writes one line of texts and numbers. `frames` are the activations of
`formatTo` and `ret` what the last one returned, so that the order of division,
recursion and output is that of the code. The constant `PowersOfTen` lists the powers
of ten below the word, one for each digit of the largest integer: twenty of them in
the code. The `back()` of an empty `string_view` is
undefined, so the length computed from it is either value.

`K32Startup` is `irqReset()` over RAM, byte by byte: the loops step by words, the
linker's symbols are bytes, and the linker script rounds nothing, so a layout is any
set of symbols. A word access off a word boundary or outside RAM is a hard fault.
`ram` records of every byte whether it holds what was there before the reset, its
initialiser, something else, zero, or what a constructor wrote. `K32Blink` goes on
with `run()`: `mcg` holds the registers of the clock generator with the values of
`constants.hxx`, and the generator (`SwitchMode`) takes up the mode asked for when it
likes. The processor stands still while it runs on a clock that is off. The other
handlers of `startup.cxx` loop for ever; they are not entered, since no interrupt is
enabled and the option byte of `flashConfig` disables the NMI pin. `Blinker` is the
abstract specification of a blinking LED.

`SwoTrace` starts with the trace units as any earlier debug session may have left
them. A unit takes a register write when trace is enabled and its lock is open. The
stimulus port buffers `Depth` characters and drains at its own pace (`Send`).

`SerialWriter` has the USART's data and shift registers, and the RTT channel the log
lines go through: a full buffer drops the line, unless an attached host asked for
blocking and then the firmware waits. Hosts come, read, stop reading and go.
`CharacterStream` is the abstract specification of both printing firmwares: the
characters of a text on a wire, in order, again and again.

`MC*` modules define the constants of the instances. The theorems are in the modules
`*_proofs`, one for each of `ClockTests`, `HostConsole`, `K32Blink`, `SwoTrace` and
`SerialWriter`; those about the suite are in three, each extending the one before:
`SemihostingSuite_proofs` has types, handles and the delivery of the verdict,
`SuiteVerdict_proofs` what the verdict says, `SuiteRefinement_proofs` the contract and
that a run has an end. Operators called *Mutant* next to a definition are the
definition with a plausible bug; each property is shown to fail
with one of them, so that none of the runs passes for want of something to find.

## 3. The runs

| Run | Question | Instance |
|---|---|---|
| `SuiteCorrect` | Does a check other than the clock tests' ever fail a good host, does the run end, in how many steps, and does it implement `SuiteContract`? `NoFalseAlarm`, `RunEnds`, `StepsRunOut`, `KeepsContract`, `TypeOK` | correct host, steady or with failing calls, the real loop bounds (28 characters, 100 codes), two resets |
| `SuiteHostile` | Can a defective or failing host be reported as good, leak handles or lose the verdict? `RegressionCaught`, `LeakBound`, `CleanOnSuccess`, `VerdictDelivered` | all twenty regressions, both moods, three file handles, a misjudged code that is an error, one reset, loops of 2 and 6 |
| `Clock` | How much may the delay of a call vary, how wrong may a clock run, does the calibration work, does a failed call pass for an answer, and do the tests end? `JitterTolerated`, `SteadyHostKeepsTime`, `RateJudged`, `CalibratedPeriodSuffices`, `TriesEightSeconds`, `FailedClockCaught`, `WaitsOnRunningTimer`, `StepsRunOut`, `TypeOK` | four families of hosts: delays up to 55 ms with rates from 950 to 1300 per 1000; lines up to 8 s with failing calls; both; clocks of rate 800 to 2000 with delays that vary by 800 ms |
| `ConsoleNumbers` | Is every number printed right? `NumberShown`, `NoLeadingZero`, `TypeOK` | all integers of a ten-bit word, calls may be lost |
| `K32` | Does the firmware start from any RAM and any layout, switch the clock safely and blink as promised? `StaticsReady`, `AlignedNeverFaults`, `RangeChangedOffClock`, `NeverUnclocked`, `BlinksOnSlowClock`, `OthersDark`, `BlinksSteadily`, `KeepsBlinking`, `TypeOK` | seven layouts in 16 bytes of RAM, two resets, a delay of 3 |
| `Swo` | Is the text on the wire, whatever the trace units were like before? `TakenFromAnyState`, `RateKept`, `PrintsText`, `LEDFollowsWire`, `TypeOK` | every initial state of the units, a port of two characters |
| `Serial` | Is the text on the wire, whatever the RTT host does? `ClockedWithinLimits`, `PrintsInOrder`, `OnlyStalledHostStopsText`, `LogFollowsWire`, `TypeOK` | the 64 characters of the code, a buffer of two lines, two attachments |

What they show, beyond that the properties hold:

* `RegressionCaught` names the defects that remain undetected (`Undetectable`): a
  rename that leaves the old file in place, a close that forgets handles opened for
  reading, and a rename that does nothing when an earlier run left the right file B.
  Two more on a host whose calls also fail honestly: a close that does nothing, when
  the write that has to fail on the closed handle (line 301) fails for another reason;
  and a `SYS_ISERROR` that denies an error code, when that call fails, for the -1 of
  the failure counts as the expected answer (line 394).
* `NoFalseAlarm` says which steps fail a run on a host that does nothing wrong and
  whose calls do not fail: those of the two clock tests, and any when interrupted runs
  have used up the handles of the host. Both exceptions are real. A clock test may fail
  a host that keeps exact time, in ways the next items describe; and the firmware
  cannot close handles of an earlier run. `NoFalseAlarm` is also what fails when a
  wrapper lays its block out wrong.
* `TriesEightSeconds` has a case the comment at `semihosting.cxx:529-530` does not
  know: the test also gives up on a call that neither failed nor was slow. `UINT32_MAX`
  stands for a failure (lines 553 and 557), and in the second 2^32 - 1 (in February
  2106, if the host counts from 1970) it is the right answer. The run reaches that
  second.
* `FailedClockCaught`: in the loop of `testIntervals()` nothing looks at a result of
  -1 but the comparison (line 623), and a failed call is found only because its
  difference to the last time wraps to a huge step. That step is in bounds, and the
  test passes, only when the host's clock has come to within an interval of 2^32 ms,
  seven weeks after the program was started. The loop of
  `testTimekeeping()` has no such property: 2^32 - 1 less `startTime`, times 1000 and
  wrapped, is the expected step not only at the end of the word but whenever
  `startTime` is the right number of seconds, at most 41, before a multiple of 2^29,
  for 1000 is eight times an odd number; a failed call then passes for an answer.
* `JitterTolerated` gives the tolerance of `testIntervals()` in terms of the host:
  40 ms of variation of the delay until the clock is read, the 10 ms steps of
  `SYS_CLOCK` included. `testTimekeeping()` tolerates none at an unlucky phase: it
  compares whole seconds for equality (`semihosting.cxx:576`), so two answers on
  different sides of a second's boundary fail a host that keeps exact time, although
  the comment at line 524 speaks of an approximate rate.
* `RateJudged` bounds what passes: five steps less than a second off, then the last
  interval less than 50 ms off, plus in either case what the host's clock counts in
  the time by which the delay of its readings varied. A clock 38 % fast can so pass
  `testTimekeeping()` if its answers jitter by 0.8 s.
* `StepsRunOut` of the suite gives every state a number of steps, the calls that
  follow it in program order with the rounds its two loops have left, and each step
  that is no reset leaves fewer, on any error path: a run makes at most 173 steps at
  the code's loop bounds, the two clock tests being one each. `StepsRunOut` of the
  clock tests does the same for these. There is one retrying loop, the calibration;
  each retry leaves fewer retries, because the longer period does get to the register,
  so the two tests are over after 19 calls however slow the host is.
* `StaticsReady` and `AlignedNeverFaults` show that word steps over unrounded
  sections do no harm: the word that reaches past `.data` is overwritten by the
  clearing of `.bss`, the one past `.bss` stays within RAM. Two layouts the linker
  script allows are excluded by name. If `.bss` or the end of `.text` is off a word
  boundary, the first access faults (`Aligned`); if `.data` needs a wider alignment
  than the end of `.text` has, its initialisers are not at `endText`, where the loop
  looks for them (`Padded`).
* `RangeChangedOffClock` and `NeverUnclocked` are the reason for the detour through
  HIRC at `blink.cxx:42`. `OthersDark` and `BlinksSteadily` show that the order in
  `gpioSetup()`, latch before direction, lets no LED flash.
* `TakenFromAnyState` shows that each lock is opened before its unit is written, from
  any state an earlier session may have left.
* `OnlyStalledHostStopsText` says what can stop the serial firmware: an RTT host that
  asked for blocking and neither reads nor leaves. Without a host the log line is
  dropped and the text goes on.

Five further runs show a disagreement between the code and what its comments or
names say (two of them, `ConsoleEmpty` and `K32Hirc`, bugs); each checks one property
and is violated:

| Run | Comment | Behaviour |
|---|---|---|
| `HandleKept` | `semihosting.cxx:139-141`, handles are not invalidated, so a failed reopen can be reported | `openConsole()` overwrites `fdToHost` with -1 (`hostConsole.cxx:48`) |
| `StdoutValid` | `semihosting.cxx:708-709`, stdout is still valid when closing the console failed | not when the second close failed, or the handles were dead before |
| `OpenHandle` | `semihosting.cxx:361`, the read after the close should fail | it fails as well on a handle left open, which is at the end of its file |
| `ConsoleEmpty` | `hostConsole.cxx:59-64` with `semihosting.cxx:396-397` | `back()` of an empty text, and possibly a write of `SIZE_MAX` bytes |
| `K32Hirc` | `blink.cxx:53-54`, "clean up" with `miscCtrlHIRClkDisabled` | the constant has the value of `miscCtrlHIRClkEnabled` (`constants.hxx:99-100`): the reference stays on |

Met while modelling, with nothing for a run to show: the comment at
`main.rs:45` says 96 MHz, the values below it give 84; `UART_DATA` lacks the letter
n; the comments at `blink.cxx:61`, `63` and `73` name pins 1 to 3 and 1, the masks
are those of pins 0 to 2 and 0; `semihosting.cxx:89-91` calls `SYS_READC` the one
call that cannot be tested, but `SYS_SEEK` and `SYS_SYSTEM` are never made either.

### Bounds

* Two file handles beside the console's two in `SuiteCorrect`: a run uses one, so that
  a leaked handle in one run and exhaustion in the next both happen. Three in
  `SuiteHostile`: with two, a close that does nothing uses them up before the run can
  succeed, and it would seem to be found always. Numbers 3 to 5 stand for any.
* `MaxResets`: an interrupted run needs one reset to be seen by a second run; two
  resets let both handles be used up. `Reset` stops at the bound.
* Loops of 2 and 6 in `SuiteHostile`: first, middle and last round differ, and 6
  codes contain errors and non-errors, the misjudged one among them: it is an error in
  `SuiteHostile`, where the answer of a failed call is the expected one, and not in
  `SuiteCorrect`, which has the code's 28 and 100.
* Errors that only set the last error are one (`EIO`) plus the three that the tests
  tell apart.
* `Word` is 2^20 in `ClockTests`, so that TLC's integers hold a thousand times it;
  the epoch is four seconds before the wrap. The longest run of the test is below
  100 s, the assumption on `Word` says so.
* Delays, phases and rates are sets chosen around the limits: 40 and 55 ms about the
  tolerance, phases 945, 997 and 999 about the second's boundary, lines of 7.5 and
  8 s about the last calibration period, and of 3 s, after which the calibration asks
  again in the second `Word` - 1.
* Ten-bit integers reach four digits and both extremes of the signed range, so that
  `PowersOfTen` is 1, 10, 100 and 1000; the proofs cover the real size.
* `RAMBytes` 16 holds sections that are empty, end within a word, touch each other,
  fill RAM to its last byte, or start off a word boundary, each one a layout of
  `SomeLayouts`. A delay of 3 has a first, a middle and a last iteration. The second
  reset interrupts a run that itself began with a reset.
* `Depth` 2: the port is empty, in between and full.
* `RTTLines` 2: the buffer is empty, in between and full; `MaxAttach` 2: a host comes
  back to a buffer an earlier one left full.

### Fairness

`FairSpec` assumes weak fairness of `main`, the firmware's next step. The processor
runs on whenever the probe has answered, and the probe answers every call: without
that a semihosting program stands still by design, and nothing could be promised.
No fairness is assumed of `Reset` nor of what a call answers. All that `RunEnds` adds
to `StepsRunOut`, which needs no fairness, is that there always is a next step and that
it is taken. The clock and console modules have no liveness properties.

In `K32Blink` the processor goes on while its clock runs, and the clock generator
gets to the mode asked for if the reference for it is on: weak fairness of `Firmware`
and `SwitchMode`, for each is enabled until it happens. In `SwoTrace` processor and
trace units go on (`main`, `Send`), in `SerialWriter` processor and UART; a reading
RTT host reads on (`HostReads`), but nothing makes a host come, stall or leave.
`SuiteContract` and `CharacterStream` contain the progress they promise, so the
refinements show liveness as well; `KeepsBlinking` states it for the LED.

Deadlock is checked everywhere. The states where the program really stops, the
final breakpoint, a returned `main()` and the end of a line or test, have explicit
stuttering steps (`Parked`, `Done`).

`main()` returning hands control to the startup code of libopencm3, which is not in
the repository; the comment at line 705 expects it to restart the test. The model
parks there, and `Reset` covers a restart.

## 4. The proofs

| Module | Theorem | Statement |
|---|---|---|
| `SemihostingSuite_proofs` | `TypeCorrect` | `Spec => []TypeOK` |
| | `OneFileAtMost` | `Spec => []LeakBound` |
| | `VerdictNotLost` | `Spec => []VerdictDelivered` |
| `SuiteVerdict_proofs` | `RegressionsCaught` | `Spec => []RegressionCaught` |
| | `SuccessIsClean` | `Spec => []CleanOnSuccess` |
| | `GoodHostPasses` | `Spec => NoFalseAlarm` |
| `SuiteRefinement_proofs` | `ContractKept` | the firmware implements the safety part of `SuiteContract` |
| | `RunIsFinite` | `Spec => StepsRunOut` |
| `ClockTests_proofs` | `ClockTypes`, `RunningTimer` | `Spec => []TypeOK`, `Spec => []WaitsOnRunningTimer` |
| | `CalibrationSuffices`, `EightSecondsTried` | `Spec => []CalibratedPeriodSuffices`, `Spec => []TriesEightSeconds` |
| | `FailedClocksCaught` | `Spec => []FailedClockCaught` |
| | `SteadyHostPasses`, `JitterIsTolerated` | `Spec => []SteadyHostKeepsTime`, `Spec => []JitterTolerated` |
| | `RateIsJudged` | `Spec => []RateJudged`, under `RatesToTell` |
| | `ClockTestsEnd` | `Spec => StepsRunOut` |
| `HostConsole_proofs` | `ConsoleTypes`, `NumbersShown` | `Spec => []TypeOK`, `Spec => []NumberShown` |
| | `NoZeroLeads`, `StackBounded` | `Spec => []NoLeadingZero`, `Spec => []DepthBounded` |
| `K32Blink_proofs` | `FirmwareTypes` | `Spec => []TypeOK` |
| | `StaticsStayReady`, `AlignedStaysFaultless` | `Spec => []StaticsReady`, `Spec => []AlignedNeverFaults` |
| | `ProcessorClocked`, `BlinkClockSlow` | `Spec => []NeverUnclocked`, `Spec => []BlinksOnSlowClock` |
| | `RangeChangedSafely` | `Spec => RangeChangedOffClock` |
| | `OthersStayDark`, `Steady` | `Spec => []OthersDark`; `Spec => BlinksSteadily`: the firmware implements `Blinker` |
| `SwoTrace_proofs` | `TraceTypes`, `RegistersTaken`, `RateStaysKept` | `Spec => []TypeOK`, `Spec => []TakenFromAnyState`, `Spec => []RateKept` |
| | `TextInOrder`, `LEDBehindWire` | the safety part of `PrintsText`; `Spec => LEDFollowsWire` |
| `SerialWriter_proofs` | `WriterTypes`, `RateWithinLimits` | `Spec => []TypeOK`, `Spec => []ClockedWithinLimits` |
| | `TextInOrder`, `LogBehindWire` | `Spec => PrintsInOrder`; `Spec => LogFollowsWire` |

They hold for every set of file handles above 2, every set of regressions, reliable
or failing calls, every loop length, any number of resets, any word size and any
lines; those about the clock tests for any hosts with any delays, phases, rates and
epoch; those about the K32 for RAM of any number of words, any linker layouts and any
delay; those about the SWO and serial firmwares for any depth of the port, text
length, RTT buffer and number of attachments. The assumptions are the named ones of
the modules: `HostAssumption`, `SuiteAssumption`, `ClockAssumption`,
`ConsoleAssumption`, `RAMAssumption`, `ResetAssumption`, `LayoutAssumption`,
`DelayAssumption`, `DepthAssumption` and `SerialAssumption`.

One theorem has a hypothesis besides: `RatesToTell`, fifty times the rate of each
host's clock is at most `Word`. A clock that gains a whole 2^32 between two answers
looks right to an unsigned difference. With the 2^32 of the code the bound is a clock
85000 times too fast; the hosts of the `Clock` run meet it.

*Suite.* A step of the firmware is classified by what it does to handles
(`StepKind`): nothing, closing the test's file, opening it, opening or closing an end
of the console, the report. One lemma per test shows that its calls are of these
kinds, another per kind that it keeps the invariants, so that no invariant is proved
call by call.

`LeakBound` is not inductive: it allows a file to be open in `fd` anywhere, and the
next open would then lose track of it. `LeakInv` strengthens it: outside the labels
where a test holds its file (`HoldLabels`) this run has nothing open at all.

`VerdictDelivered` needs to know why closing the console proves that the report was
seen. `ReportInv` has it: the output handle is -1 or the fixed number the host gives
the output end, on which nothing else is ever opened; and while the console is being
closed the verdict was told or that handle is dead. A close of a dead handle fails,
and the program then returns instead of reaching its breakpoint.

*Verdict.* `CatchInv` follows a regression through the run. The sets `PastX` hold the
labels behind the check of the name, and `Excluded` says which regression the host
then cannot have. Most checks exclude theirs on the spot. Some find a wrong that was
done earlier, and `Evidence` carries it from the operation to the check: a write that
went wrong leaves a file A that is not the alphabet until the rename, then a file B
until the read; a remove that does nothing leaves file B until the errno test opens
it. `Cleaned` has the files and handles of a correct host, and `Reported` that nothing
is tested after the report. `SmoothInv` is the other direction, a run on a good host:
the console is live, each test's file is open on what it should be, the files have
the right contents, so each check but the clock tests' passes, and one of these is the
only way to a failure label (`OnlyClocksFail`). Both rest on `LeakInv` and `ReportInv`.

The proof of `RegressionsCaught` did not go through at first, for the right reason. On
a host whose calls fail, an undone close and a misjudged error code remain undetected
in the way section 3 describes; the earlier bounds of `SuiteHostile` hid both, two
handles the one and a misjudged code that is no error the other. `Undetectable` names
them now, and the bounds of the run reach them.

*Contract.* `PhaseAt` and `PassedAt` give the state of the contract at every label;
`MappedByLabel` shows that it is what the mapping of `SuiteRefinement` gives. From a
call of test `t` a step leads to a call of the same test, to the first of the next
one or to `passed`, or to `failed`: a stutter, a `Pass` or a `Fail` of the contract.
The other steps of `main()` are taken one by one.

*End of the run.* `ProgramOrder` lists the calls as they stand in the program.
`TestsOnward` and `MainOnward` show that a step leads further down that list, to the
next round of the same call, or out of the program; `FewerSteps` that either leaves
fewer steps, for a loop behind has no rounds left and one ahead has them all. This is
the variant of a termination proof. The conclusion from it is an induction over the
number, and `RunEnds` itself stays with TLC.

*Clock tests.* `PeriodInv` has the timer's period in each round, `StartInv` where a
period has just begun. `SecondsInv` and `CentisInv` say which moment a compared
reading belongs to: one of the delays seen after the start of a period, `round`
periods ago in the one loop, the running period in the other. What the two tests
accept or refuse follows by arithmetic on the host's clock, with the wrap of the
seconds: `SteadyHostKeepsTime` because equal delays give equal fractions of a second,
`JitterTolerated` from the difference of two delays and one 10 ms step, `RateJudged`
from the same in the other direction. Here too a property was wrong: its bound did not
count what a wrong clock advances in the time of the jitter itself. `StepsCounted` has
the steps left at each place: with `PeriodInv` the period register of the calibration
is that of a number of seconds from 1 to 8, and each retry adds one. `LostInv` is
behind `FailedClockCaught`: the time compared with was read in the past, by a clock
that does not go back, so that a -1 once accepted (`AcceptedNear`) leaves the clock
near the word's end for the rest of the test.

*Console.* `NumberInv` relates the digits written to the activations still open:
each activation has the leading digits of the one around it (`Nested`), the value of
the digits written is what the last activation returned (`Progress`), and a finished
number is complete with its sign (`Complete`). `MagnitudeAbsolute` shows that the
complement plus one is the absolute value in a word of any size, so the most negative
integer is covered. `DepthInv` bounds the recursion: the i-th activation times the i-th
power of ten is below the word, since every activation but the innermost has two digits
or more, and a power for a further one would not be. `DigitsInv` counts the digits the
other way, on the way out: as many as activations have returned, and a value not below
the power of that many. The powers are a constant sequence and not `10^n`, because the
provers know nothing of a power with a variable exponent and its laws need induction.

*K32.* Three inductive invariants, one for each thing `run()` relies on. `StartInv`
says how far the loops are: the bytes below `dst` are copied, or cleared, and the
clearing leaves the copied ones alone because `.bss` starts where `.data` ended or
later. That the last word reaches past the end of a section and still stays in RAM
needs that `dst` and the size of RAM are both multiples of four, which is why the
alignment of `dst` is part of it. `ClockInv` gives the registers at every label; the
generator may take up the mode asked for at any moment, so in the mode loops the
status may already be the new one only if `ctrl1` asked for it. `PortInv` has the
levels before the directions. `Steady` follows from `PortInv`: before the loop the LED
is dark and nothing is seen, in it every step is `Hold`, `Flip` or a stutter, and a
reset is `Darken`.

*SWO and serial.* `SetupInv` has, at each point of `swo_setup()`, which units are
unlocked and which registers have been taken. `TextInv` says that the port's buffer
continues the text on the wire, that the character to print continues the buffer, and
that there is room for a character about to be written; a step of the firmware then
leaves the wire alone and `Send` is the stream's next character. `OrderInv` is the
same for the serial firmware through the UART's shift and data registers, and
`RateInv` has the clock and the divisor at each point of `main()`.

Only model-checked is liveness, which is beyond the prover: `RunEnds`, `KeepsBlinking`,
`OnlyStalledHostStopsText` and the progress part of `KeepsContract` and `PrintsText`.
Every invariant and every action property the passing runs check is a theorem.
One theorem, `StackBounded`, is of a property no run checks, the depth of the
recursion: `NoLeadingZero` fails with the same bug.

## 5. Not modelled

* The breakpoint instruction and register passing; the wording of lines; the lengths
  of buffers on the stack; contents beyond what checks tell apart; `readChar`, `seek`
  and `system`, never called; the exit codes of `testExits()`, of which nothing is
  checked; whether a `SYS_WRITE` to a live console took effect, which the firmware
  does not look at: `VerdictDelivered` is about the handle; `_getpid`
  and `_kill`, which return constants.
* libopencm3, embassy, the RTT and panic crates: their effect is modelled where the
  firmwares depend on it, as external definitions.
* The STM32G0 blinker, a libopencm3 example of two library calls and the loop that
  `K32Blink` already shows to be a `Blinker`; nothing in it depends on an order or on
  another actor.
* The pin multiplexer of the K32: `blink.cxx:59-65` writes no pin control register of
  port C, so that the pins being GPIO is assumed of the device. The divisor of the
  UART: `main.rs:68` gives the rate, and embassy computes the divisor as `uartInit`
  does.
* Bits of the clock generator's registers that do not concern the processor's clock;
  the dividers, which all are 1; the contents of the vector table beyond the reset
  entry, since no other exception but the hard fault is taken; the breakpoint of
  `irqHardFault()`, beyond that the program stops there.
* Build files: nothing happens at run time. What the K32 linker script leaves open is
  the constant `Layouts`.

## 6. Plan

1. Done: the semihosting firmware with system call layer, contract, clock tests and
   console; the K32, SWO and serial firmwares with their abstract specifications; the
   theorems above.
2. Done: every safety property of every passing run is a theorem, and so are the
   variants behind the end of a test run and of the clock tests.
3. Left: weaker conditions than `RatesToTell` under which `RateIsJudged` holds.
