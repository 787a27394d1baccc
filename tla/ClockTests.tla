----------------------------- MODULE ClockTests -----------------------------
(***************************************************************************)
(* testTimekeeping() and testIntervals() of                                *)
(* src/semihosting/stm32f411/semihosting.cxx: the host's SYS_TIME (seconds)*)
(* and SYS_CLOCK (hundredths of a second) are held against timer TIM1.     *)
(*                                                                         *)
(* Time is real time in milliseconds.  A system call reads the host's clock*)
(* some time after it is made, and returns, with the line printed after it,*)
(* some time later; both delays vary from call to call.                    *)
(***************************************************************************)
EXTENDS Integers

CONSTANTS
    Hosts,    \* the hosts the firmware may meet
    Epoch,    \* the host's seconds when the test starts
    Word      \* 2^32 in the code

(***************************************************************************)
(* A host has                                                              *)
(*   phase   how far into a second it is when the test starts              *)
(*   rate    the milliseconds its clock counts in 1000 real ones           *)
(*   before  the delays from a call to the reading of its clock            *)
(*   after   the delays from the reading to the end of the line printed    *)
(*           after it                                                      *)
(*   lossy   whether a call may fail                                       *)
(***************************************************************************)
ASSUME ClockAssumption ==
    /\ Hosts \subseteq [phase : Nat, rate : Nat, before : (SUBSET Nat) \ {{}},
                      after : (SUBSET Nat) \ {{}}, lossy : BOOLEAN]
    /\ Epoch \in Nat
    /\ Word \in Nat /\ Word > 100000

VARIABLES
    at,         \* where the firmware is
    now,        \* real time
    host,       \* the host of this run
    tim,        \* TIM1: enabled, time of the last restart, period register, UIF
    startTime,  \* testTimekeeping's startTime
    wallTime,   \* testIntervals' wallTime
    period,     \* testIntervals' period
    round,      \* iteration, of both loops
    delays      \* the calls of the running test so far (history)

clockVars == <<at, now, host, tim, startTime, wallTime, period, round, delays>>

UINT32_MAX == Word - 1
Wrap(n)    == n % Word

\* The period register counts half milliseconds, less 1.
PeriodOf(t) == (t.arr + 1) \div 2

\* TIM1 at time x: an upcounter that starts over after each period, raising
\* UIF.  The period register is not preloaded: it takes effect when written.
TIM1(t, x) ==
    IF t.enabled /\ x >= t.base + PeriodOf(t)
    THEN [t EXCEPT !.uif = TRUE,
                   !.base = @ + PeriodOf(t) * ((x - @) \div PeriodOf(t))]
    ELSE t

\* TIM1 when UIF is first seen by a loop polling it from time x on, and that
\* time.
WaitUIF(t, x) == IF t.uif THEN x ELSE t.base + PeriodOf(t)

HostMs(x)      == host.phase + (x * host.rate) \div 1000
HostSeconds(x) == Wrap(Epoch + HostMs(x) \div 1000)
HostCentis(x)  == HostMs(x) \div 10

\* Whether a call fails; it answers -1 then.
Losses == IF host.lossy THEN BOOLEAN ELSE {FALSE}

-----------------------------------------------------------------------------
NoDelays == [min |-> 0, max |-> 0, longest |-> 0, calls |-> 0,
             slow |-> FALSE, lost |-> FALSE]

\* A further call with delays a and b in a period p.
Noted(d, a, b, p, lost) ==
    [min   |-> IF d.calls = 0 \/ a < d.min THEN a ELSE d.min,
     max   |-> IF d.calls = 0 \/ a > d.max THEN a ELSE d.max,
     longest |-> IF a + b > d.longest THEN a + b ELSE d.longest,
     calls |-> d.calls + 1,
     slow  |-> d.slow \/ a + b >= p,
     lost  |-> d.lost \/ lost]

Jitter == delays.max - delays.min

Init ==
    /\ at = "timekeeping"
    /\ now = 0
    /\ host \in Hosts
    /\ tim = [enabled |-> FALSE, base |-> 0, arr |-> 1999, uif |-> FALSE]
    /\ startTime = 0 /\ wallTime = 0 /\ period = 0 /\ round = 0
    /\ delays = NoDelays

\* timer_enable_counter, timer_clear_flag.
startTimekeeping ==
    /\ at = "timekeeping"
    /\ tim' = [tim EXCEPT !.enabled = TRUE, !.base = now, !.uif = FALSE]
    /\ at' = "calibrate"
    /\ UNCHANGED <<now, host, startTime, wallTime, period, round, delays>>

\* Mutant: the flag is looked at before the line is printed.
expiredTooEarly(a, b) == TIM1(tim, now + a).uif

\* The timer expired while the time was retrieved and printed.
expired(a, b) == TIM1(tim, now + a + b).uif

\* Mutant: the period grows by two seconds at a time.
retryDoubleStep(t, x) == [t EXCEPT !.arr = t.arr + 4000, !.base = x, !.uif = FALSE]

\* Mutant: the longer period does not get to the register.
retrySamePeriod(t, x) == [t EXCEPT !.base = x, !.uif = FALSE]

\* period += 2000; timer_set_period; timer_generate_event; timer_clear_flag.
retry(t, x) == [t EXCEPT !.arr = t.arr + 2000, !.base = x, !.uif = FALSE]

\* The period register's largest value in the calibration.
furtherPeriod(t) == t.arr < 17999

\* One round of the calibration loop.  UINT32_MAX, from a failed call, from
\* giving up or from a host whose clock shows just that second, fails the test
\* and leaves the counter enabled.
calibrate ==
    /\ at = "calibrate"
    /\ \E a \in host.before, b \in host.after, lost \in Losses :
        LET time == IF lost THEN UINT32_MAX ELSE HostSeconds(now + a)
        IN  /\ now' = now + a + b
            /\ delays' = Noted(NoDelays, a, b, PeriodOf(tim), lost)
            /\ IF expired(a, b)
               THEN /\ tim' = retry(tim, now')
                    /\ at' = IF furtherPeriod(tim') THEN "calibrate" ELSE "noTimer"
                    /\ startTime' = IF furtherPeriod(tim') THEN startTime ELSE UINT32_MAX
               ELSE /\ tim' = tim
                    /\ at' = IF time = UINT32_MAX THEN "noTimer" ELSE "time"
                    /\ startTime' = time
    /\ UNCHANGED <<host, wallTime, period, round>>

\* Mutant: the seconds are taken apart in a wider type.
stepMatchesWider(time) == (time - startTime) * 1000 = PeriodOf(tim) * (round + 1)

stepMatches(time) ==
    Wrap((time - startTime) * 1000) = PeriodOf(tim) * (round + 1)

\* Mutant: a sixth round.
lastRoundLate == round = 5

lastRound == round + 1 = 5

\* One of five rounds: wait for the counter to expire, clear the flag, get the
\* time, print it and compare.
timeRound ==
    /\ at = "time"
    /\ tim.uif \/ tim.enabled
    /\ LET x == WaitUIF(tim, now)
           t == [TIM1(tim, x) EXCEPT !.uif = FALSE]
       IN \E a \in host.before, b \in host.after, lost \in Losses :
            LET time == IF lost THEN UINT32_MAX ELSE HostSeconds(x + a)
            IN  /\ now' = x + a + b
                /\ delays' = Noted(delays, a, b, PeriodOf(tim), lost)
                /\ IF ~stepMatches(time)
                   THEN /\ at' = "wrongTime" /\ round' = round
                        /\ tim' = [TIM1(t, now') EXCEPT !.enabled = FALSE]
                   ELSE IF lastRound
                   THEN /\ at' = "intervals" /\ round' = 0
                        /\ tim' = [TIM1(t, now') EXCEPT !.enabled = FALSE]
                   ELSE /\ at' = "time" /\ round' = round + 1
                        /\ tim' = TIM1(t, now')
    /\ UNCHANGED <<host, startTime, wallTime, period>>

\* Mutant: the counter is restarted but not enabled again.
restartTimerDisabled ==
    tim' = [tim EXCEPT !.base = now, !.uif = FALSE]

\* timer_enable_counter, timer_generate_event, timer_clear_flag.
restartTimer ==
    tim' = [tim EXCEPT !.enabled = TRUE, !.base = now, !.uif = FALSE]

startIntervals ==
    /\ at = "intervals"
    /\ restartTimer
    /\ at' = "firstClock"
    /\ UNCHANGED <<now, host, startTime, wallTime, period, round, delays>>

\* The first time point.  A failed call ends the test.
firstClock ==
    /\ at = "firstClock"
    /\ \E a \in host.before, b \in host.after, lost \in Losses :
        LET time == IF lost THEN -1 ELSE HostCentis(now + a)
        IN  /\ now' = now + a + b
            /\ wallTime' = time
            /\ delays' = Noted(NoDelays, a, b, PeriodOf(tim), lost)
            /\ IF time = -1
               THEN /\ at' = "noClock" /\ period' = period
                    /\ tim' = [tim EXCEPT !.enabled = FALSE]
               ELSE /\ at' = "interval" /\ period' = PeriodOf(tim)
                    /\ tim' = TIM1(tim, now')
    /\ UNCHANGED <<host, startTime, round>>

\* Mutant: the upper limit is missing.
intervalNotTooShort(time) == Wrap((time - wallTime) * 10) >= period - 40

\* Mutant: the lower limit is missing.
intervalNotTooLong(time) == Wrap((time - wallTime) * 10) <= period + 40

\* Within 40 ms of the timer, in unsigned arithmetic.
intervalMatches(time) ==
    LET timestep == Wrap((time - wallTime) * 10)
    IN timestep >= period - 40 /\ timestep <= period + 40

\* Mutant: the register gets the period in milliseconds.
halfTicksUnscaled(ms) == ms - 1

halfTicks(ms) == 2 * ms - 1

\* By as much the interval grows.
longer(ms) == ms + 150

\* One of five rounds, each compared with the one before; the interval grows
\* by 150 ms each time, while the counter is running.
intervalRound ==
    /\ at = "interval"
    /\ tim.uif \/ tim.enabled
    /\ LET x == WaitUIF(tim, now)
           t == [TIM1(tim, x) EXCEPT !.uif = FALSE]
       IN \E a \in host.before, b \in host.after, lost \in Losses :
            LET time == IF lost THEN -1 ELSE HostCentis(x + a)
            IN  /\ now' = x + a + b
                /\ delays' = Noted(delays, a, b, PeriodOf(tim), lost)
                /\ IF ~intervalMatches(time)
                   THEN /\ at' = "wrongClock"
                        /\ tim' = [TIM1(t, now') EXCEPT !.enabled = FALSE]
                        /\ UNCHANGED <<wallTime, period, round>>
                   ELSE /\ wallTime' = time
                        /\ period' = longer(period)
                        /\ round' = round + 1
                        /\ at' = IF lastRound THEN "passed" ELSE "interval"
                        /\ tim' = [TIM1(t, now') EXCEPT !.arr = halfTicks(period'),
                                                        !.enabled = ~lastRound]
    /\ UNCHANGED <<host, startTime>>

Ended == {"noTimer", "wrongTime", "noClock", "wrongClock", "passed"}
Done  == at \in Ended /\ UNCHANGED clockVars

testTimekeeping == startTimekeeping \/ calibrate \/ timeRound
testIntervals   == startIntervals \/ firstClock \/ intervalRound

Next == testTimekeeping \/ testIntervals \/ Done

Spec == Init /\ [][Next]_clockVars

-----------------------------------------------------------------------------
\* Every variable has its type.
TypeOK ==
    /\ at \in {"timekeeping", "calibrate", "time", "intervals", "firstClock",
              "interval"} \cup Ended
    /\ now \in Nat /\ host \in Hosts
    /\ tim \in [enabled : BOOLEAN, base : 0 .. now, arr : Nat, uif : BOOLEAN]
    /\ startTime \in 0 .. UINT32_MAX /\ wallTime \in Int /\ period \in Nat
    /\ round \in 0 .. 5
    /\ delays \in [min : Nat, max : Nat, longest : Nat, calls : Nat,
                   slow : BOOLEAN, lost : BOOLEAN]

\* Calls that failed, or were so slow that an expiry of the counter was missed.
Disturbed == delays.lost \/ delays.slow

\* No comparison of testTimekeeping fails a host that keeps time and always
\* takes the same time to read its clock, whatever the calibrated period, the
\* host's phase, and a wrap of the seconds in between (semihosting.cxx:576).
SteadyHostKeepsTime ==
    at = "wrongTime" => host.rate # 1000 \/ Disturbed \/ Jitter > 0

\* No comparison of testIntervals fails a host that keeps time when the delay
\* until its clock is read varies by no more than the 40 ms of the comment, the
\* 10 ms steps of SYS_CLOCK and the growing interval notwithstanding.
JitterTolerated ==
    at = "wrongClock" => host.rate # 1000 \/ Disturbed \/ Jitter > 40

Off(r) == IF r > 1000 THEN r - 1000 ELSE 1000 - r

\* A host that passes does keep time: over the five time steps its clock is off
\* by no more than a second, and over the last, longest interval by no more than
\* the tolerance with one step of the clock, plus in either case what it counts
\* in the time by which the delay of its readings varied.
RateJudged ==
    ~Disturbed =>
        /\ at = "intervals" =>
              Off(host.rate) * 5 * PeriodOf(tim) <= 1000 * 1000 + Jitter * host.rate
        /\ at = "passed" => Off(host.rate) * (period - 150) <= 1000 * 50 + Jitter * host.rate

\* The period calibrated for is longer than the call and the line printed
\* after it took, so that the first expiry of the time loop ends the period
\* in which startTime was read.
CalibratedPeriodSuffices ==
    at = "time" /\ round = 0 => delays.longest < PeriodOf(tim) /\ ~tim.uif

\* The call just made read the very second whose number stands for a failure.
SentinelAnswered == HostSeconds(now - delays.longest + delays.min) = UINT32_MAX

\* The calibration gives up only when a call did fail, when one took the eight
\* seconds the comment promises to try (semihosting.cxx:529-530), or when the
\* host's answer, right as it was, is taken for a failure: the second 2^32 - 1
\* is the value that stands for one (:553, :557).
TriesEightSeconds ==
    at = "noTimer" => delays.lost \/ delays.longest >= 8000 \/ SentinelAnswered

\* A failed SYS_CLOCK answers -1, which nothing but the comparison looks at
\* (semihosting.cxx:619-623).  testIntervals passes with one only when the
\* host's clock has come to within an interval of 2^32 milliseconds.
FailedClockCaught ==
    at = "passed" /\ delays.lost => HostCentis(now) * 10 + period + 50 >= Word

\* The steps that may follow: up to eight calls to calibrate, five comparisons
\* of seconds, and one call and five comparisons of hundredths.
StepsLeft ==
    CASE at = "timekeeping" -> 21
      [] at = "calibrate"   -> 12 + (17999 - tim.arr) \div 2000
      [] at = "time"        -> 12 - round
      [] at = "intervals"   -> 7
      [] at = "firstClock"  -> 6
      [] at = "interval"    -> 5 - round
      [] OTHER              -> 0

\* Every step brings the tests closer to their end: a retry of the calibration
\* leaves fewer retries, and the two tests are over after 19 calls, whatever
\* the host's delays.
StepsRunOut == [][StepsLeft' \in 0 .. StepsLeft - 1]_clockVars

\* The loops that poll UIF do so while the counter runs.
WaitsOnRunningTimer == at \in {"time", "interval"} => tim.enabled
=============================================================================
