-------------------------- MODULE ClockTests_proofs --------------------------
(***************************************************************************)
(* Proofs about ClockTests, for any hosts, any epoch and any word above    *)
(* 100000: types, the timer, the calibration, what the two tests say of a  *)
(* host's clock, and that they come to an end.                             *)
(*                                                                         *)
(* The parts are arithmetic of wrapped and rounded numbers, the timer, the *)
(* types (TypeInv), the comparison of a clock with the timer (Judged       *)
(* lemmas), for each step of the tests what it makes of SecondsInv and     *)
(* CentisInv, and what a failed call leaves behind (LostInv).  Where a     *)
(* definition here does no more than name an arithmetic fact, it keeps its *)
(* numerals out of the provers' sight.                                     *)
(***************************************************************************)
EXTENDS ClockTests, TLAPS

\* A multiple of the modulus that is smaller is none.
LEMMA SmallMultiple ==
  ASSUME NEW w \in Nat \ {0}, NEW k \in Int, w * k < w, w * k > -w
  PROVE  k = 0
<1>1. CASE k >= 1
  BY <1>1, SMTT(30)
<1>2. CASE k <= -1
  BY <1>2, SMTT(30)
<1> QED
  BY <1>1, <1>2

\* A number has one quotient and one remainder.
LEMMA OneRemainder ==
  ASSUME NEW w \in Nat \ {0}, NEW d \in Int, NEW e \in Int,
         NEW r \in 0 .. w - 1, NEW s \in 0 .. w - 1, w * d + r = w * e + s
  PROVE  d = e /\ r = s
<1> DEFINE wd == w * d
           we == w * e
           k == d - e
           m == w * k
<1>1. m = wd - we /\ k \in Int /\ wd \in Int /\ we \in Int /\ wd + r = we + s
  BY SMTT(30)
<1> HIDE DEF wd, we
<1>2. m < w /\ m > -w
  BY <1>1
<1> HIDE DEF k
<1>3. k = 0
  BY <1>1, <1>2, SmallMultiple
<1> QED
  BY <1>3, <1>1 DEF k, wd, we

\* Adding multiples of the modulus changes no remainder.
LEMMA WholeWords ==
  ASSUME NEW w \in Nat \ {0}, NEW z \in Int, NEW q \in Int
  PROVE  (z + w * q) % w = z % w
<1> DEFINE r == z % w
           d == z \div w
           s == (z + w * q) % w
           e == (z + w * q) \div w
<1>1. z = w * d + r /\ r \in 0 .. w - 1 /\ d \in Int
  BY SMTT(30)
<1>2. z + w * q = w * e + s /\ s \in 0 .. w - 1 /\ e \in Int
  BY SMTT(30)
<1> HIDE DEF r, d, s, e
<1>3. w * (d + q) + r = w * e + s
  <2>1. w * (d + q) = w * d + w * q
    BY <1>1, SMTT(30)
  <2> QED
    BY <1>1, <1>2, <2>1
<1>4. d + q \in Int
  BY <1>1
<1>5. r = s
  BY <1>1, <1>2, <1>3, <1>4, OneRemainder
<1> QED
  BY <1>5 DEF r, s

\* A number scaled and wrapped.
Scaled(w, z) == (z * 1000) % w

\* Differences of wrapped numbers, scaled and wrapped, are those of the numbers.
LEMMA WrappedDifference ==
  ASSUME NEW w \in Nat \ {0}, NEW x \in Int, NEW y \in Int
  PROVE  Scaled(w, (x % w) - (y % w)) = Scaled(w, x - y)
<1> DEFINE d == x \div w
           e == y \div w
           r == x % w
           s == y % w
<1>1. x = w * d + r /\ d \in Int /\ r \in Int
  BY SMTT(30)
<1>2. y = w * e + s /\ e \in Int /\ s \in Int
  BY SMTT(30)
<1> HIDE DEF d, e, r, s
<1>3. (x - y) * 1000 = (r - s) * 1000 + w * (1000 * (d - e))
  <2> DEFINE wd == w * d
             we == w * e
  <2>1. w * (1000 * (d - e)) = 1000 * wd - 1000 * we
    BY <1>1, <1>2, SMTT(30)
  <2>2. x = wd + r /\ y = we + s /\ wd \in Int /\ we \in Int
    BY <1>1, <1>2
  <2> HIDE DEF wd, we
  <2> QED
    BY <1>1, <1>2, <2>1, <2>2
<1>4. (x - y) * 1000 \in Int /\ (r - s) * 1000 \in Int /\ 1000 * (d - e) \in Int
  BY <1>1, <1>2
<1>5. ((r - s) * 1000 + w * (1000 * (d - e))) % w = ((r - s) * 1000) % w
  <2> DEFINE u == (r - s) * 1000
             v == 1000 * (d - e)
  <2>1. u \in Int /\ v \in Int
    BY <1>4
  <2> HIDE DEF u, v
  <2>2. (u + w * v) % w = u % w
    BY <2>1, WholeWords
  <2> QED
    BY <2>2 DEF u, v
<1> QED
  BY <1>3, <1>5 DEF r, s, Scaled

\* The timer's period fits into the time since its start as often as that.
LEMMA Expiries ==
  ASSUME NEW p \in Nat \ {0}, NEW n \in Nat
  PROVE  p * (n \div p) \in 0 .. n
<1> DEFINE d == n \div p
<1>1. n = p * d + (n % p) /\ n % p \in 0 .. p - 1 /\ d \in Nat
  BY SMTT(30)
<1>2. p * d \in Nat
  BY <1>1
<1> QED
  BY <1>1, <1>2, SMTT(30)

\* It fits once into a time of one period.
LEMMA OneExpiry ==
  ASSUME NEW p \in Nat \ {0}
  PROVE  p * (p \div p) = p
<1>1. p = p * (p \div p) + (p % p) /\ p % p \in 0 .. p - 1 /\ p \div p \in Int
  BY SMTT(30)
<1>2. p * 1 + 0 = p * (p \div p) + (p % p)
  BY <1>1
<1>3. 1 = p \div p
  BY <1>1, <1>2, OneRemainder
<1> QED
  BY <1>3
-----------------------------------------------------------------------------
Timers(n) == [enabled : BOOLEAN, base : 0 .. n, arr : Nat \ {0}, uif : BOOLEAN]

\* A period register that is not zero gives a period.
LEMMA PeriodPositive ==
  ASSUME NEW n \in Nat, NEW t \in Timers(n)
  PROVE  PeriodOf(t) \in Nat \ {0}
BY DEF Timers, PeriodOf

\* TIM1 counts on with its register and enable bit as they are.
LEMMA TimerType ==
  ASSUME NEW n \in Nat, NEW t \in Timers(n), NEW x \in Nat, x >= t.base
  PROVE  TIM1(t, x) \in Timers(x) /\ TIM1(t, x).arr = t.arr /\ TIM1(t, x).enabled = t.enabled
<1> DEFINE P == PeriodOf(t)
           d == P * ((x - t.base) \div P)
<1>1. P \in Nat \ {0} /\ t.base \in Nat /\ x - t.base \in Nat
  BY PeriodPositive DEF Timers
<1>2. d \in 0 .. x - t.base
  BY <1>1, Expiries
<1> HIDE DEF d
<1>3. t.base + d \in 0 .. x
  BY <1>1, <1>2
<1>4. TIM1(t, x) = [t EXCEPT !.uif = TRUE, !.base = t.base + d] \/ TIM1(t, x) = t
  BY Zenon DEF TIM1, d, P
<1>5. t.base \in 0 .. x
  BY <1>1
<1> HIDE DEF P
<1>6. CASE TIM1(t, x) = [t EXCEPT !.uif = TRUE, !.base = t.base + d]
  BY <1>3, <1>6 DEF Timers
<1>7. CASE TIM1(t, x) = t
  BY <1>5, <1>7 DEF Timers
<1> QED
  BY <1>4, <1>6, <1>7

\* So it does from any later time on.
LEMMA TimerLater ==
  ASSUME NEW n \in Nat, NEW t \in Timers(n), NEW x \in Nat, x >= n
  PROVE  TIM1(t, x) \in Timers(x) /\ TIM1(t, x).arr = t.arr /\ TIM1(t, x).enabled = t.enabled
<1>1. x >= t.base
  BY DEF Timers
<1> QED
  BY <1>1, TimerType

Stopped(t) == [t EXCEPT !.enabled = FALSE]

\* Stopping the timer leaves the rest of it.
LEMMA Stops ==
  ASSUME NEW n \in Nat, NEW t \in Timers(n)
  PROVE  Stopped(t) \in Timers(n) /\ Stopped(t).arr = t.arr
BY DEF Stopped, Timers

\* Within its period TIM1 raises no flag.
LEMMA TimerRests ==
  ASSUME NEW n \in Nat, NEW t \in Timers(n), NEW x \in Nat, x < t.base + PeriodOf(t)
  PROVE  TIM1(t, x) = t
<1>1. ~(x >= t.base + PeriodOf(t))
  BY PeriodPositive DEF Timers
<1> QED
  BY <1>1, Zenon DEF TIM1

\* At the end of its period it does.
LEMMA TimerExpires ==
  ASSUME NEW n \in Nat, NEW t \in Timers(n), t.enabled, NEW x \in Nat, x >= t.base + PeriodOf(t)
  PROVE  TIM1(t, x).uif = TRUE
<1>1. TIM1(t, x) = [t EXCEPT !.uif = TRUE, !.base = t.base + PeriodOf(t) * ((x - t.base) \div PeriodOf(t))]
  BY Zenon DEF TIM1
<1> QED
  BY <1>1 DEF Timers

\* and the next period starts there.
LEMMA TimerExpired ==
  ASSUME NEW n \in Nat, NEW t \in Timers(n), t.enabled
  PROVE  TIM1(t, t.base + PeriodOf(t)).base = t.base + PeriodOf(t)
<1> DEFINE P == PeriodOf(t)
           x == t.base + P
<1>1. P \in Nat \ {0} /\ t.base \in Nat
  BY PeriodPositive DEF Timers
<1>2. x >= t.base + P /\ x - t.base = P
  BY <1>1
<1>3. P * (P \div P) = P
  BY <1>1, OneExpiry
<1>4. TIM1(t, x) = [t EXCEPT !.uif = TRUE, !.base = t.base + P * ((x - t.base) \div P)]
  BY <1>2, Zenon DEF TIM1
<1> QED
  BY <1>1, <1>2, <1>3, <1>4 DEF Timers

-----------------------------------------------------------------------------
\* The timer's period: as many seconds as the calibration has come to, then
\* 150 ms more in each round.
PeriodInv ==
    /\ tim \in Timers(now)
    /\ at \notin Ended \cup {"interval"} => \E k \in 1 .. 8 : tim.arr = 2000 * k - 1
    /\ at = "interval" =>
          \E k \in 1 .. 8 : period = 1000 * k + 150 * round /\ tim.arr = 2 * period - 1

\* Where a period has just begun, and which loop is in which round.
StartInv ==
    /\ at \in {"timekeeping", "calibrate", "firstClock"} => tim.base = now /\ tim.uif = FALSE
    /\ at \in {"calibrate", "time", "firstClock", "interval"} => tim.enabled = TRUE
    /\ at \in {"timekeeping", "calibrate", "intervals", "firstClock"} => round = 0
    /\ at \in {"time", "interval"} => round <= 4 /\ delays.calls > 0

\* The time compared with was read, after one of the delays seen, in the period
\* that began as many periods ago as the loop has done rounds.
SecondsInv ==
    at = "time" /\ ~Disturbed =>
        /\ tim.uif = FALSE
        /\ \E a \in delays.min .. delays.max :
              /\ a < PeriodOf(tim)
              /\ tim.base >= round * PeriodOf(tim)
              /\ startTime = HostSeconds(tim.base - round * PeriodOf(tim) + a)

\* The time point compared with was read in the period that is running.
CentisInv ==
    at = "interval" /\ ~Disturbed =>
        /\ tim.uif = FALSE
        /\ \E a \in delays.min .. delays.max :
              a < PeriodOf(tim) /\ wallTime = HostCentis(tim.base + a)

Restarted(t, x) == [t EXCEPT !.enabled = TRUE, !.base = x, !.uif = FALSE]

\* Restarting the timer begins a period.
LEMMA Restarts ==
  ASSUME NEW n \in Nat, NEW t \in Timers(n), NEW x \in Nat
  PROVE  /\ Restarted(t, x) \in Timers(x) /\ Restarted(t, x).arr = t.arr
         /\ Restarted(t, x).base = x /\ Restarted(t, x).uif = FALSE
         /\ Restarted(t, x).enabled = TRUE
<1>1. x \in 0 .. x
  OBVIOUS
<1> QED
  BY <1>1 DEF Timers, Restarted

Longer(t) == t.arr + 2000

\* So does giving it another one.
LEMMA Retries ==
  ASSUME NEW n \in Nat, NEW t \in Timers(n), NEW x \in Nat
  PROVE  /\ retry(t, x) \in Timers(x) /\ retry(t, x).arr = Longer(t)
         /\ retry(t, x).base = x /\ retry(t, x).uif = FALSE
         /\ retry(t, x).enabled = t.enabled
<1>1. x \in 0 .. x /\ Longer(t) \in Nat \ {0}
  BY DEF Timers, Longer
<1>2. retry(t, x) = [t EXCEPT !.arr = Longer(t), !.base = x, !.uif = FALSE]
  BY DEF retry, Longer
<1> QED
  BY <1>1, <1>2 DEF Timers

-----------------------------------------------------------------------------
DelayTypes == [min : Nat, max : Nat, longest : Nat, calls : Nat, slow : BOOLEAN, lost : BOOLEAN]

\* What a host is.
LEMMA HostTypes ==
  ASSUME NEW h \in Hosts
  PROVE  /\ h.phase \in Nat /\ h.rate \in Nat /\ h.lossy \in BOOLEAN
         /\ \A a \in h.before : a \in Nat
         /\ \A b \in h.after : b \in Nat
BY ClockAssumption

\* The word of the code is a positive number.
LEMMA WordTypes == Word \in Nat \ {0} /\ Word > 100000 /\ Epoch \in Nat /\ UINT32_MAX \in 0 .. Word - 1
BY ClockAssumption DEF UINT32_MAX

\* What a host's clock can show.
LEMMA ReadingTypes ==
  ASSUME host \in Hosts, NEW x \in Nat
  PROVE  HostMs(x) \in Nat /\ HostSeconds(x) \in 0 .. Word - 1 /\ HostCentis(x) \in Nat
<1>1. host.phase \in Nat /\ host.rate \in Nat
  BY HostTypes
<1>2. x * host.rate \in Nat
  BY <1>1
<1>3. HostMs(x) \in Nat
  BY <1>1, <1>2 DEF HostMs
<1>4. Epoch + HostMs(x) \div 1000 \in Nat
  BY <1>3, WordTypes
<1> QED
  BY <1>3, <1>4, WordTypes DEF HostSeconds, HostCentis, Wrap

\* A call noted is a call more, with its delays among those seen.
LEMMA NotedTypes ==
  ASSUME NEW d \in DelayTypes, NEW a \in Nat, NEW b \in Nat, NEW p \in Nat, NEW lost \in BOOLEAN
  PROVE  /\ Noted(d, a, b, p, lost) \in DelayTypes
         /\ Noted(d, a, b, p, lost).calls > 0
<1>1. (d.slow \/ a + b >= p) \in BOOLEAN /\ (d.lost \/ lost) \in BOOLEAN
  BY Zenon
<1>2. d.min \in Nat /\ d.max \in Nat /\ d.longest \in Nat /\ d.calls \in Nat
  BY DEF DelayTypes
<1>3. /\ (IF d.calls = 0 \/ a < d.min THEN a ELSE d.min) \in Nat
      /\ (IF d.calls = 0 \/ a > d.max THEN a ELSE d.max) \in Nat
      /\ (IF a + b > d.longest THEN a + b ELSE d.longest) \in Nat
      /\ d.calls + 1 \in Nat /\ d.calls + 1 > 0
  BY <1>2
<1> QED
  BY <1>1, <1>3 DEF Noted, DelayTypes

\* The delays of a call noted bound those seen, unless it was slow or lost.
LEMMA NotedCall ==
  ASSUME NEW d \in DelayTypes, NEW a \in Nat, NEW b \in Nat, NEW p \in Nat, NEW lost \in BOOLEAN
  PROVE  /\ Noted(d, a, b, p, lost).min <= a /\ a <= Noted(d, a, b, p, lost).max
         /\ d.calls > 0 => /\ Noted(d, a, b, p, lost).min <= d.min
                           /\ d.max <= Noted(d, a, b, p, lost).max
BY DEF Noted, DelayTypes

\* A call noted as undisturbed is one that came back in time.
LEMMA NotedUndisturbed ==
  ASSUME NEW d \in DelayTypes, NEW a \in Nat, NEW b \in Nat, NEW p \in Nat, NEW lost \in BOOLEAN,
         ~Noted(d, a, b, p, lost).lost, ~Noted(d, a, b, p, lost).slow
  PROVE  ~d.lost /\ ~d.slow /\ lost = FALSE /\ a + b < p
<1>1. ~(d.slow \/ a + b >= p) /\ ~(d.lost \/ lost)
  BY Zenon DEF Noted
<1>2. ~d.lost /\ ~d.slow /\ lost = FALSE /\ ~(a + b >= p)
  BY <1>1, Zenon
<1> QED
  BY <1>2

\* TIM1 when a loop has seen and cleared the flag it waited for.
Seen(t, n) == [TIM1(t, WaitUIF(t, n)) EXCEPT !.uif = FALSE]

\* A loop goes on at the time it sees the flag.
LEMMA WaitTypes ==
  ASSUME NEW n \in Nat, NEW t \in Timers(n)
  PROVE  /\ WaitUIF(t, n) \in Nat /\ Seen(t, n) \in Timers(WaitUIF(t, n))
         /\ Seen(t, n).arr = t.arr /\ Seen(t, n).enabled = t.enabled /\ Seen(t, n).uif = FALSE
<1> DEFINE x == WaitUIF(t, n)
           u == TIM1(t, x)
<1>1. x = n \/ x = t.base + PeriodOf(t)
  BY Zenon DEF WaitUIF
<1>2. t.base \in 0 .. n /\ PeriodOf(t) \in Nat \ {0}
  BY PeriodPositive DEF Timers
<1>3. x \in Nat /\ x >= t.base
  BY <1>1, <1>2
<1>4. Seen(t, n) = [u EXCEPT !.uif = FALSE]
  BY Zenon DEF Seen
<1> HIDE DEF x
<1>5. u \in Timers(x) /\ u.arr = t.arr /\ u.enabled = t.enabled
  BY <1>3, TimerType
<1> HIDE DEF u
<1>6. /\ [u EXCEPT !.uif = FALSE] \in Timers(x) /\ [u EXCEPT !.uif = FALSE].arr = t.arr
      /\ [u EXCEPT !.uif = FALSE].enabled = t.enabled /\ [u EXCEPT !.uif = FALSE].uif = FALSE
  BY <1>5 DEF Timers
<1> QED
  BY <1>3, <1>4, <1>6 DEF x

-----------------------------------------------------------------------------
TypeInv == TypeOK /\ PeriodInv /\ StartInv

\* Everything starts at zero.
LEMMA InitTypes == Init => TypeInv
<1> SUFFICES ASSUME Init PROVE TypeInv
  OBVIOUS
<1>1. tim \in Timers(now) /\ tim.base = now /\ tim.uif = FALSE /\ tim.arr = 2000 * 1 - 1
  BY DEF Init, Timers
<1>2. delays \in DelayTypes
  BY DEF Init, DelayTypes, NoDelays
<1>3. 0 \in 0 .. UINT32_MAX
  BY WordTypes DEF UINT32_MAX
<1>4. at = "timekeeping" /\ now = 0 /\ host \in Hosts /\ startTime = 0 /\ wallTime = 0
      /\ period = 0 /\ round = 0
  BY DEF Init
<1>5. TypeOK
  BY <1>1, <1>2, <1>3, <1>4 DEF TypeOK, Timers, DelayTypes
<1>6. PeriodInv
  BY <1>1, <1>4 DEF PeriodInv, Ended
<1>7. StartInv
  BY <1>1, <1>4 DEF StartInv
<1> QED
  BY <1>5, <1>6, <1>7 DEF TypeInv

\* Starting the timer, for either test.
LEMMA StartTypes == TypeInv /\ (startTimekeeping \/ startIntervals) => TypeInv'
<1> SUFFICES ASSUME TypeInv, startTimekeeping \/ startIntervals PROVE TypeInv'
  OBVIOUS
<1>1. /\ \/ at = "timekeeping" /\ at' = "calibrate"
         \/ at = "intervals" /\ at' = "firstClock"
      /\ tim' = [tim EXCEPT !.enabled = TRUE, !.base = now, !.uif = FALSE]
      /\ UNCHANGED <<now, host, startTime, wallTime, period, round, delays>>
  <2>1. CASE startTimekeeping
    BY <2>1, Zenon DEF startTimekeeping
  <2>2. CASE startIntervals
    BY <2>2, Zenon DEF startIntervals, restartTimer
  <2> QED
    BY <2>1, <2>2, Zenon
<1>2. now \in Nat /\ tim \in Timers(now)
  BY DEF TypeInv, TypeOK, PeriodInv
<1>t. tim' = Restarted(tim, now)
  BY <1>1, Zenon DEF Restarted
<1>3. /\ tim' \in Timers(now) /\ tim'.arr = tim.arr /\ tim'.base = now
      /\ tim'.uif = FALSE /\ tim'.enabled = TRUE
  BY <1>t, <1>2, Restarts
<1>4. PICK k \in 1 .. 8 : tim.arr = 2000 * k - 1
  BY <1>1 DEF TypeInv, PeriodInv, Ended
<1>5. TypeOK'
  BY <1>1, <1>3 DEF TypeInv, TypeOK, Timers
<1>6. PeriodInv'
  BY <1>1, <1>3, <1>4 DEF PeriodInv, Ended
<1>7. StartInv'
  BY <1>1, <1>3 DEF TypeInv, StartInv
<1> QED
  BY <1>5, <1>6, <1>7 DEF TypeInv

\* TypeOK, its parts named.
LEMMA Typed ==
  ASSUME TypeInv
  PROVE  /\ now \in Nat /\ host \in Hosts /\ tim \in Timers(now) /\ tim.arr \in Nat \ {0}
         /\ tim.base \in 0 .. now /\ startTime \in 0 .. UINT32_MAX /\ wallTime \in Int
         /\ period \in Nat /\ round \in 0 .. 5 /\ delays \in DelayTypes
         /\ delays.min \in Nat /\ delays.max \in Nat
BY DEF TypeInv, TypeOK, PeriodInv, Timers, DelayTypes

\* A round of the calibration: it gives up in its eighth second, after a failed
\* call or on the answer that looks like one, and goes on to the test only when
\* the call and its line took less than the period.
LEMMA CalibrateTypes ==
  ASSUME TypeInv, calibrate
  PROVE  TypeInv' /\ CalibratedPeriodSuffices' /\ TriesEightSeconds'
<1> DEFINE time(a, lost) == IF lost THEN UINT32_MAX ELSE HostSeconds(now + a)
           P == PeriodOf(tim)
<1>1. at = "calibrate" /\ host' = host /\ wallTime' = wallTime /\ period' = period /\ round' = round
  BY Zenon DEF calibrate
<1>2. PICK a \in host.before, b \in host.after, lost \in Losses :
        /\ now' = now + a + b
        /\ delays' = Noted(NoDelays, a, b, P, lost)
        /\ IF expired(a, b)
           THEN /\ tim' = retry(tim, now')
                /\ at' = IF furtherPeriod(tim') THEN "calibrate" ELSE "noTimer"
                /\ startTime' = IF furtherPeriod(tim') THEN startTime ELSE UINT32_MAX
           ELSE /\ tim' = tim
                /\ at' = IF time(a, lost) = UINT32_MAX THEN "noTimer" ELSE "time"
                /\ startTime' = time(a, lost)
  BY Zenon DEF calibrate
<1> HIDE DEF time
<1>3. PICK k \in 1 .. 8 : tim.arr = 2000 * k - 1
  BY <1>1 DEF TypeInv, PeriodInv, Ended
<1>4. tim.base = now /\ tim.uif = FALSE /\ tim.enabled = TRUE /\ round = 0
  BY <1>1 DEF TypeInv, StartInv
<1>5. P = 1000 * k /\ P \in Nat
  BY <1>3 DEF PeriodOf
<1> HIDE DEF P
<1>6. a \in Nat /\ b \in Nat /\ now \in Nat /\ now' \in Nat /\ now' >= now
  BY <1>2, Typed, HostTypes
<1>7. UINT32_MAX \in 0 .. UINT32_MAX /\ time(a, lost) \in 0 .. UINT32_MAX
  BY <1>6, Typed, ReadingTypes, WordTypes DEF time, UINT32_MAX
<1>8. lost \in BOOLEAN
  BY <1>2, Typed, HostTypes, Zenon DEF Losses
<1>9. delays' \in DelayTypes /\ delays'.calls > 0 /\ delays'.longest = a + b
  <2>1. NoDelays \in DelayTypes
    BY DEF NoDelays, DelayTypes
  <2>2. delays' = Noted(NoDelays, a, b, P, lost)
    BY <1>2, Zenon
  <2>3. delays'.longest = IF a + b > 0 THEN a + b ELSE 0
    BY <2>2 DEF Noted, NoDelays
  <2>4. delays' \in DelayTypes /\ delays'.calls > 0
    <3>1. P \in Nat /\ a \in Nat /\ b \in Nat /\ lost \in BOOLEAN
      BY <1>2, <1>5, <1>6, <1>8
    <3>2. Noted(NoDelays, a, b, P, lost) \in DelayTypes /\ Noted(NoDelays, a, b, P, lost).calls > 0
      BY <3>1, <2>1, NotedTypes
    <3> QED
      BY <2>2, <3>2
  <2> QED
    BY <1>6, <2>3, <2>4
<1>10. time(a, lost) = UINT32_MAX => delays'.lost \/ SentinelAnswered'
  <2>1. CASE lost
    BY <1>2, <2>1, Zenon DEF Noted, NoDelays
  <2>2. CASE ~lost
    <3>1. delays'.min = a
      BY <1>2 DEF Noted, NoDelays
    <3>2. now' - delays'.longest + delays'.min = now + a
      BY <1>2, <1>6, <1>9, <3>1
    <3>3. SentinelAnswered' <=> HostSeconds(now + a) = UINT32_MAX
      <4>1. SentinelAnswered' <=> HostSeconds(now - delays.longest + delays.min)' = UINT32_MAX
        BY Zenon DEF SentinelAnswered, UINT32_MAX
      <4>2. HostSeconds(now - delays.longest + delays.min)' = HostSeconds(now' - delays'.longest + delays'.min)
        BY <1>1 DEF HostSeconds, HostMs
      <4>3. HostSeconds(now' - delays'.longest + delays'.min) = HostSeconds(now + a)
        BY <3>2, Zenon
      <4> QED
        BY <4>1, <4>2, <4>3, Zenon
    <3> QED
      BY <2>2, <3>3, Zenon DEF time
  <2> QED
    BY <2>1, <2>2, Zenon
<1>11. CASE a + b >= P
  <2>1. expired(a, b)
    <3>1. now + a + b \in Nat /\ now + a + b >= tim.base + P
      BY <1>4, <1>5, <1>6, <1>11
    <3>2. TIM1(tim, now + a + b).uif = TRUE
      BY <3>1, <1>4, <1>6, Typed, TimerExpires DEF P
    <3> QED
      BY <3>2, Zenon DEF expired
  <2>2. tim' = retry(tim, now')
    BY <1>2, <2>1, Zenon
  <2>3. /\ tim' \in Timers(now') /\ tim'.arr = 2000 * (k + 1) - 1 /\ tim'.base = now'
        /\ tim'.uif = FALSE /\ tim'.enabled = TRUE
    <3>1. now' \in Nat /\ now \in Nat /\ tim \in Timers(now)
      BY <1>6, Typed
    <3>2. /\ retry(tim, now') \in Timers(now') /\ retry(tim, now').arr = Longer(tim)
          /\ retry(tim, now').base = now' /\ retry(tim, now').uif = FALSE
          /\ retry(tim, now').enabled = tim.enabled
      BY <3>1, Retries
    <3>3. Longer(tim) = 2000 * (k + 1) - 1
      BY <1>3 DEF Longer
    <3> QED
      BY <2>2, <3>2, <3>3, <1>4
  <2>4. at' = IF furtherPeriod(tim') THEN "calibrate" ELSE "noTimer"
    BY <1>2, <2>1, Zenon
  <2>5. startTime' \in 0 .. UINT32_MAX
    BY <1>2, <1>7, <2>1, Typed
  <2>6. TypeOK'
    BY <1>1, <1>6, <1>9, <2>3, <2>4, <2>5, Typed DEF TypeOK, Timers, DelayTypes, Ended
  <2>7. CASE k < 8
    <3>1. at' = "calibrate" /\ k + 1 \in 1 .. 8
      BY <2>3, <2>4, <2>7 DEF furtherPeriod
    <3> QED
      BY <3>1, <2>3, <2>6, <1>1, <1>4, <1>6
      DEF TypeInv, PeriodInv, StartInv, Ended, CalibratedPeriodSuffices, TriesEightSeconds
  <2>8. CASE k = 8
    <3>1. at' = "noTimer" /\ delays'.longest >= 8000
      BY <2>3, <2>4, <2>8, <1>5, <1>9, <1>11 DEF furtherPeriod
    <3> QED
      BY <3>1, <2>3, <2>6, <1>1, <1>4, <1>6
      DEF TypeInv, PeriodInv, StartInv, Ended, CalibratedPeriodSuffices, TriesEightSeconds
  <2> QED
    BY <2>7, <2>8
<1>12. CASE a + b < P
  <2>1. ~expired(a, b)
    <3>1. now + a + b \in Nat /\ now + a + b < tim.base + P
      BY <1>4, <1>5, <1>6, <1>12
    <3>2. TIM1(tim, now + a + b) = tim
      BY <3>1, <1>6, Typed, TimerRests DEF P
    <3> QED
      BY <3>2, <1>4, Zenon DEF expired
  <2>2. /\ tim' = tim /\ startTime' = time(a, lost)
        /\ at' = IF time(a, lost) = UINT32_MAX THEN "noTimer" ELSE "time"
    BY <1>2, <2>1, Zenon
  <2>3. tim' \in Timers(now') /\ tim'.arr = tim.arr /\ tim'.enabled = TRUE /\ tim'.uif = FALSE
    BY <2>2, <1>4, <1>6, Typed DEF Timers
  <2>4. TypeOK'
    BY <1>1, <1>6, <1>7, <1>9, <2>2, <2>3, Typed DEF TypeOK, Timers, DelayTypes, Ended
  <2>5. PeriodInv' /\ StartInv'
    BY <1>1, <1>3, <1>4, <1>9, <2>2, <2>3 DEF PeriodInv, StartInv, Ended
  <2>6. PeriodOf(tim)' = P
    BY <2>2 DEF P, PeriodOf
  <2>7. CalibratedPeriodSuffices'
    BY <1>9, <1>12, <2>3, <2>6 DEF CalibratedPeriodSuffices
  <2>8. TriesEightSeconds'
    <3>1. at' = "noTimer" => time(a, lost) = UINT32_MAX
      BY <2>2
    <3> QED
      BY <3>1, <1>10 DEF TriesEightSeconds
  <2> QED
    BY <2>4, <2>5, <2>7, <2>8 DEF TypeInv
<1> QED
  BY <1>5, <1>6, <1>11, <1>12

\* A round of testTimekeeping.
LEMMA TimeRoundTypes ==
  ASSUME TypeInv, timeRound
  PROVE  TypeInv' /\ at' # "noTimer" /\ (at' = "time" => round' > 0)
<1> DEFINE x == WaitUIF(tim, now)
           t == Seen(tim, now)
           time(a, lost) == IF lost THEN UINT32_MAX ELSE HostSeconds(x + a)
<1>1. /\ at = "time" /\ host' = host /\ startTime' = startTime /\ wallTime' = wallTime
      /\ period' = period
  BY Zenon DEF timeRound
<1>2. PICK a \in host.before, b \in host.after, lost \in Losses :
        /\ now' = x + a + b
        /\ delays' = Noted(delays, a, b, PeriodOf(tim), lost)
        /\ \/ /\ at' = "wrongTime" /\ round' = round
              /\ tim' = Stopped(TIM1(t, now'))
           \/ /\ at' = "intervals" /\ round' = 0
              /\ tim' = Stopped(TIM1(t, now'))
           \/ /\ at' = "time" /\ round' = round + 1 /\ ~lastRound
              /\ tim' = TIM1(t, now')
  BY Zenon DEF timeRound, Seen, Stopped
<1>3. /\ tim \in Timers(now) /\ now \in Nat /\ delays \in DelayTypes /\ round \in 0 .. 4
      /\ tim.enabled = TRUE /\ host \in Hosts
  <2>1. round <= 4
    BY <1>1 DEF TypeInv, StartInv
  <2>2. tim.enabled = TRUE
    BY <1>1 DEF TypeInv, StartInv
  <2> QED
    BY <2>1, <2>2, Typed
<1>4. PICK k \in 1 .. 8 : tim.arr = 2000 * k - 1
  BY <1>1 DEF TypeInv, PeriodInv, Ended
<1>5. x \in Nat /\ t \in Timers(x) /\ t.arr = tim.arr /\ t.enabled = TRUE
  BY <1>3, WaitTypes
<1>6. a \in Nat /\ b \in Nat /\ lost \in BOOLEAN /\ PeriodOf(tim) \in Nat
  BY <1>2, <1>3, HostTypes, PeriodPositive DEF Losses
<1> HIDE DEF x, t
<1>7. /\ Noted(delays, a, b, PeriodOf(tim), lost) \in DelayTypes
      /\ Noted(delays, a, b, PeriodOf(tim), lost).calls > 0
  BY <1>3, <1>6, NotedTypes
<1>8. delays' \in DelayTypes /\ delays'.calls > 0
  BY <1>2, <1>7
<1>9. now' \in Nat /\ now' >= x
  BY <1>2, <1>5, <1>6
<1>10. /\ TIM1(t, now') \in Timers(now') /\ TIM1(t, now').arr = t.arr
       /\ TIM1(t, now').enabled = t.enabled
  BY <1>5, <1>9, TimerLater
<1>11. Stopped(TIM1(t, now')) \in Timers(now') /\ Stopped(TIM1(t, now')).arr = t.arr
  BY <1>9, <1>10, Stops
<1>12. tim' \in Timers(now') /\ tim'.arr = tim.arr
  BY <1>2, <1>5, <1>10, <1>11
<1>13. at' = "time" => tim'.enabled = TRUE /\ round' = round + 1 /\ round' <= 4
  BY <1>2, <1>3, <1>5, <1>10 DEF lastRound
<1>14. at' \in {"wrongTime", "intervals", "time"} /\ round' \in 0 .. 5
       /\ (at' = "intervals" => round' = 0)
  BY <1>2, <1>3
<1>15. TypeOK'
  BY <1>1, <1>3, <1>8, <1>9, <1>12, <1>14, Typed DEF TypeOK, Timers, DelayTypes, Ended
<1>16. PeriodInv'
  BY <1>4, <1>12, <1>14 DEF PeriodInv, Ended
<1>17. StartInv'
  BY <1>8, <1>13, <1>14 DEF StartInv
<1> QED
  BY <1>3, <1>13, <1>14, <1>15, <1>16, <1>17 DEF TypeInv

\* The first time point of testIntervals.
LEMMA FirstClockTypes ==
  ASSUME TypeInv, firstClock
  PROVE  TypeInv' /\ at' \in {"noClock", "interval"}
<1> DEFINE time(a, lost) == IF lost THEN -1 ELSE HostCentis(now + a)
<1>1. at = "firstClock" /\ host' = host /\ startTime' = startTime /\ round' = round
  BY Zenon DEF firstClock
<1>2. PICK a \in host.before, b \in host.after, lost \in Losses :
        /\ now' = now + a + b
        /\ wallTime' = time(a, lost)
        /\ delays' = Noted(NoDelays, a, b, PeriodOf(tim), lost)
        /\ \/ at' = "noClock" /\ period' = period /\ tim' = Stopped(tim)
           \/ at' = "interval" /\ period' = PeriodOf(tim) /\ tim' = TIM1(tim, now')
  BY Zenon DEF firstClock, Stopped
<1>3. /\ tim \in Timers(now) /\ now \in Nat /\ NoDelays \in DelayTypes /\ round \in 0 .. 5
      /\ host \in Hosts
  BY Typed DEF NoDelays, DelayTypes
<1>4. PICK k \in 1 .. 8 : tim.arr = 2000 * k - 1
  BY <1>1 DEF TypeInv, PeriodInv, Ended
<1>5. tim.enabled = TRUE /\ round = 0
  BY <1>1 DEF TypeInv, StartInv
<1>6. a \in Nat /\ b \in Nat /\ lost \in BOOLEAN /\ PeriodOf(tim) \in Nat
  BY <1>2, <1>3, HostTypes, PeriodPositive DEF Losses
<1>7. delays' \in DelayTypes /\ delays'.calls > 0
  <2>1. /\ Noted(NoDelays, a, b, PeriodOf(tim), lost) \in DelayTypes
        /\ Noted(NoDelays, a, b, PeriodOf(tim), lost).calls > 0
    BY <1>3, <1>6, NotedTypes
  <2> QED
    BY <1>2, <2>1
<1>8. now' \in Nat /\ now' >= now /\ wallTime' \in Int
  <2>1. time(a, lost) \in Int
    BY <1>3, <1>6, ReadingTypes
  <2> QED
    BY <1>2, <1>3, <1>6, <2>1
<1>9. /\ TIM1(tim, now') \in Timers(now') /\ TIM1(tim, now').arr = tim.arr
      /\ TIM1(tim, now').enabled = tim.enabled
  BY <1>3, <1>8, TimerLater
<1>10. Stopped(tim) \in Timers(now') /\ Stopped(tim).arr = tim.arr
  <2>1. Stopped(tim) \in Timers(now) /\ Stopped(tim).arr = tim.arr
    BY <1>3, Stops
  <2> QED
    BY <2>1, <1>3, <1>8 DEF Timers
<1>11. tim' \in Timers(now') /\ tim'.arr = tim.arr
  BY <1>2, <1>9, <1>10
<1>12. at' \in {"noClock", "interval"} /\ (at' = "interval" => tim'.enabled = TRUE)
  BY <1>2, <1>5, <1>9
<1>13. PeriodOf(tim) = 1000 * k + 150 * 0
  BY <1>4 DEF PeriodOf
<1>14. period' \in Nat /\ (at' = "interval" => period' = 1000 * k + 150 * 0)
  BY <1>2, <1>6, <1>13, Typed
<1>15. TypeOK'
  BY <1>1, <1>3, <1>7, <1>8, <1>11, <1>12, <1>14, Typed DEF TypeOK, Timers, DelayTypes, Ended
<1>16. PeriodInv'
  <2>1. at' = "interval" => period' = 1000 * k + 150 * round' /\ tim'.arr = 2 * period' - 1
    BY <1>1, <1>4, <1>5, <1>11, <1>14
  <2> QED
    BY <2>1, <1>11, <1>12 DEF PeriodInv, Ended
<1>17. StartInv'
  BY <1>1, <1>5, <1>7, <1>12 DEF StartInv
<1> QED
  BY <1>12, <1>15, <1>16, <1>17 DEF TypeInv

Lengthened(t, p, e) == [t EXCEPT !.arr = halfTicks(p), !.enabled = e]

\* A new period leaves the time that the running one began.
LEMMA Lengthens ==
  ASSUME NEW n \in Nat, NEW t \in Timers(n), NEW p \in Nat \ {0}, NEW e \in BOOLEAN
  PROVE  /\ Lengthened(t, p, e) \in Timers(n) /\ Lengthened(t, p, e).arr = halfTicks(p)
         /\ Lengthened(t, p, e).enabled = e /\ Lengthened(t, p, e).base = t.base
         /\ Lengthened(t, p, e).uif = t.uif
<1>1. halfTicks(p) \in Nat \ {0}
  BY DEF halfTicks
<1> QED
  BY <1>1 DEF Lengthened, Timers

\* A round of testIntervals.
LEMMA IntervalRoundTypes ==
  ASSUME TypeInv, intervalRound
  PROVE  TypeInv' /\ at' \in {"wrongClock", "interval", "passed"}
<1> DEFINE x == WaitUIF(tim, now)
           t == Seen(tim, now)
           time(a, lost) == IF lost THEN -1 ELSE HostCentis(x + a)
<1>1. at = "interval" /\ host' = host /\ startTime' = startTime
  BY Zenon DEF intervalRound
<1>2. PICK a \in host.before, b \in host.after, lost \in Losses :
        /\ now' = x + a + b
        /\ delays' = Noted(delays, a, b, PeriodOf(tim), lost)
        /\ \/ /\ at' = "wrongClock" /\ wallTime' = wallTime /\ period' = period /\ round' = round
              /\ tim' = Stopped(TIM1(t, now'))
           \/ /\ at' = IF lastRound THEN "passed" ELSE "interval"
              /\ wallTime' = time(a, lost) /\ period' = longer(period) /\ round' = round + 1
              /\ tim' = Lengthened(TIM1(t, now'), period', ~lastRound)
  BY Zenon DEF intervalRound, Seen, Stopped, Lengthened
<1>3. /\ tim \in Timers(now) /\ now \in Nat /\ delays \in DelayTypes /\ round \in 0 .. 4
      /\ host \in Hosts
  <2>1. round <= 4
    BY <1>1 DEF TypeInv, StartInv
  <2> QED
    BY <2>1, Typed
<1>4. PICK k \in 1 .. 8 : period = 1000 * k + 150 * round
  BY <1>1 DEF TypeInv, PeriodInv
<1>5. x \in Nat /\ t \in Timers(x) /\ t.arr = tim.arr
  BY <1>3, WaitTypes
<1>6. a \in Nat /\ b \in Nat /\ lost \in BOOLEAN /\ PeriodOf(tim) \in Nat
  BY <1>2, <1>3, HostTypes, PeriodPositive DEF Losses
<1>7. time(a, lost) \in Int
  BY <1>3, <1>5, <1>6, ReadingTypes
<1> HIDE DEF x, t, time
<1>8. delays' \in DelayTypes /\ delays'.calls > 0
  <2>1. /\ Noted(delays, a, b, PeriodOf(tim), lost) \in DelayTypes
        /\ Noted(delays, a, b, PeriodOf(tim), lost).calls > 0
    BY <1>3, <1>6, NotedTypes
  <2> QED
    BY <1>2, <2>1
<1>9. now' \in Nat /\ now' >= x
  BY <1>2, <1>5, <1>6
<1>10. TIM1(t, now') \in Timers(now') /\ TIM1(t, now').arr = t.arr
  BY <1>5, <1>9, TimerLater
<1>11. CASE /\ at' = "wrongClock" /\ wallTime' = wallTime /\ period' = period /\ round' = round
            /\ tim' = Stopped(TIM1(t, now'))
  <2>1. Stopped(TIM1(t, now')) \in Timers(now')
    BY <1>9, <1>10, Stops
  <2>2. TypeOK'
    BY <1>1, <1>8, <1>9, <1>11, <2>1, Typed DEF TypeOK, Timers, DelayTypes, Ended
  <2> QED
    BY <1>11, <2>1, <2>2 DEF TypeInv, PeriodInv, StartInv, Ended
<1>12. CASE /\ at' = IF lastRound THEN "passed" ELSE "interval"
            /\ wallTime' = time(a, lost) /\ period' = longer(period) /\ round' = round + 1
            /\ tim' = Lengthened(TIM1(t, now'), period', ~lastRound)
  <2>1. period' \in Nat \ {0} /\ period' = 1000 * k + 150 * round' /\ round' \in 0 .. 5
    BY <1>3, <1>4, <1>12, Typed DEF longer
  <2>2. PICK e \in BOOLEAN : e = ~lastRound
    BY Zenon
  <2>3. tim' = Lengthened(TIM1(t, now'), period', e)
    BY <1>12, <2>2, Zenon
  <2>4. /\ tim' \in Timers(now') /\ tim'.arr = halfTicks(period') /\ tim'.enabled = e
    <3>1. /\ Lengthened(TIM1(t, now'), period', e) \in Timers(now')
          /\ Lengthened(TIM1(t, now'), period', e).arr = halfTicks(period')
          /\ Lengthened(TIM1(t, now'), period', e).enabled = e
      BY <1>9, <1>10, <2>1, Lengthens
    <3> QED
      BY <2>3, <3>1
  <2>5. /\ at' \in {"passed", "interval"}
        /\ at' = "interval" => e = TRUE /\ ~lastRound
    BY <1>12, <2>2, Zenon
  <2>6. at' = "interval" => round' <= 4 /\ tim'.enabled = TRUE
    BY <1>3, <1>12, <2>4, <2>5 DEF lastRound
  <2>7. TypeOK'
    BY <1>1, <1>7, <1>8, <1>9, <1>12, <2>1, <2>4, <2>5, Typed DEF TypeOK, Timers, DelayTypes, Ended
  <2>8. PeriodInv'
    <3>1. tim'.arr = 2 * period' - 1
      BY <2>1, <2>4 DEF halfTicks
    <3> QED
      BY <2>1, <2>4, <2>5, <3>1 DEF PeriodInv, Ended
  <2>9. StartInv'
    BY <1>8, <2>5, <2>6 DEF StartInv
  <2> QED
    BY <2>5, <2>7, <2>8, <2>9 DEF TypeInv
<1> QED
  BY <1>2, <1>11, <1>12

-----------------------------------------------------------------------------
\* A clock that keeps time counts milliseconds.
LEMMA SteadyMs ==
  ASSUME host \in Hosts, host.rate = 1000, NEW x \in Nat
  PROVE  HostMs(x) = host.phase + x
BY SMT, HostTypes DEF HostMs

\* A step of whole seconds is seen as such.
LEMMA SteadySeconds ==
  ASSUME NEW h \in Nat, NEW m \in Nat
  PROVE  ((h + 1000 * m) \div 1000) - (h \div 1000) = m
BY SMT

\* A step of whole hundredths, late or early by 40 ms, is seen so within 40 ms.
LEMMA SteadyCentis ==
  ASSUME NEW h \in Nat, NEW q \in Nat, NEW j \in -40 .. 40, h + 10 * q + j \in Nat
  PROVE  /\ (((h + 10 * q + j) \div 10) - (h \div 10)) * 10 >= 10 * q - 40
         /\ (((h + 10 * q + j) \div 10) - (h \div 10)) * 10 <= 10 * q + 40
BY SMT

\* What a clock that started at h shows after u thousandths of a millisecond.
SecondsAt(h, u) == (h + u \div 1000) \div 1000
CentisAt(h, u)  == (h + u \div 1000) \div 10

\* A step of d on a clock that g thousandths of a millisecond account for.
SecondsStep(d, g) == d \in Nat /\ 1000000 * d <= g + 999999 /\ 1000000 * d >= g - 999999
CentisStep(d, g)  == d \in Nat /\ 10000 * d <= g + 9999 /\ 10000 * d >= g - 9999

\* The seconds between two readings are within one of those that passed,
LEMMA FloorsSeconds ==
  ASSUME NEW h \in Nat, NEW u \in Nat, NEW g \in Nat
  PROVE  SecondsStep(SecondsAt(h, u + g) - SecondsAt(h, u), g)
<1> DEFINE A == u \div 1000
           B == (u + g) \div 1000
<1>1. /\ A \in Nat /\ B \in Nat /\ A <= B
      /\ 1000 * (B - A) <= g + 999 /\ 1000 * (B - A) >= g - 999
  BY SMT
<1> HIDE DEF A, B
<1> DEFINE d == ((h + B) \div 1000) - ((h + A) \div 1000)
<1>2. d \in Nat /\ 1000 * d <= (B - A) + 999 /\ 1000 * d >= (B - A) - 999
  BY <1>1, SMT
<1>3. SecondsAt(h, u + g) - SecondsAt(h, u) = d
  BY Zenon DEF SecondsAt, A, B
<1> HIDE DEF d
<1>4. SecondsStep(d, g)
  BY <1>1, <1>2, SMT DEF SecondsStep
<1> QED
  BY <1>3, <1>4, Zenon

\* and so the hundredths.
LEMMA FloorsCentis ==
  ASSUME NEW h \in Nat, NEW u \in Nat, NEW g \in Nat
  PROVE  CentisStep(CentisAt(h, u + g) - CentisAt(h, u), g)
<1> DEFINE A == u \div 1000
           B == (u + g) \div 1000
<1>1. /\ A \in Nat /\ B \in Nat /\ A <= B
      /\ 1000 * (B - A) <= g + 999 /\ 1000 * (B - A) >= g - 999
  BY SMT
<1> HIDE DEF A, B
<1> DEFINE d == ((h + B) \div 10) - ((h + A) \div 10)
<1>2. d \in Nat /\ 10 * d <= (B - A) + 9 /\ 10 * d >= (B - A) - 9
  BY <1>1, SMT
<1>3. CentisAt(h, u + g) - CentisAt(h, u) = d
  BY SMT DEF CentisAt, A, B
<1> HIDE DEF d
<1>4. CentisStep(d, g)
  BY <1>1, <1>2, SMT DEF CentisStep
<1> QED
  BY <1>3, <1>4, Zenon

\* Off by no more than c over n milliseconds and j, or J, more.
SeenOff(r, n, j, c) == 1000 * n - (n + j) * r <= c /\ (n + j) * r - 1000 * n <= c
TrulyOff(r, n, J, c) == Off(r) * n <= c + J * r

\* A clock seen to be off by no more than c thousandths of a millisecond over n
\* milliseconds, give or take J, has a rate that is.
LEMMA OffBound ==
  ASSUME NEW r \in Nat, NEW n \in Nat, NEW J \in Nat, NEW j \in -J .. J, NEW c \in Nat,
         SeenOff(r, n, j, c)
  PROVE  TrulyOff(r, n, J, c)
<1> DEFINE g == (n + j) * r
<1>a. 1000 * n - g <= c /\ g - 1000 * n <= c
  BY Zenon DEF SeenOff
<1> DEFINE nr == n * r
           jr == j * r
           Jr == J * r
<1>1. g = nr + jr /\ nr \in Nat /\ jr \in Int /\ Jr \in Nat /\ g \in Int
  BY SMTT(30)
<1> HIDE DEF g
<1>2. jr <= Jr
  BY SMTT(30)
<1>3. -Jr <= jr
  BY SMTT(30)
<1>4. CASE r > 1000
  <2>1. Off(r) * n = nr - 1000 * n
    BY <1>4, SMTT(30) DEF Off
  <2> HIDE DEF nr, jr, Jr
  <2>2. Off(r) * n <= c + Jr
    BY <1>1, <1>3, <1>a, <2>1, SMT
  <2> QED
    BY <2>2 DEF Jr, TrulyOff
<1>5. CASE r <= 1000
  <2>1. Off(r) * n = 1000 * n - nr
    BY <1>5, SMTT(30) DEF Off
  <2> HIDE DEF nr, jr, Jr
  <2>2. Off(r) * n <= c + Jr
    BY <1>1, <1>2, <1>a, <2>1, SMT
  <2> QED
    BY <2>2 DEF Jr, TrulyOff
<1> QED
  BY <1>4, <1>5

Seconds(y, z) == ((HostMs(z) \div 1000) - (HostMs(y) \div 1000)) * 1000
Centis(y, z)  == ((HostMs(z) \div 10) - (HostMs(y) \div 10)) * 10

\* What the two tests compare: the clock read at y and e later, and a period of
\* n milliseconds.
SecondsFound(y, e, n) == Wrap(Seconds(y, y + e)) = n
CentisFound(y, e, n)  == Wrap(Centis(y, y + e)) >= n - 40 /\ Wrap(Centis(y, y + e)) <= n + 40

\* A small number survives the wrapping.
LEMMA NoWrap == \A n \in 0 .. Word - 1 : Wrap(n) = n
BY WordTypes DEF Wrap

\* The comparison in testTimekeeping is one of the host's seconds, whatever the
\* wrap between them.
LEMMA StepCompared ==
  ASSUME host \in Hosts, NEW y \in Nat, NEW z \in Nat, startTime = HostSeconds(y)
  PROVE  stepMatches(HostSeconds(z)) <=> Wrap(Seconds(y, z)) = PeriodOf(tim) * (round + 1)
<1> DEFINE sy == Epoch + HostMs(y) \div 1000
           sz == Epoch + HostMs(z) \div 1000
<1>1. HostMs(y) \in Nat /\ HostMs(z) \in Nat /\ Word \in Nat \ {0} /\ Epoch \in Nat
  BY ReadingTypes, WordTypes
<1>2. sy \in Int /\ sz \in Int /\ (sz - sy) * 1000 = Seconds(y, z)
  BY <1>1 DEF Seconds
<1>3. startTime = sy % Word /\ HostSeconds(z) = sz % Word
  BY DEF HostSeconds, Wrap
<1> HIDE DEF sy, sz
<1>4. Scaled(Word, (sz % Word) - (sy % Word)) = Scaled(Word, sz - sy)
  <2>1. Word \in Nat \ {0} /\ sy \in Int /\ sz \in Int
    BY <1>1, <1>2
  <2> QED
    BY <2>1, WrappedDifference, Zenon
<1>5. Wrap((HostSeconds(z) - startTime) * 1000) = Wrap(Seconds(y, z))
  BY <1>2, <1>3, <1>4 DEF Wrap, Scaled
<1> QED
  BY <1>5, ZenonT(60) DEF stepMatches

\* A steady clock passes it.
LEMMA SecondsMatched ==
  ASSUME host \in Hosts, host.rate = 1000, NEW y \in Nat, NEW m \in 1 .. 40
  PROVE  Wrap(Seconds(y, y + 1000 * m)) = 1000 * m
<1> DEFINE h == host.phase + y
<1>1. host.phase \in Nat /\ h \in Nat /\ y + 1000 * m \in Nat
  BY HostTypes
<1>2. HostMs(y) = h /\ HostMs(y + 1000 * m) = h + 1000 * m
  BY <1>1, SteadyMs
<1> HIDE DEF h
<1>3. Seconds(y, y + 1000 * m) = m * 1000
  BY <1>1, <1>2, SteadySeconds DEF Seconds
<1>4. m * 1000 = 1000 * m /\ 1000 * m \in 0 .. Word - 1
  BY SMT, WordTypes
<1> QED
  BY <1>3, <1>4, NoWrap

KeepsTime == host.rate = 1000

\* An interval of e milliseconds that is a period of testIntervals, give or take
\* 40 ms.
Tolerated(e, n) ==
    \E q \in Nat, j \in Int :
        100 <= q /\ q <= 1000 /\ -40 <= j /\ j <= 40 /\ n = 10 * q /\ e = n + j

\* A steady clock read late or early by 40 ms passes the one in testIntervals.
LEMMA CentisMatched ==
  ASSUME host \in Hosts, KeepsTime, NEW y \in Nat, NEW e \in Nat, NEW n \in Nat, Tolerated(e, n)
  PROVE  CentisFound(y, e, n)
<1> PICK q \in Nat, j \in Int :
            100 <= q /\ q <= 1000 /\ -40 <= j /\ j <= 40 /\ n = 10 * q /\ e = n + j
  BY SMT DEF Tolerated
<1> DEFINE h == host.phase + y
           z == y + e
           d == Centis(y, z)
<1>1. host.phase \in Nat /\ h \in Nat /\ z \in Nat /\ h + 10 * q + j \in Nat
      /\ z = y + 10 * q + j
  BY HostTypes
<1>2. host.rate = 1000
  BY DEF KeepsTime
<1>3. HostMs(y) = h /\ HostMs(z) = h + 10 * q + j
  BY <1>1, <1>2, SteadyMs
<1> HIDE DEF h, z
<1>4. d >= 10 * q - 40 /\ d <= 10 * q + 40 /\ d \in Int
  BY <1>1, <1>3, SteadyCentis DEF Centis
<1> HIDE DEF d
<1>5. d \in 0 .. Word - 1
  BY <1>4, WordTypes, SMT
<1>6. Wrap(d) = d
  BY <1>5, NoWrap
<1>7. CentisFound(y, e, n) <=> Wrap(d) >= n - 40 /\ Wrap(d) <= n + 40
  BY DEF CentisFound, d, z
<1> QED
  BY <1>4, <1>6, <1>7

\* A clock slow enough that a comparison of it cannot wrap.
Tellable(r) == 50 * r <= Word

\* A period of n milliseconds, at either end of which the clock is read after
\* delays that differ by j.
LastsSeconds(e, n, j) == n <= 40000 /\ e <= 48000 /\ e = n + j
LastsCentis(e, n, j)  == e <= 20000 /\ e = n + j

\* What a test that finds it says of the clock.
Second      == 1000000
CentiLimit  == 50000
OffSeconds(r, n, J) == TrulyOff(r, n, J, Second)
OffCentis(r, n, J)  == TrulyOff(r, n, J, CentiLimit)

\* What the host's clock shows at y and e later, its rate and phase apart.
SecondsApart(y, e) ==
    /\ HostMs(y + e) \div 1000 = SecondsAt(host.phase, y * host.rate + e * host.rate)
    /\ HostMs(y) \div 1000 = SecondsAt(host.phase, y * host.rate)

CentisApart(y, e) ==
    /\ HostMs(y + e) \div 10 = CentisAt(host.phase, y * host.rate + e * host.rate)
    /\ HostMs(y) \div 10 = CentisAt(host.phase, y * host.rate)

\* Every reading is that.
LEMMA ReadingsApart ==
  ASSUME host \in Hosts, NEW y \in Nat, NEW e \in Nat
  PROVE  SecondsApart(y, e) /\ CentisApart(y, e)
<1> DEFINE r == host.rate
<1>1. r \in Nat
  BY HostTypes
<1> HIDE DEF r
<1>2. (y + e) * r = y * r + e * r
  BY <1>1, SMTT(30)
<1>3. HostMs(y + e) = host.phase + ((y + e) * r) \div 1000
  BY SMT DEF HostMs, r
<1>4. HostMs(y + e) = host.phase + (y * r + e * r) \div 1000
  BY <1>2, <1>3, SMT
<1>5. HostMs(y) = host.phase + (y * r) \div 1000
  BY SMT DEF HostMs, r
<1>6. SecondsApart(y, e) /\ CentisApart(y, e)
  BY <1>4, <1>5, SMT DEF SecondsAt, CentisAt, SecondsApart, CentisApart, r
<1> QED
  BY <1>6

\* A clock that counts a period as it is in whole seconds is off by less than
\* one second.
LEMMA SecondsJudged ==
  ASSUME host \in Hosts, Tellable(host.rate), NEW y \in Nat, NEW e \in Nat, NEW n \in Nat,
         NEW J \in Nat, NEW j \in -J .. J, LastsSeconds(e, n, j), SecondsFound(y, e, n)
  PROVE  OffSeconds(host.rate, n, J)
<1> DEFINE r == host.rate
           h == host.phase
           u == y * r
           g == e * r
           d == SecondsAt(h, u + g) - SecondsAt(h, u)
<1>1. r \in Nat /\ h \in Nat
  BY HostTypes, Zenon
<1>2. u \in Nat /\ g \in Nat
  <2> HIDE DEF r
  <2> QED
    BY <1>1, SMTT(30)
<1>3. Seconds(y, y + e) = d * 1000
  <2>1. SecondsApart(y, e)
    BY ReadingsApart, Zenon
  <2> QED
    BY <2>1, SMT DEF SecondsApart, Seconds
<1>c. j \in Int
  OBVIOUS
<1>d. e = n + j
  BY SMT DEF LastsSeconds
<1>4. n <= 40000 /\ e <= 48000
  BY <1>c, SMT DEF LastsSeconds
<1>5. g <= 48000 * r
  <2> HIDE DEF r
  <2> QED
    BY <1>1, <1>4, SMTT(30)
<1>b. g = (n + j) * r
  BY <1>d, Zenon
<1>6. 50 * r <= Word
  BY SMT DEF Tellable
<1>7. Wrap(d * 1000) = n
  BY <1>3, ZenonT(60) DEF SecondsFound
<1> HIDE DEF r, h, u, g
<1>8. SecondsStep(d, g)
  BY <1>1, <1>2, FloorsSeconds, Zenon
<1> HIDE DEF d
<1>9. d \in Nat /\ 1000000 * d <= g + 999999 /\ 1000000 * d >= g - 999999
  BY <1>8, SMT DEF SecondsStep
<1>10. d * 1000 \in 0 .. Word - 1
  BY <1>1, <1>2, <1>5, <1>6, <1>9, WordTypes, SMT
<1>11. d * 1000 = n
  BY <1>7, <1>10, NoWrap
<1>12. 1000 * n - g <= 1000000 /\ g - 1000 * n <= 1000000
  BY <1>2, <1>4, <1>9, <1>11, SMT
<1>13. SeenOff(r, n, j, Second) /\ Second \in Nat
  BY <1>12, <1>4, <1>b, <1>c, SMT DEF SeenOff, Second
<1>14. TrulyOff(r, n, J, Second)
  BY <1>1, <1>13, OffBound, Zenon
<1> QED
  BY <1>14, Zenon DEF OffSeconds, r

\* A clock that counts one give or take 40 ms is off by less than 50 ms.
LEMMA CentisJudged ==
  ASSUME host \in Hosts, Tellable(host.rate), NEW y \in Nat, NEW e \in Nat, NEW n \in Nat,
         NEW J \in Nat, NEW j \in -J .. J, LastsCentis(e, n, j), CentisFound(y, e, n)
  PROVE  OffCentis(host.rate, n, J)
<1> DEFINE r == host.rate
           h == host.phase
           u == y * r
           g == e * r
           d == CentisAt(h, u + g) - CentisAt(h, u)
<1>1. r \in Nat /\ h \in Nat
  BY HostTypes, Zenon
<1>2. u \in Nat /\ g \in Nat
  <2> HIDE DEF r
  <2> QED
    BY <1>1, SMTT(30)
<1>3. Centis(y, y + e) = d * 10
  <2>1. CentisApart(y, e)
    BY ReadingsApart, Zenon
  <2> QED
    BY <2>1, SMT DEF CentisApart, Centis
<1>c. j \in Int
  OBVIOUS
<1>d. e = n + j
  BY SMT DEF LastsCentis
<1>4. e <= 20000
  BY SMT DEF LastsCentis
<1>5. g <= 20000 * r
  <2> HIDE DEF r
  <2> QED
    BY <1>1, <1>4, SMTT(30)
<1>b. g = (n + j) * r
  BY <1>d, Zenon
<1>6. 50 * r <= Word
  BY SMT DEF Tellable
<1>7. Wrap(d * 10) >= n - 40 /\ Wrap(d * 10) <= n + 40
  BY <1>3, SMT DEF CentisFound
<1> HIDE DEF r, h, u, g
<1>8. CentisStep(d, g)
  BY <1>1, <1>2, FloorsCentis, Zenon
<1> HIDE DEF d
<1>9. d \in Nat /\ 10000 * d <= g + 9999 /\ 10000 * d >= g - 9999
  BY <1>8, SMT DEF CentisStep
<1>10. d * 10 \in 0 .. Word - 1
  BY <1>1, <1>2, <1>5, <1>6, <1>9, WordTypes, SMT
<1>11. d * 10 >= n - 40 /\ d * 10 <= n + 40
  BY <1>7, <1>10, NoWrap
<1>12. 1000 * n - g <= 50000 /\ g - 1000 * n <= 50000
  BY <1>2, <1>4, <1>9, <1>11, SMT
<1>13. SeenOff(r, n, j, CentiLimit) /\ CentiLimit \in Nat
  BY <1>12, <1>4, <1>b, <1>c, SMT DEF SeenOff, CentiLimit
<1>14. TrulyOff(r, n, J, CentiLimit)
  BY <1>1, <1>13, OffBound, Zenon
<1> QED
  BY <1>14, Zenon DEF OffCentis, r

-----------------------------------------------------------------------------
Undisturbed == ~delays.lost /\ ~delays.slow

\* The same host shows the same.
LEMMA ReadingsKept ==
  ASSUME host' = host, NEW x
  PROVE  HostSeconds(x)' = HostSeconds(x) /\ HostCentis(x)' = HostCentis(x)
BY Zenon DEF HostSeconds, HostCentis, HostMs

\* The time that testTimekeeping starts from was read in the timer's first
\* period.
LEMMA CalibrateSeconds ==
  ASSUME TypeInv, calibrate
  PROVE  SecondsInv'
<1> DEFINE time(a, lost) == IF lost THEN UINT32_MAX ELSE HostSeconds(now + a)
           P == PeriodOf(tim)
<1>1. at = "calibrate" /\ host' = host /\ round' = round
  BY Zenon DEF calibrate
<1>2. PICK a \in host.before, b \in host.after, lost \in Losses :
        /\ delays' = Noted(NoDelays, a, b, P, lost)
        /\ at' = "time" => tim' = tim /\ startTime' = time(a, lost)
  <2>1. PICK a \in host.before, b \in host.after, lost \in Losses :
        /\ delays' = Noted(NoDelays, a, b, P, lost)
        /\ IF expired(a, b)
           THEN at' = IF furtherPeriod(tim') THEN "calibrate" ELSE "noTimer"
           ELSE tim' = tim /\ startTime' = time(a, lost)
    BY Zenon DEF calibrate
  <2>2. at' = "time" => ~expired(a, b)
    BY <2>1
  <2> QED
    BY <2>1, <2>2, Zenon
<1>3. SUFFICES ASSUME at' = "time", Undisturbed'
               PROVE  /\ tim'.uif = FALSE
                      /\ a \in delays'.min .. delays'.max
                      /\ a < PeriodOf(tim')
                      /\ tim'.base >= round' * PeriodOf(tim')
                      /\ startTime' = HostSeconds(tim.base - round * PeriodOf(tim) + a)'
  BY Zenon DEF SecondsInv, Disturbed, Undisturbed
<1>4. tim.base = now /\ tim.uif = FALSE /\ round = 0
  BY <1>1 DEF TypeInv, StartInv
<1>5. lost \in BOOLEAN
  BY <1>2, Typed, HostTypes, Zenon DEF Losses
<1>6. delays' = Noted(NoDelays, a, b, P, lost)
  BY <1>2, Zenon
<1>7. a \in Nat /\ b \in Nat /\ now \in Nat /\ P \in Nat
  BY <1>2, HostTypes, Typed, PeriodPositive
<1>8. NoDelays \in DelayTypes
  BY DEF NoDelays, DelayTypes
<1>9. lost = FALSE /\ a + b < P
  <2>1. ~Noted(NoDelays, a, b, P, lost).lost /\ ~Noted(NoDelays, a, b, P, lost).slow
    BY <1>3, <1>6, Zenon DEF Undisturbed
  <2> HIDE DEF P
  <2> QED
    BY <2>1, <1>5, <1>7, <1>8, NotedUndisturbed, Zenon
<1>10. startTime' = HostSeconds(now + a)
  BY <1>2, <1>3, <1>9, Zenon
<1>11. delays'.min = a /\ delays'.max = a
  BY <1>6 DEF Noted, NoDelays
<1>12. tim' = tim
  BY <1>2, <1>3, Zenon
<1> HIDE DEF P
<1>13. /\ a \in delays'.min .. delays'.max /\ a < P /\ tim.base >= round * P
       /\ tim.base - round * P + a = now + a
  BY <1>4, <1>7, <1>9, <1>11
<1>14. HostSeconds(tim.base - round * P + a)' = HostSeconds(now + a)
  <2>1. HostSeconds(now + a) = HostSeconds(tim.base - round * P + a)
    BY <1>13, Zenon
  <2>2. HostSeconds(tim.base - round * P + a)' = HostSeconds(tim.base - round * P + a)
    BY <1>1, <1>12, Zenon DEF HostSeconds, HostMs, P, PeriodOf
  <2> QED
    BY <2>1, <2>2, Zenon
<1>15. tim'.uif = FALSE
  BY <1>4, <1>12
<1>16. a < PeriodOf(tim') /\ tim'.base >= round' * PeriodOf(tim')
  BY <1>1, <1>12, <1>13, Zenon DEF P
<1> QED
  BY <1>10, <1>13, <1>14, <1>15, <1>16, Zenon DEF P

\* The time point that testIntervals starts from was read in the running period.
LEMMA FirstClockCentis ==
  ASSUME TypeInv, firstClock
  PROVE  CentisInv'
<1> DEFINE time(a, lost) == IF lost THEN -1 ELSE HostCentis(now + a)
           P == PeriodOf(tim)
<1>1. at = "firstClock" /\ host' = host
  BY Zenon DEF firstClock
<1>2. PICK a \in host.before, b \in host.after, lost \in Losses :
        /\ now' = now + a + b
        /\ wallTime' = time(a, lost)
        /\ delays' = Noted(NoDelays, a, b, P, lost)
        /\ at' = "interval" => tim' = TIM1(tim, now')
  <2>1. PICK a \in host.before, b \in host.after, lost \in Losses :
        /\ now' = now + a + b
        /\ wallTime' = time(a, lost)
        /\ delays' = Noted(NoDelays, a, b, P, lost)
        /\ IF time(a, lost) = -1 THEN at' = "noClock" ELSE tim' = TIM1(tim, now')
    BY Zenon DEF firstClock
  <2>2. at' = "interval" => time(a, lost) # -1
    BY <2>1
  <2> QED
    BY <2>1, <2>2, Zenon
<1>3. SUFFICES ASSUME at' = "interval", Undisturbed'
               PROVE  /\ tim'.uif = FALSE
                      /\ a \in delays'.min .. delays'.max
                      /\ a < PeriodOf(tim')
                      /\ wallTime' = HostCentis(tim.base + a)'
  BY Zenon DEF CentisInv, Disturbed, Undisturbed
<1>4. tim.base = now /\ tim.uif = FALSE
  BY <1>1 DEF TypeInv, StartInv
<1>7. a \in Nat /\ b \in Nat /\ now \in Nat /\ P \in Nat /\ lost \in BOOLEAN
  BY <1>2, HostTypes, Typed, PeriodPositive DEF Losses
<1>8. NoDelays \in DelayTypes
  BY DEF NoDelays, DelayTypes
<1>9. lost = FALSE /\ a + b < P
  <2>1. ~Noted(NoDelays, a, b, P, lost).lost /\ ~Noted(NoDelays, a, b, P, lost).slow
    BY <1>2, <1>3, Zenon DEF Undisturbed
  <2> HIDE DEF P
  <2> QED
    BY <2>1, <1>7, <1>8, NotedUndisturbed, Zenon
<1>10. wallTime' = HostCentis(now + a)
  BY <1>2, <1>9, Zenon
<1>11. delays'.min = a /\ delays'.max = a
  BY <1>2 DEF Noted, NoDelays
<1>12. tim' = tim
  <2>1. now' \in Nat /\ now' < tim.base + P
    BY <1>2, <1>4, <1>7, <1>9
  <2>2. TIM1(tim, now') = tim
    BY <2>1, Typed, TimerRests
  <2> QED
    BY <1>2, <1>3, <2>2, Zenon
<1> HIDE DEF P
<1>13. a \in delays'.min .. delays'.max /\ a < P
  BY <1>7, <1>9, <1>11
<1>14. HostCentis(tim.base + a)' = HostCentis(now + a)
  <2>1. HostCentis(tim.base + a)' = HostCentis(tim.base + a)
    BY <1>1, <1>12, Zenon DEF HostCentis, HostMs
  <2> QED
    BY <1>4, <2>1, Zenon
<1>15. tim'.uif = FALSE
  BY <1>4, <1>12
<1> QED
  BY <1>10, <1>12, <1>13, <1>14, <1>15, Zenon DEF P

\* A loop that waits for the end of a period goes on at the start of the next,
\* which a call that takes less than it does not leave.
LEMMA PeriodBegins ==
  ASSUME NEW n \in Nat, NEW t \in Timers(n), t.enabled = TRUE, t.uif = FALSE,
         NEW c \in Nat, c < PeriodOf(t)
  PROVE  /\ WaitUIF(t, n) = t.base + PeriodOf(t)
         /\ Seen(t, n).base = WaitUIF(t, n)
         /\ TIM1(Seen(t, n), WaitUIF(t, n) + c) = Seen(t, n)
<1> DEFINE x == WaitUIF(t, n)
           s == Seen(t, n)
           P == PeriodOf(t)
<1>1. x = t.base + P
  BY Zenon DEF WaitUIF
<1>2. TIM1(t, x).base = x
  <2>1. TIM1(t, t.base + P).base = t.base + P
    BY TimerExpired, Zenon
  <2> QED
    BY <1>1, <2>1, Zenon
<1>3. x \in Nat /\ s \in Timers(x) /\ s.arr = t.arr
  BY WaitTypes
<1>4. x >= t.base
  BY <1>1, PeriodPositive DEF Timers
<1>5. s.base = x
  <2>1. s = [TIM1(t, x) EXCEPT !.uif = FALSE]
    BY Zenon DEF Seen
  <2> HIDE DEF s, x
  <2>2. TIM1(t, x) \in Timers(x)
    BY <1>3, <1>4, TimerType
  <2> QED
    BY <1>2, <2>1, <2>2 DEF Timers
<1>6. PeriodOf(s) = P
  <2> HIDE DEF s
  <2> QED
    BY <1>3, Zenon DEF PeriodOf
<1>7. TIM1(s, x + c) = s
  <2> HIDE DEF s, x
  <2>1. x + c \in Nat /\ x + c < s.base + PeriodOf(s)
    BY <1>3, <1>5, <1>6, PeriodPositive
  <2> QED
    BY <2>1, <1>3, TimerRests
<1> QED
  BY <1>1, <1>5, <1>7

\* A period of the calibration, and its multiples in the rounds of the test.
InSeconds(P) == P = 1000 \/ P = 2000 \/ P = 3000 \/ P = 4000 \/ P = 5000 \/ P = 6000 \/ P = 7000 \/ P = 8000
Fits(q)      == q \in Nat /\ q <= 32000
Multiples(P, r) == Fits(r * P) /\ P * (r + 1) = r * P + P /\ (r + 1) * P = r * P + P

\* They are those of a few rounds.
LEMMA Rounds ==
  ASSUME NEW P \in Nat, InSeconds(P), NEW r \in 0 .. 4
  PROVE  Multiples(P, r)
<1>1. r = 0 \/ r = 1 \/ r = 2 \/ r = 3 \/ r = 4
  OBVIOUS
<1>2. P <= 8000
  BY SMT DEF InSeconds
<1>3. Multiples(P, 0)
  BY <1>2, SMT DEF Multiples, Fits
<1>4. Multiples(P, 1)
  BY <1>2, SMT DEF Multiples, Fits
<1>5. Multiples(P, 2)
  BY <1>2, SMT DEF Multiples, Fits
<1>6. Multiples(P, 3)
  BY <1>2, SMT DEF Multiples, Fits
<1>7. Multiples(P, 4)
  BY <1>2, SMT DEF Multiples, Fits
<1> QED
  BY <1>1, <1>3, <1>4, <1>5, <1>6, <1>7, Zenon

\* A round of testTimekeeping in which the call came back within the period: it
\* read the clock after a delay a, and startTime after a0, round + 1 periods
\* apart.
TimeStep(a, a0, y, e, n) ==
    /\ y \in Nat /\ e \in Nat /\ n \in Nat
    /\ a0 \in delays'.min .. delays'.max
    /\ a \in delays'.min .. delays'.max
    /\ a0 < PeriodOf(tim) /\ a < PeriodOf(tim)
    /\ n = PeriodOf(tim) * (round + 1)
    /\ LastsSeconds(e, n, a - a0)
    /\ startTime = HostSeconds(y)
    /\ \/ at' = "wrongTime" /\ ~SecondsFound(y, e, n)
       \/ at' = "intervals" /\ round = 4 /\ SecondsFound(y, e, n) /\ tim'.arr = tim.arr
       \/ /\ at' = "time" /\ round' = round + 1 /\ tim'.arr = tim.arr /\ tim'.uif = FALSE
          /\ tim'.base >= round' * PeriodOf(tim)
          /\ y = tim'.base - round' * PeriodOf(tim) + a0

\* Every undisturbed round is one.
LEMMA TimeSteps ==
  ASSUME TypeInv, SecondsInv, timeRound, Undisturbed'
  PROVE  \E a, a0, y, e, n : TimeStep(a, a0, y, e, n)
<1> DEFINE x == WaitUIF(tim, now)
           t == Seen(tim, now)
           time(a, lost) == IF lost THEN UINT32_MAX ELSE HostSeconds(x + a)
           P == PeriodOf(tim)
<1>1. at = "time" /\ host' = host /\ startTime' = startTime
  BY Zenon DEF timeRound
<1>2. PICK a \in host.before, b \in host.after, lost \in Losses :
        /\ now' = x + a + b
        /\ delays' = Noted(delays, a, b, P, lost)
        /\ \/ at' = "wrongTime" /\ ~stepMatches(time(a, lost)) /\ tim' = Stopped(TIM1(t, now'))
           \/ /\ at' = "intervals" /\ stepMatches(time(a, lost)) /\ lastRound
              /\ tim' = Stopped(TIM1(t, now'))
           \/ at' = "time" /\ round' = round + 1 /\ tim' = TIM1(t, now')
  BY Zenon DEF timeRound, Seen, Stopped
<1>3. /\ tim \in Timers(now) /\ now \in Nat /\ delays \in DelayTypes /\ round \in 0 .. 4
      /\ tim.enabled = TRUE /\ host \in Hosts /\ P \in Nat \ {0} /\ tim.base \in Nat
  <2>1. round <= 4
    BY <1>1 DEF TypeInv, StartInv
  <2>2. tim.enabled = TRUE
    BY <1>1 DEF TypeInv, StartInv
  <2> QED
    BY <2>1, <2>2, Typed, PeriodPositive
<1>4. PICK k \in 1 .. 8 : tim.arr = 2000 * k - 1
  BY <1>1 DEF TypeInv, PeriodInv, Ended
<1>5. P = 1000 * k
  BY <1>4 DEF PeriodOf
<1>6. a \in Nat /\ b \in Nat /\ lost \in BOOLEAN
  BY <1>2, <1>3, HostTypes DEF Losses
<1>7. ~delays.lost /\ ~delays.slow /\ lost = FALSE /\ a + b < P
  <2>1. ~Noted(delays, a, b, P, lost).lost /\ ~Noted(delays, a, b, P, lost).slow
    BY <1>2, Zenon DEF Undisturbed
  <2>2. P \in Nat
    BY <1>3
  <2> HIDE DEF P
  <2> QED
    BY <2>1, <2>2, <1>3, <1>6, NotedUndisturbed, Zenon
<1>8. PICK a0 \in delays.min .. delays.max :
        /\ tim.uif = FALSE
        /\ a0 < P
        /\ tim.base >= round * P
        /\ startTime = HostSeconds(tim.base - round * P + a0)
  BY <1>1, <1>7, Zenon DEF SecondsInv, Disturbed
<1>9. delays.min \in Nat /\ delays.max \in Nat /\ a0 \in Nat
  BY <1>8, Typed
<1>10. delays.calls > 0
  BY <1>1 DEF TypeInv, StartInv
<1> HIDE DEF P
<1>11. /\ delays' \in DelayTypes /\ a \in delays'.min .. delays'.max
       /\ a0 \in delays'.min .. delays'.max
  <2>1. Noted(delays, a, b, P, lost) \in DelayTypes
    BY <1>3, <1>6, NotedTypes
  <2>2. /\ Noted(delays, a, b, P, lost).min <= a /\ a <= Noted(delays, a, b, P, lost).max
        /\ delays.calls > 0 => /\ Noted(delays, a, b, P, lost).min <= delays.min
                               /\ delays.max <= Noted(delays, a, b, P, lost).max
    BY <1>3, <1>6, NotedCall
  <2>3. delays' \in DelayTypes /\ delays'.min \in Nat /\ delays'.max \in Nat
    BY <1>2, <2>1 DEF DelayTypes
  <2>4. delays'.min <= a /\ a <= delays'.max /\ delays'.min <= delays.min /\ delays.max <= delays'.max
    BY <1>2, <1>10, <2>2
  <2> QED
    BY <1>6, <1>9, <2>3, <2>4
<1>12. x = tim.base + P /\ t.base = x /\ TIM1(t, x + (a + b)) = t
  <2>1. a + b \in Nat
    BY <1>6
  <2> QED
    BY <2>1, <1>3, <1>7, <1>8, PeriodBegins DEF P
<1>13. t.uif = FALSE /\ t.arr = tim.arr /\ t \in Timers(x)
  BY <1>3, WaitTypes, ZenonT(30)
<1> HIDE DEF x, t
<1>14. TIM1(t, now') = t /\ Stopped(t).arr = tim.arr
  <2>1. now' = x + (a + b)
    BY <1>2, <1>3, <1>6, <1>12
  <2>2. x \in Nat
    <3>1. tim.base \in Nat /\ P \in Nat
      BY <1>3
    <3>2. x = tim.base + P
      BY <1>12, Zenon
    <3> QED
      BY <3>1, <3>2
  <2> QED
    BY <2>1, <2>2, <1>12, <1>13, Stops
<1> DEFINE q == round * P
           B == tim.base
<1>15. Multiples(P, round)
  <2>1. InSeconds(P)
    BY <1>5, SMT DEF InSeconds
  <2>2. round \in 0 .. 4 /\ P \in Nat
    BY <1>3
  <2> QED
    BY <2>1, <2>2, Rounds, Zenon
<1>s. P * (round + 1) = q + P /\ (round + 1) * P = q + P
  BY <1>15, Zenon DEF Multiples
<1>v. q \in Nat /\ q <= 32000 /\ P <= 8000
  BY <1>5, <1>15, SMT DEF Multiples, Fits
<1>r. B \in Nat /\ P \in Nat /\ B >= q /\ a0 < P /\ x = B + P
  BY <1>3, <1>8, <1>12
<1> HIDE DEF q, B
<1> DEFINE n == P * (round + 1)
           y == B - q + a0
           e == n + (a - a0)
<1>16. n = q + P /\ n \in Nat /\ n <= 40000
  BY <1>r, <1>s, <1>v, SMT
<1> HIDE DEF n
<1>17. y \in Nat /\ e \in Nat /\ x + a = y + e /\ e <= 48000
  <2>1. a \in Nat /\ b \in Nat /\ a0 \in Nat
    BY <1>6, <1>9
  <2>2. a + b < P
    BY <1>7, Zenon
  <2> QED
    BY <2>1, <2>2, <1>v, <1>16, <1>r, SMT
<1>t. n \in Nat /\ y \in Nat /\ e \in Nat /\ x + a = y + e
  BY <1>16, <1>17
<1>18. a < P /\ a0 < P
  BY <1>3, <1>6, <1>7, <1>8
<1>19. startTime = HostSeconds(y)
  BY <1>8, Zenon DEF q, B
<1> HIDE DEF n, y, e
<1>20. LastsSeconds(e, n, a - a0)
  BY <1>16, <1>17 DEF LastsSeconds, e
<1>21. stepMatches(time(a, lost)) <=> SecondsFound(y, e, n)
  <2>1. time(a, lost) = HostSeconds(y + e)
    BY <1>7, <1>t, Zenon
  <2>2. y + e \in Nat
    BY <1>t
  <2>3. stepMatches(HostSeconds(y + e)) <=> Wrap(Seconds(y, y + e)) = P * (round + 1)
    BY <2>2, <1>3, <1>t, <1>19, StepCompared, Zenon DEF P, n
  <2> QED
    BY <2>1, <2>3, Zenon DEF SecondsFound, n
<1> HIDE DEF time
<1>22. CASE at' = "wrongTime" /\ ~stepMatches(time(a, lost))
  BY <1>11, <1>t, <1>18, <1>19, <1>20, <1>21, <1>22, Zenon DEF TimeStep, n, P
<1>23. CASE /\ at' = "intervals" /\ stepMatches(time(a, lost)) /\ lastRound
            /\ tim' = Stopped(TIM1(t, now'))
  <2>1. round = 4
    BY <1>3, <1>23 DEF lastRound
  <2>2. tim'.arr = tim.arr
    BY <1>14, <1>23, Zenon
  <2> QED
    BY <1>11, <1>t, <1>18, <1>19, <1>20, <1>21, <1>23, <2>1, <2>2, Zenon DEF TimeStep, n, P
<1>24. CASE at' = "time" /\ round' = round + 1 /\ tim' = TIM1(t, now')
  <2>1. tim' = t
    BY <1>14, <1>24, Zenon
  <2>2. tim'.arr = tim.arr /\ tim'.uif = FALSE
    BY <1>13, <2>1, Zenon
  <2>3. tim'.base = x /\ round' * P = q + P
    BY <1>12, <1>s, <1>24, <2>1, Zenon
  <2>4. tim'.base >= round' * P /\ y = tim'.base - round' * P + a0
    <3>1. x - (q + P) + a0 = B - q + a0 /\ x >= q + P
      BY <1>9, <1>v, <1>r
    <3> QED
      BY <2>3, <3>1, Zenon DEF y
  <2> QED
    BY <1>11, <1>t, <1>18, <1>19, <1>20, <1>24, <2>2, <2>4, Zenon DEF TimeStep, n, P
<1> QED
  BY <1>2, <1>22, <1>23, <1>24, Zenon

\* What a host's clock shows, the host named.
SecondsOf(h, x) == Wrap(Epoch + (h.phase + (x * h.rate) \div 1000) \div 1000)
CentisOf(h, x)  == (h.phase + (x * h.rate) \div 1000) \div 10

\* Products of three.
LEMMA Regrouped ==
  ASSUME NEW o \in Nat, NEW P \in Nat, NEW u \in Nat, TrulyOff(o, P * 5, u, Second)
  PROVE  Off(o) * 5 * P <= Second + u * o
<1>1. Off(o) \in Nat
  BY DEF Off
<1>2. Off(o) * 5 * P = Off(o) * (P * 5)
  BY <1>1, SMTT(30)
<1> QED
  BY <1>2, Zenon DEF TrulyOff

\* A round of testTimekeeping judges the host.
LEMMA TimeRoundJudged ==
  ASSUME TypeInv, SecondsInv, timeRound
  PROVE  SecondsInv' /\ SteadyHostKeepsTime' /\ (Tellable(host.rate) => RateJudged')
<1>1. host' = host /\ at = "time" /\ at' \in {"wrongTime", "intervals", "time"}
  <2>1. at' = "wrongTime" \/ at' = "intervals" \/ at' = "time"
    BY Zenon DEF timeRound
  <2> QED
    BY <2>1, Zenon DEF timeRound
<1>2. CASE ~Undisturbed'
  BY <1>1, <1>2, Zenon DEF SecondsInv, SteadyHostKeepsTime, RateJudged, Disturbed, Undisturbed
<1>3. CASE Undisturbed'
  <2> DEFINE P == PeriodOf(tim)
             J == delays'.max - delays'.min
             r == host.rate
  <2>1. PICK a, a0, y, e, n : TimeStep(a, a0, y, e, n)
    BY <1>3, TimeSteps, Zenon
  <2>2. /\ y \in Nat /\ e \in Nat /\ n \in Nat
        /\ a0 \in delays'.min .. delays'.max /\ a \in delays'.min .. delays'.max
        /\ a0 < P /\ n = P * (round + 1)
        /\ LastsSeconds(e, n, a - a0) /\ startTime = HostSeconds(y)
    BY <2>1, Zenon DEF TimeStep
  <2>3. \/ at' = "wrongTime" /\ ~SecondsFound(y, e, n)
        \/ at' = "intervals" /\ round = 4 /\ SecondsFound(y, e, n) /\ tim'.arr = tim.arr
        \/ /\ at' = "time" /\ round' = round + 1 /\ tim'.arr = tim.arr /\ tim'.uif = FALSE
           /\ tim'.base >= round' * P
           /\ y = tim'.base - round' * P + a0
    BY <2>1, Zenon DEF TimeStep
  <2>4. PICK k \in 1 .. 8 : tim.arr = 2000 * k - 1
    BY <1>1 DEF TypeInv, PeriodInv, Ended
  <2>5. P = 1000 * k /\ P \in Nat
    BY <2>4 DEF PeriodOf
  <2>6. delays'.min \in Nat /\ delays'.max \in Nat
    BY TimeRoundTypes DEF TypeInv, TypeOK
  <2>7. host \in Hosts /\ r \in Nat /\ round \in 0 .. 4
    <3>1. round <= 4
      BY <1>1 DEF TypeInv, StartInv
    <3> QED
      BY <3>1, Typed, HostTypes
  <2>8. J \in Nat /\ a - a0 \in -J .. J
    BY <2>2, <2>6
  <2>9. startTime' = startTime
    BY Zenon DEF timeRound
  <2>10. tim'.arr = tim.arr => PeriodOf(tim') = P
    BY Zenon DEF PeriodOf
  <2> HIDE DEF P, J, r
  <2>11. CASE at' = "wrongTime"
    <3>1. ~SecondsFound(y, e, n)
      BY <2>3, <2>11
    <3>2. ASSUME r = 1000, ~(J > 0) PROVE FALSE
      <4>1. a - a0 = 0
        BY <2>8, <3>2
      <4>2. e = n + (a - a0)
        <5>1. LastsSeconds(e, n, a - a0)
          BY <2>2, Zenon
        <5> QED
          BY <5>1, SMT DEF LastsSeconds
      <4> DEFINE m == k * (round + 1)
      <4>3. m \in 1 .. 40 /\ n = 1000 * m
        <5>1. round = 0 \/ round = 1 \/ round = 2 \/ round = 3 \/ round = 4
          BY <2>7
        <5>2. n = P * (round + 1)
          BY <2>2
        <5> QED
          BY <5>1, <5>2, <2>5, SMT
      <4> HIDE DEF m
      <4>4. e = 1000 * m
        BY <4>1, <4>2, <4>3
      <4>5. host.rate = 1000
        BY <3>2 DEF r
      <4>6. y \in Nat
        BY <2>2
      <4>7. Wrap(Seconds(y, y + 1000 * m)) = 1000 * m
        BY <2>7, <4>3, <4>5, <4>6, SecondsMatched
      <4>8. Wrap(Seconds(y, y + e)) = n
        BY <4>3, <4>4, <4>7
      <4> QED
        BY <3>1, <4>8, Zenon DEF SecondsFound
    <3>3. SteadyHostKeepsTime'
      BY <1>1, <3>2, Zenon DEF SteadyHostKeepsTime, Jitter, J, r
    <3>4. SecondsInv' /\ RateJudged'
      BY <2>11 DEF SecondsInv, RateJudged
    <3> QED
      BY <3>3, <3>4
  <2>12. CASE at' = "intervals"
    <3>1. round = 4 /\ SecondsFound(y, e, n) /\ tim'.arr = tim.arr
      BY <2>3, <2>12
    <3>2. ASSUME Tellable(host.rate) PROVE Off(r) * 5 * P <= Second + J * r
      <4>0. a - a0 \in -J .. J /\ y \in Nat /\ e \in Nat /\ n \in Nat /\ J \in Nat
            /\ LastsSeconds(e, n, a - a0)
        BY <2>2, <2>8, Zenon
      <4>1. OffSeconds(host.rate, n, J)
        BY <4>0, <2>7, <3>1, <3>2, SecondsJudged, Zenon
      <4>2. n = P * 5
        BY <2>2, <2>5, <3>1
      <4>3. TrulyOff(r, P * 5, J, Second)
        BY <4>1, <4>2, Zenon DEF OffSeconds, r
      <4>4. r \in Nat /\ P \in Nat /\ J \in Nat
        BY <2>5, <2>7, <2>8
      <4> QED
        BY <4>3, <4>4, Regrouped, Zenon
    <3>3. 1000 * 1000 = Second
      BY SMT DEF Second
    <3>4. PeriodOf(tim') = P
      BY <2>10, <3>1, Zenon
    <3>5. Tellable(host.rate) => RateJudged'
      <4>1. Tellable(host.rate) => Off(host'.rate) * 5 * PeriodOf(tim') <= 1000 * 1000 + Jitter' * host'.rate
        <5>1. Tellable(host.rate) => Off(host'.rate) * 5 * PeriodOf(tim') <= Second + Jitter' * host'.rate
          BY <1>1, <3>2, <3>4, Zenon DEF Jitter, J, r
        <5> QED
          BY <3>3, <5>1, SMT
      <4>2. at' # "passed"
        BY <2>12
      <4> QED
        BY <4>1, <4>2, ZenonT(60) DEF RateJudged
    <3> QED
      BY <2>12, <3>5 DEF SecondsInv, SteadyHostKeepsTime
  <2>13. CASE at' = "time"
    <3>1. /\ round' = round + 1 /\ tim'.arr = tim.arr /\ tim'.uif = FALSE
          /\ tim'.base >= round' * P
          /\ y = tim'.base - round' * P + a0
      BY <2>3, <2>13
    <3>2. PeriodOf(tim') = P
      BY <2>10, <3>1, Zenon
    <3>3. startTime' = HostSeconds(y)
      BY <2>2, <2>9, Zenon
    <3>4. SecondsInv'
      <4>1. HostSeconds(tim.base - round * PeriodOf(tim) + a0)' = HostSeconds(y)
        <5>1. tim'.base - round' * PeriodOf(tim') + a0 = y
          BY <3>1, <3>2, Zenon
        <5>2. HostSeconds(tim.base - round * PeriodOf(tim) + a0)'
                = SecondsOf(host', tim'.base - round' * PeriodOf(tim') + a0)
          BY DEF HostSeconds, HostMs, SecondsOf
        <5>3. HostSeconds(y) = SecondsOf(host, y)
          BY DEF HostSeconds, HostMs, SecondsOf
        <5> QED
          BY <1>1, <5>1, <5>2, <5>3, Zenon
      <4>2. a0 < PeriodOf(tim') /\ tim'.base >= round' * PeriodOf(tim')
        BY <2>2, <3>1, <3>2, Zenon
      <4> QED
        BY <4>1, <4>2, <2>2, <3>1, <3>3, Zenon DEF SecondsInv
    <3> QED
      BY <2>13, <3>4 DEF SteadyHostKeepsTime, RateJudged
  <2> QED
    BY <1>1, <2>11, <2>12, <2>13
<1> QED
  BY <1>2, <1>3

-----------------------------------------------------------------------------
\* A round of testIntervals in which the call came back within the period: it
\* read the clock after a delay a, and wallTime after a0, a period before.
IntervalStep(a, a0, y, e) ==
    /\ y \in Nat /\ e \in Nat
    /\ a0 \in delays'.min .. delays'.max
    /\ a \in delays'.min .. delays'.max
    /\ LastsCentis(e, period, a - a0)
    /\ \/ at' = "wrongClock" /\ ~CentisFound(y, e, period)
       \/ at' = "passed" /\ CentisFound(y, e, period) /\ period' = longer(period)
       \/ /\ at' = "interval" /\ tim'.uif = FALSE /\ a < PeriodOf(tim')
          /\ wallTime' = CentisOf(host, tim'.base + a)

\* Every undisturbed round is one.
LEMMA IntervalSteps ==
  ASSUME TypeInv, CentisInv, intervalRound, Undisturbed'
  PROVE  \E a, a0, y, e : IntervalStep(a, a0, y, e)
<1> DEFINE x == WaitUIF(tim, now)
           t == Seen(tim, now)
           time(a, lost) == IF lost THEN -1 ELSE HostCentis(x + a)
           P == PeriodOf(tim)
<1>1. at = "interval" /\ host' = host
  BY Zenon DEF intervalRound
<1>2. PICK a \in host.before, b \in host.after, lost \in Losses :
        /\ now' = x + a + b
        /\ delays' = Noted(delays, a, b, P, lost)
        /\ \/ at' = "wrongClock" /\ ~intervalMatches(time(a, lost))
           \/ /\ intervalMatches(time(a, lost))
              /\ at' = IF lastRound THEN "passed" ELSE "interval"
              /\ wallTime' = time(a, lost) /\ period' = longer(period)
              /\ tim' = Lengthened(TIM1(t, now'), period', ~lastRound)
  BY Zenon DEF intervalRound, Seen, Lengthened
<1>3. /\ tim \in Timers(now) /\ now \in Nat /\ delays \in DelayTypes /\ round \in 0 .. 4
      /\ tim.enabled = TRUE /\ host \in Hosts /\ P \in Nat \ {0} /\ tim.base \in Nat
  <2>1. round <= 4
    BY <1>1 DEF TypeInv, StartInv
  <2>2. tim.enabled = TRUE
    BY <1>1 DEF TypeInv, StartInv
  <2> QED
    BY <2>1, <2>2, Typed, PeriodPositive
<1>4. PICK k \in 1 .. 8 : period = 1000 * k + 150 * round /\ tim.arr = 2 * period - 1
  BY <1>1 DEF TypeInv, PeriodInv
<1>5. P = period /\ period \in 1 .. 8600
  <2>1. period \in 1 .. 8600
    BY <1>3, <1>4
  <2> QED
    BY <1>4, <2>1 DEF PeriodOf
<1>6. a \in Nat /\ b \in Nat /\ lost \in BOOLEAN
  BY <1>2, <1>3, HostTypes DEF Losses
<1>7. ~delays.lost /\ ~delays.slow /\ lost = FALSE /\ a + b < P
  <2>1. ~Noted(delays, a, b, P, lost).lost /\ ~Noted(delays, a, b, P, lost).slow
    BY <1>2, Zenon DEF Undisturbed
  <2>2. P \in Nat
    BY <1>3
  <2> HIDE DEF P
  <2> QED
    BY <2>1, <2>2, <1>3, <1>6, NotedUndisturbed, Zenon
<1>8. PICK a0 \in delays.min .. delays.max :
        /\ tim.uif = FALSE
        /\ a0 < P
        /\ wallTime = HostCentis(tim.base + a0)
  BY <1>1, <1>7, Zenon DEF CentisInv, Disturbed
<1>9. delays.min \in Nat /\ delays.max \in Nat /\ a0 \in Nat
  BY <1>8, Typed
<1>10. delays.calls > 0
  BY <1>1 DEF TypeInv, StartInv
<1> HIDE DEF P
<1>11. /\ delays' \in DelayTypes /\ a \in delays'.min .. delays'.max
       /\ a0 \in delays'.min .. delays'.max
  <2>1. Noted(delays, a, b, P, lost) \in DelayTypes
    BY <1>3, <1>6, NotedTypes
  <2>2. /\ Noted(delays, a, b, P, lost).min <= a /\ a <= Noted(delays, a, b, P, lost).max
        /\ delays.calls > 0 => /\ Noted(delays, a, b, P, lost).min <= delays.min
                               /\ delays.max <= Noted(delays, a, b, P, lost).max
    BY <1>3, <1>6, NotedCall
  <2>3. delays' \in DelayTypes /\ delays'.min \in Nat /\ delays'.max \in Nat
    BY <1>2, <2>1 DEF DelayTypes
  <2>4. delays'.min <= a /\ a <= delays'.max /\ delays'.min <= delays.min /\ delays.max <= delays'.max
    BY <1>2, <1>10, <2>2
  <2> QED
    BY <1>6, <1>9, <2>3, <2>4
<1>12. x = tim.base + P /\ t.base = x /\ TIM1(t, x + (a + b)) = t
  <2>1. a + b \in Nat
    BY <1>6
  <2> QED
    BY <2>1, <1>3, <1>7, <1>8, PeriodBegins DEF P
<1>13. t.uif = FALSE /\ t \in Timers(x)
  BY <1>3, WaitTypes
<1> HIDE DEF x, t
<1>14. TIM1(t, now') = t
  <2>1. now' = x + (a + b)
    BY <1>2, <1>3, <1>6, <1>12
  <2> QED
    BY <2>1, <1>12
<1> DEFINE B == tim.base
           y == B + a0
           e == period + (a - a0)
<1>15. a \in Nat /\ b \in Nat /\ a0 \in Nat /\ B \in Nat /\ x = B + P /\ a0 < P /\ a < P
  <2>1. a \in Nat /\ b \in Nat /\ a0 \in Nat
    BY <1>6, <1>9
  <2>2. a + b < P
    BY <1>7, Zenon
  <2>3. P \in Nat
    BY <1>3
  <2>4. a < P
    BY <2>1, <2>2, <2>3
  <2> QED
    BY <1>3, <1>8, <1>12, <2>1, <2>4
<1>16. wallTime = HostCentis(y)
  BY <1>8, Zenon
<1> HIDE DEF B
<1>17. y \in Nat /\ e \in Nat /\ x + a = y + e
  BY <1>5, <1>15
<1>18. e <= 20000
  BY <1>5, <1>15
<1> HIDE DEF y
<1>19. LastsCentis(e, period, a - a0)
  BY <1>18 DEF LastsCentis
<1> HIDE DEF e
<1>20. time(a, lost) = HostCentis(y + e) /\ HostCentis(y + e) = CentisOf(host, y + e)
  <2>1. time(a, lost) = HostCentis(y + e)
    BY <1>7, <1>17, Zenon
  <2> QED
    BY <2>1 DEF HostCentis, HostMs, CentisOf
<1>21. intervalMatches(HostCentis(y + e)) <=> CentisFound(y, e, period)
  <2>1. (HostCentis(y + e) - wallTime) * 10 = Centis(y, y + e)
    BY <1>16, Zenon DEF Centis, HostCentis
  <2>2. Wrap((HostCentis(y + e) - wallTime) * 10) = Wrap(Centis(y, y + e))
    BY <2>1, Zenon
  <2> QED
    BY <2>2, Zenon DEF intervalMatches, CentisFound
<1>22. intervalMatches(time(a, lost)) <=> CentisFound(y, e, period)
  BY <1>20, <1>21, Zenon
<1> HIDE DEF time
<1>23. CASE at' = "wrongClock" /\ ~intervalMatches(time(a, lost))
  BY <1>11, <1>17, <1>19, <1>22, <1>23, Zenon DEF IntervalStep
<1>24. CASE /\ intervalMatches(time(a, lost))
            /\ at' = IF lastRound THEN "passed" ELSE "interval"
            /\ wallTime' = time(a, lost) /\ period' = longer(period)
            /\ tim' = Lengthened(TIM1(t, now'), period', ~lastRound)
  <2>1. CASE lastRound
    BY <1>11, <1>17, <1>19, <1>22, <1>24, <2>1, Zenon DEF IntervalStep
  <2>2. CASE ~lastRound
    <3>1. at' = "interval" /\ tim' = Lengthened(t, period', TRUE)
      <4>1. (~lastRound) = TRUE
        BY <2>2, Zenon
      <4> QED
        BY <1>14, <1>24, <4>1, <2>2, Zenon
    <3>2. period' \in Nat \ {0} /\ period' = period + 150 /\ x \in Nat
      BY <1>5, <1>15, <1>24 DEF longer
    <3>3. /\ Lengthened(t, period', TRUE).arr = halfTicks(period')
          /\ Lengthened(t, period', TRUE).base = t.base
          /\ Lengthened(t, period', TRUE).uif = t.uif
      <4>1. period' \in Nat \ {0} /\ x \in Nat /\ TRUE \in BOOLEAN
        BY <3>2
      <4>2. PICK z \in BOOLEAN : z = TRUE
        BY <4>1, Zenon
      <4>3. /\ Lengthened(t, period', z).arr = halfTicks(period')
            /\ Lengthened(t, period', z).base = t.base
            /\ Lengthened(t, period', z).uif = t.uif
        BY <4>1, <1>13, Lengthens
      <4> QED
        BY <4>2, <4>3, Zenon
    <3>4. tim'.uif = FALSE /\ tim'.base = x /\ tim'.arr = halfTicks(period')
      BY <1>12, <1>13, <3>1, <3>3, Zenon
    <3>5. PeriodOf(tim') = period'
      BY <3>2, <3>4 DEF PeriodOf, halfTicks
    <3>6. a < PeriodOf(tim')
      BY <1>5, <1>15, <3>2, <3>5
    <3>7. wallTime' = CentisOf(host, tim'.base + a)
      BY <1>17, <1>20, <1>24, <3>4, Zenon
    <3> QED
      BY <1>11, <1>17, <1>19, <3>1, <3>4, <3>6, <3>7, Zenon DEF IntervalStep
  <2> QED
    BY <2>1, <2>2
<1> QED
  BY <1>2, <1>23, <1>24, Zenon

\* A period of the test, read 40 ms late or early, is to be tolerated.
LEMMA PeriodTolerated ==
  ASSUME NEW e \in Nat, NEW n \in Nat, NEW j \in Int, NEW k \in 1 .. 8, NEW i \in 0 .. 4,
         n = 1000 * k + 150 * i, -40 <= j, j <= 40, LastsCentis(e, n, j)
  PROVE  Tolerated(e, n)
<1> DEFINE q == 100 * k + 15 * i
<1>1. q \in Nat /\ 100 <= q /\ q <= 1000 /\ n = 10 * q
  OBVIOUS
<1> HIDE DEF q
<1>2. e = n + j
  BY SMT DEF LastsCentis
<1> QED
  BY <1>1, <1>2, SMT DEF Tolerated

\* A round of testIntervals judges the host.
LEMMA IntervalRoundJudged ==
  ASSUME TypeInv, CentisInv, intervalRound
  PROVE  CentisInv' /\ JitterTolerated' /\ (Tellable(host.rate) => RateJudged')
<1>1. host' = host /\ at = "interval" /\ at' \in {"wrongClock", "interval", "passed"}
  BY IntervalRoundTypes, Zenon DEF intervalRound
<1>2. CASE ~Undisturbed'
  BY <1>1, <1>2, Zenon DEF CentisInv, JitterTolerated, RateJudged, Disturbed, Undisturbed
<1>3. CASE Undisturbed'
  <2> DEFINE J == delays'.max - delays'.min
             r == host.rate
  <2>1. PICK a, a0, y, e : IntervalStep(a, a0, y, e)
    BY <1>3, IntervalSteps, Zenon
  <2>2. /\ y \in Nat /\ e \in Nat
        /\ a0 \in delays'.min .. delays'.max /\ a \in delays'.min .. delays'.max
        /\ LastsCentis(e, period, a - a0)
    BY <2>1, Zenon DEF IntervalStep
  <2>3. \/ at' = "wrongClock" /\ ~CentisFound(y, e, period)
        \/ at' = "passed" /\ CentisFound(y, e, period) /\ period' = longer(period)
        \/ /\ at' = "interval" /\ tim'.uif = FALSE /\ a < PeriodOf(tim')
           /\ wallTime' = CentisOf(host, tim'.base + a)
    BY <2>1, Zenon DEF IntervalStep
  <2>4. PICK k \in 1 .. 8 : period = 1000 * k + 150 * round
    BY <1>1 DEF TypeInv, PeriodInv
  <2>5. delays'.min \in Nat /\ delays'.max \in Nat
    BY IntervalRoundTypes DEF TypeInv, TypeOK
  <2>6. host \in Hosts /\ r \in Nat /\ round \in 0 .. 4 /\ period \in Nat
    <3>1. round <= 4
      BY <1>1 DEF TypeInv, StartInv
    <3> QED
      BY <3>1, Typed, HostTypes
  <2>7. J \in Nat /\ a - a0 \in -J .. J
    BY <2>2, <2>5
  <2> HIDE DEF J, r
  <2>8. CASE at' = "wrongClock"
    <3>1. ~CentisFound(y, e, period)
      BY <2>3, <2>8
    <3>2. ASSUME r = 1000, ~(J > 40) PROVE FALSE
      <4>1. a - a0 \in -40 .. 40
        BY <2>7, <3>2
      <4>2. host.rate = 1000
        BY <3>2 DEF r
      <4>3. CentisFound(y, e, period)
        <5> DEFINE j == a - a0
        <5>0. j \in Int /\ -40 <= j /\ j <= 40 /\ e \in Nat /\ LastsCentis(e, period, j)
          BY <2>2, <4>1
        <5> HIDE DEF j
        <5>1. Tolerated(e, period)
          BY <5>0, <2>4, <2>6, PeriodTolerated, SMT
        <5>2. KeepsTime
          BY <4>2 DEF KeepsTime
        <5>3. y \in Nat /\ host \in Hosts /\ e \in Nat /\ period \in Nat
          BY <2>2, <2>6
        <5> QED
          BY <5>1, <5>2, <5>3, CentisMatched, Zenon
      <4> QED
        BY <3>1, <4>3
    <3>3. JitterTolerated'
      BY <1>1, <3>2, Zenon DEF JitterTolerated, Jitter, J, r
    <3> QED
      BY <3>3, <2>8 DEF CentisInv, RateJudged
  <2>9. CASE at' = "passed"
    <3>1. CentisFound(y, e, period) /\ period' = longer(period)
      BY <2>3, <2>9
    <3>2. ASSUME Tellable(host.rate) PROVE Off(r) * period <= CentiLimit + J * r
      <4>1. a - a0 \in -J .. J /\ y \in Nat /\ e \in Nat /\ J \in Nat
            /\ LastsCentis(e, period, a - a0)
        BY <2>2, <2>7, Zenon
      <4>2. OffCentis(host.rate, period, J)
        BY <4>1, <2>6, <3>1, <3>2, CentisJudged, Zenon
      <4> QED
        BY <4>2, Zenon DEF OffCentis, TrulyOff, r
    <3>3. 1000 * 50 = CentiLimit
      BY SMT DEF CentiLimit
    <3>4. period' - 150 = period
      BY <2>6, <3>1 DEF longer
    <3>5. Tellable(host.rate) => Off(host'.rate) * (period' - 150) <= 1000 * 50 + Jitter' * host'.rate
      <4>1. Tellable(host.rate) => Off(host'.rate) * (period' - 150) <= CentiLimit + Jitter' * host'.rate
        BY <1>1, <3>2, <3>4, Zenon DEF Jitter, J, r
      <4> QED
        BY <3>3, <4>1, SMT
    <3>6. Tellable(host.rate) => RateJudged'
      <4>1. at' # "intervals"
        BY <2>9
      <4> QED
        BY <3>5, <4>1, ZenonT(60) DEF RateJudged
    <3> QED
      BY <2>9, <3>6 DEF CentisInv, JitterTolerated
  <2>10. CASE at' = "interval"
    <3>1. tim'.uif = FALSE /\ a < PeriodOf(tim') /\ wallTime' = CentisOf(host, tim'.base + a)
      BY <2>3, <2>10
    <3>2. HostCentis(tim.base + a)' = CentisOf(host', tim'.base + a)
      BY DEF HostCentis, HostMs, CentisOf
    <3>3. wallTime' = HostCentis(tim.base + a)'
      BY <1>1, <3>1, <3>2, Zenon
    <3>4. CentisInv'
      BY <2>2, <3>1, <3>3, Zenon DEF CentisInv
    <3> QED
      BY <2>10, <3>4 DEF JitterTolerated, RateJudged
  <2> QED
    BY <1>1, <2>8, <2>9, <2>10
<1> QED
  BY <1>2, <1>3

-----------------------------------------------------------------------------
\* The inductive invariant, and what it is for.
ClockInv == TypeInv /\ SecondsInv /\ CentisInv

\* No host is so fast that a comparison of its clock wraps: in the code, none is
\* more than 85000 times as fast as the timer.
RatesToTell == \A h \in Hosts : Tellable(h.rate)

Judged ==
    /\ CalibratedPeriodSuffices /\ TriesEightSeconds
    /\ SteadyHostKeepsTime /\ JitterTolerated
    /\ RatesToTell => RateJudged

\* They hold at first
LEMMA ClockInit == Init => ClockInv /\ Judged
<1> SUFFICES ASSUME Init PROVE ClockInv /\ Judged
  OBVIOUS
<1>1. at = "timekeeping"
  BY DEF Init
<1>2. SecondsInv /\ CentisInv
  BY <1>1 DEF SecondsInv, CentisInv
<1>3. Judged
  BY <1>1
  DEF Judged, CalibratedPeriodSuffices, TriesEightSeconds, SteadyHostKeepsTime, JitterTolerated, RateJudged
<1> QED
  BY <1>2, <1>3, InitTypes DEF ClockInv

\* and after every step.
LEMMA ClockStep == ClockInv /\ Judged /\ [Next]_clockVars => ClockInv' /\ Judged'
<1> SUFFICES ASSUME ClockInv, Judged, [Next]_clockVars PROVE ClockInv' /\ Judged'
  OBVIOUS
<1>0. TypeInv /\ SecondsInv /\ CentisInv
  BY DEF ClockInv
<1>1. CASE startTimekeeping \/ startIntervals
  <2>1. at' \in {"calibrate", "firstClock"}
    BY <1>1 DEF startTimekeeping, startIntervals
  <2>2. TypeInv'
    BY <1>0, <1>1, StartTypes
  <2>3. SecondsInv' /\ CentisInv'
    BY <2>1 DEF SecondsInv, CentisInv
  <2>4. Judged'
    BY <2>1
    DEF Judged, CalibratedPeriodSuffices, TriesEightSeconds, SteadyHostKeepsTime, JitterTolerated, RateJudged
  <2> QED
    BY <2>2, <2>3, <2>4 DEF ClockInv
<1>2. CASE calibrate
  <2>1. at' \in {"calibrate", "noTimer", "time"}
    <3>1. at' = "calibrate" \/ at' = "noTimer" \/ at' = "time"
      BY <1>2, Zenon DEF calibrate
    <3> QED
      BY <3>1
  <2>2. TypeInv' /\ CalibratedPeriodSuffices' /\ TriesEightSeconds' /\ SecondsInv'
    BY <1>0, <1>2, CalibrateTypes, CalibrateSeconds
  <2>3. CentisInv'
    BY <2>1 DEF CentisInv
  <2>4. SteadyHostKeepsTime' /\ JitterTolerated' /\ RateJudged'
    BY <2>1 DEF SteadyHostKeepsTime, JitterTolerated, RateJudged
  <2> QED
    BY <2>2, <2>3, <2>4 DEF ClockInv, Judged
<1>3. CASE timeRound
  <2>1. at' \in {"wrongTime", "intervals", "time"}
    <3>1. at' = "wrongTime" \/ at' = "intervals" \/ at' = "time"
      BY <1>3, Zenon DEF timeRound
    <3> QED
      BY <3>1
  <2>2. TypeInv' /\ (at' = "time" => round' > 0)
    BY <1>0, <1>3, TimeRoundTypes
  <2>3. SecondsInv' /\ SteadyHostKeepsTime' /\ (Tellable(host.rate) => RateJudged')
    BY <1>0, <1>3, TimeRoundJudged
  <2>4. CentisInv'
    BY <2>1 DEF CentisInv
  <2>5. JitterTolerated' /\ TriesEightSeconds'
    BY <2>1 DEF JitterTolerated, TriesEightSeconds
  <2>6. CalibratedPeriodSuffices'
    <3>1. ~(at' = "time" /\ round' = 0)
      BY <2>2
    <3> QED
      BY <3>1, Zenon DEF CalibratedPeriodSuffices
  <2>7. RatesToTell => Tellable(host.rate)
    BY <1>0, Typed, Zenon DEF RatesToTell
  <2> QED
    BY <2>2, <2>3, <2>4, <2>5, <2>6, <2>7, Zenon DEF ClockInv, Judged, RatesToTell, Tellable
<1>4. CASE firstClock
  <2>1. TypeInv' /\ at' \in {"noClock", "interval"} /\ CentisInv'
    BY <1>0, <1>4, FirstClockTypes, FirstClockCentis
  <2>2. SecondsInv'
    BY <2>1 DEF SecondsInv
  <2>3. Judged'
    BY <2>1
    DEF Judged, CalibratedPeriodSuffices, TriesEightSeconds, SteadyHostKeepsTime, JitterTolerated, RateJudged
  <2> QED
    BY <2>1, <2>2, <2>3 DEF ClockInv
<1>5. CASE intervalRound
  <2>1. TypeInv' /\ at' \in {"wrongClock", "interval", "passed"}
    BY <1>0, <1>5, IntervalRoundTypes
  <2>2. CentisInv' /\ JitterTolerated' /\ (Tellable(host.rate) => RateJudged')
    BY <1>0, <1>5, IntervalRoundJudged
  <2>3. SecondsInv'
    BY <2>1 DEF SecondsInv
  <2>4. CalibratedPeriodSuffices' /\ TriesEightSeconds' /\ SteadyHostKeepsTime'
    BY <2>1 DEF CalibratedPeriodSuffices, TriesEightSeconds, SteadyHostKeepsTime
  <2>5. RatesToTell => Tellable(host.rate)
    BY <1>0, Typed, Zenon DEF RatesToTell
  <2> QED
    BY <2>1, <2>2, <2>3, <2>4, <2>5, Zenon DEF ClockInv, Judged, RatesToTell, Tellable
<1>6. CASE UNCHANGED clockVars
  <2>1. /\ at' = at /\ now' = now /\ host' = host /\ tim' = tim /\ startTime' = startTime
        /\ wallTime' = wallTime /\ period' = period /\ round' = round /\ delays' = delays
    BY <1>6 DEF clockVars
  <2>2. TypeInv'
    BY <1>0, <2>1 DEF TypeInv, TypeOK, PeriodInv, StartInv, Timers, UINT32_MAX
  <2>3. SecondsInv' /\ CentisInv'
    <3>1. SecondsInv'
      BY <1>0, <2>1 DEF SecondsInv, Disturbed, HostSeconds, HostMs, PeriodOf
    <3>2. CentisInv'
      BY <1>0, <2>1 DEF CentisInv, Disturbed, HostCentis, HostMs, PeriodOf
    <3> QED
      BY <3>1, <3>2
  <2>4. RatesToTell' <=> RatesToTell
    BY DEF RatesToTell, Tellable
  <2>5. CalibratedPeriodSuffices' /\ TriesEightSeconds'
    <3>1. CalibratedPeriodSuffices'
      BY <2>1 DEF Judged, CalibratedPeriodSuffices, PeriodOf
    <3>2. TriesEightSeconds'
      <4>1. TriesEightSeconds
        BY DEF Judged
      <4> QED
        <5>1. HostSeconds(now - delays.longest + delays.min)'
                = HostSeconds(now - delays.longest + delays.min)
          BY <2>1 DEF HostSeconds, HostMs
        <5>2. SentinelAnswered' <=> SentinelAnswered
          BY <5>1, Zenon DEF SentinelAnswered, UINT32_MAX
        <5> QED
          BY <2>1, <4>1, <5>2 DEF TriesEightSeconds
    <3> QED
      BY <3>1, <3>2
  <2>6. SteadyHostKeepsTime' /\ JitterTolerated'
    <3>1. SteadyHostKeepsTime'
      BY <2>1 DEF Judged, SteadyHostKeepsTime, Disturbed, Jitter
    <3>2. JitterTolerated'
      BY <2>1 DEF Judged, JitterTolerated, Disturbed, Jitter
    <3> QED
      BY <3>1, <3>2
  <2>7. RateJudged => RateJudged'
    BY <2>1 DEF RateJudged, Disturbed, Jitter, Off, PeriodOf
  <2> QED
    BY <2>2, <2>3, <2>4, <2>5, <2>6, <2>7, Zenon DEF ClockInv, Judged
<1> QED
  BY <1>1, <1>2, <1>3, <1>4, <1>5, <1>6, Zenon DEF Next, testTimekeeping, testIntervals, Done

\* Neither of them ever stops holding.
LEMMA ClockAlways == Spec => [](ClockInv /\ Judged)
<1>1. Init => ClockInv /\ Judged
  BY ClockInit
<1>2. ClockInv /\ Judged /\ [Next]_clockVars => (ClockInv /\ Judged)'
  BY ClockStep
<1> QED
  BY <1>1, <1>2, PTL DEF Spec

\* Every variable has its type.
THEOREM ClockTypes == Spec => []TypeOK
<1>1. ClockInv => TypeOK
  BY DEF ClockInv, TypeInv
<1> QED
  BY <1>1, ClockAlways, PTL

\* Neither test polls a timer that is not counting: testIntervals enables it
\* again after testTimekeeping stopped it.
THEOREM RunningTimer == Spec => []WaitsOnRunningTimer
<1>1. ClockInv => WaitsOnRunningTimer
  BY DEF ClockInv, TypeInv, StartInv, WaitsOnRunningTimer
<1> QED
  BY <1>1, ClockAlways, PTL

\* The calibration loop of testTimekeeping ends with a period longer than the
\* call it timed.
THEOREM CalibrationSuffices == Spec => []CalibratedPeriodSuffices
<1>1. Judged => CalibratedPeriodSuffices
  BY DEF Judged
<1> QED
  BY <1>1, ClockAlways, PTL

\* It gives up only after a failed call, one of eight seconds, or the answer of
\* a good one that stands for a failure.
THEOREM EightSecondsTried == Spec => []TriesEightSeconds
<1>1. Judged => TriesEightSeconds
  BY DEF Judged
<1> QED
  BY <1>1, ClockAlways, PTL

\* No comparison of testTimekeeping fails a host that keeps time and is read
\* steadily.
THEOREM SteadyHostPasses == Spec => []SteadyHostKeepsTime
<1>1. Judged => SteadyHostKeepsTime
  BY DEF Judged
<1> QED
  BY <1>1, ClockAlways, PTL

\* None of testIntervals fails a host that keeps time and is read 40 ms late or
\* early.
THEOREM JitterIsTolerated == Spec => []JitterTolerated
<1>1. Judged => JitterTolerated
  BY DEF Judged
<1> QED
  BY <1>1, ClockAlways, PTL

\* A host that either test passes keeps time, within what the test can see, if
\* its clock is not so fast that the comparison wraps.
THEOREM RateIsJudged == ASSUME RatesToTell PROVE Spec => []RateJudged
<1>1. Judged => RateJudged
  BY DEF Judged
<1> QED
  BY <1>1, ClockAlways, PTL

-----------------------------------------------------------------------------
\* A clock that has come to within an interval of the word's end.
NearWord(c, p) == c * 10 + p + 50 >= Word

\* A timer that has expired and shows it, or has time left at n.
Pending(t, n) == t.uif = TRUE \/ n < t.base + PeriodOf(t)

\* What testIntervals compares with was read in the past, and a failed call got
\* through its comparison only near the word's end.
LostInv ==
    /\ at = "interval" => /\ Pending(tim, now)
                          /\ wallTime <= HostCentis(now)
                          /\ delays.lost = FALSE => wallTime >= 0
    /\ (at \in {"interval", "passed"} /\ delays.lost = TRUE) => NearWord(HostCentis(now), period)

\* A clock does not go back.
LEMMA ClockGoesOn ==
  ASSUME host \in Hosts, NEW x \in Nat, NEW y \in Nat, x <= y
  PROVE  HostCentis(x) <= HostCentis(y)
<1> DEFINE r == host.rate
           u == x * r
           v == y * r
<1>1. host.phase \in Nat /\ r \in Nat
  BY HostTypes
<1>2. u \in Nat /\ v \in Nat /\ u <= v
  <2>1. PICK d \in Nat : y = x + d
    <3>1. y - x \in Nat /\ y = x + (y - x)
      OBVIOUS
    <3> QED
      BY <3>1
  <2> HIDE DEF r
  <2>2. x * r \in Nat /\ d * r \in Nat /\ (x + d) * r = x * r + d * r
    BY <1>1, SMTT(30)
  <2> QED
    BY <2>1, <2>2
<1>3. HostMs(x) = host.phase + u \div 1000 /\ HostMs(y) = host.phase + v \div 1000
  BY DEF HostMs
<1> HIDE DEF u, v
<1>4. u \div 1000 <= v \div 1000 /\ u \div 1000 \in Nat /\ v \div 1000 \in Nat
  BY <1>2, SMTT(30)
<1>5. HostMs(x) \in Nat /\ HostMs(y) \in Nat /\ HostMs(x) <= HostMs(y)
  BY <1>1, <1>3, <1>4
<1> QED
  BY <1>5, SMTT(30) DEF HostCentis

\* The timer is looked at up to now.
LEMMA TimerPending ==
  ASSUME NEW n \in Nat, NEW t \in Timers(n), t.enabled = TRUE, NEW x \in Nat
  PROVE  Pending(TIM1(t, x), x)
<1>1. CASE x < t.base + PeriodOf(t)
  BY <1>1, TimerRests DEF Pending
<1>2. CASE x >= t.base + PeriodOf(t)
  BY <1>2, TimerExpires DEF Pending
<1> QED
  BY <1>1, <1>2, PeriodPositive DEF Timers

\* What an answer of -1 makes of a number of hundredths, and the comparison of it.
Failed(w)       == Wrap(-(10 * w + 10))
Accepted(w, p)  == Failed(w) <= p + 40

\* It is accepted only near the word's end.
LEMMA AcceptedNear ==
  ASSUME NEW w \in Nat, NEW p \in Nat, Accepted(w, p)
  PROVE  NearWord(w, p)
<1> DEFINE m == 10 * w + 10
<1>1. m \in Nat /\ m >= 10 /\ w * 10 + 10 = m
  OBVIOUS
<1>2. Word \in Nat \ {0}
  BY WordTypes
<1> HIDE DEF m
<1>3. CASE m <= Word
  <2>1. Word - m \in 0 .. Word - 1
    BY <1>1, <1>2, <1>3
  <2>2. Wrap(-m) = Word - m
    <3>1. (Word - m) % Word = Word - m
      BY <2>1, NoWrap DEF Wrap
    <3>2. (-m + Word * 1) % Word = (-m) % Word
      <4>1. -m \in Int /\ 1 \in Int
        BY <1>1
      <4> QED
        BY <4>1, <1>2, WholeWords, Zenon
    <3>3. -m + Word * 1 = Word - m
      BY <1>1, <1>2
    <3> QED
      BY <3>1, <3>2, <3>3 DEF Wrap
  <2>3. Wrap(-m) <= p + 40
    BY Zenon DEF Accepted, Failed, m
  <2> QED
    BY <1>1, <1>2, <2>2, <2>3 DEF NearWord
<1>4. CASE m > Word
  BY <1>1, <1>2, <1>4 DEF NearWord
<1> QED
  BY <1>1, <1>2, <1>3, <1>4

\* The first time point is not of a failed call, and is past.
LEMMA FirstClockLost ==
  ASSUME TypeInv, firstClock
  PROVE  LostInv'
<1> DEFINE time(a, lost) == IF lost THEN -1 ELSE HostCentis(now + a)
<1>1. at = "firstClock" /\ host' = host
  BY Zenon DEF firstClock
<1>2. PICK a \in host.before, b \in host.after, lost \in Losses :
        /\ now' = now + a + b
        /\ wallTime' = time(a, lost)
        /\ delays' = Noted(NoDelays, a, b, PeriodOf(tim), lost)
        /\ \/ at' = "noClock"
           \/ at' = "interval" /\ tim' = TIM1(tim, now') /\ time(a, lost) # -1
  BY Zenon DEF firstClock
<1>3. a \in Nat /\ b \in Nat /\ now \in Nat /\ host \in Hosts /\ lost \in BOOLEAN
  BY <1>2, HostTypes, Typed DEF Losses
<1>4. CASE at' = "noClock"
  BY <1>4 DEF LostInv
<1>5. CASE at' = "interval"
  <2>1. tim' = TIM1(tim, now') /\ time(a, lost) # -1
    BY <1>2, <1>5
  <2>2. lost = FALSE
    BY <1>3, <2>1, Zenon
  <2>3. delays'.lost = FALSE
    BY <1>2, <2>2, Zenon DEF Noted, NoDelays
  <2>4. wallTime' = HostCentis(now + a)
    BY <1>2, <2>2, Zenon
  <2>5. now + a \in Nat /\ now' \in Nat /\ now + a <= now'
    BY <1>2, <1>3
  <2>6. HostCentis(now + a) \in Nat /\ HostCentis(now + a) <= HostCentis(now')
    BY <1>3, <2>5, ReadingTypes, ClockGoesOn
  <2>7. HostCentis(now)' = HostCentis(now')
    BY <1>1 DEF HostCentis, HostMs
  <2>8. wallTime' >= 0 /\ wallTime' <= HostCentis(now)'
    BY <2>4, <2>6, <2>7
  <2>9. Pending(tim, now)'
    <3>1. tim.enabled = TRUE
      BY <1>1 DEF TypeInv, StartInv
    <3>2. tim \in Timers(now) /\ now \in Nat
      BY Typed
    <3>3. Pending(TIM1(tim, now'), now')
      BY <2>5, <3>1, <3>2, TimerPending
    <3> QED
      BY <2>1, <3>3, Zenon DEF Pending, PeriodOf
  <2> QED
    BY <2>3, <2>8, <2>9 DEF LostInv
<1> QED
  BY <1>2, <1>4, <1>5

\* A round of testIntervals takes a failed call only near the word's end.
LEMMA IntervalLost ==
  ASSUME TypeInv, LostInv, intervalRound
  PROVE  LostInv'
<1> DEFINE x == WaitUIF(tim, now)
           t == Seen(tim, now)
           time(a, lost) == IF lost THEN -1 ELSE HostCentis(x + a)
<1>1. at = "interval" /\ host' = host
  BY Zenon DEF intervalRound
<1>2. PICK a \in host.before, b \in host.after, lost \in Losses :
        /\ now' = x + a + b
        /\ delays' = Noted(delays, a, b, PeriodOf(tim), lost)
        /\ \/ at' = "wrongClock"
           \/ /\ intervalMatches(time(a, lost))
              /\ at' = IF lastRound THEN "passed" ELSE "interval"
              /\ wallTime' = time(a, lost) /\ period' = longer(period)
              /\ tim' = Lengthened(TIM1(t, now'), period', ~lastRound)
  BY Zenon DEF intervalRound, Seen, Lengthened
<1>3. /\ tim \in Timers(now) /\ now \in Nat /\ host \in Hosts /\ wallTime \in Int
      /\ period \in Nat
  BY Typed
<1>4. tim.enabled = TRUE
  BY <1>1 DEF TypeInv, StartInv
<1>5. Pending(tim, now) /\ wallTime <= HostCentis(now) /\ (delays.lost = FALSE => wallTime >= 0)
  BY <1>1, Zenon DEF LostInv
<1>6. x \in Nat /\ t \in Timers(x) /\ t.arr = tim.arr /\ t.enabled = TRUE
  BY <1>3, <1>4, WaitTypes
<1>7. x >= now
  <2>1. CASE tim.uif = TRUE
    <3>1. x = now
      BY <2>1, Zenon DEF WaitUIF
    <3> QED
      BY <1>3, <3>1
  <2>2. CASE ~(tim.uif = TRUE)
    <3>1. tim.uif = FALSE
      BY <1>3, <2>2 DEF Timers
    <3>2. x = tim.base + PeriodOf(tim)
      BY <3>1, Zenon DEF WaitUIF
    <3>3. now < tim.base + PeriodOf(tim)
      BY <1>5, <2>2, Zenon DEF Pending
    <3> QED
      BY <1>3, <1>6, <3>2, <3>3
  <2> QED
    BY <2>1, <2>2
<1>8. a \in Nat /\ b \in Nat /\ lost \in BOOLEAN
  BY <1>2, <1>3, HostTypes DEF Losses
<1> HIDE DEF x, t
<1>9. /\ now' \in Nat /\ x + a \in Nat /\ now <= x + a /\ x + a <= now' /\ x <= now'
      /\ now <= now'
  BY <1>2, <1>3, <1>6, <1>7, <1>8
<1>10. /\ HostCentis(now) \in Nat /\ HostCentis(x + a) \in Nat /\ HostCentis(now') \in Nat
       /\ HostCentis(x + a) <= HostCentis(now') /\ HostCentis(now) <= HostCentis(now')
  BY <1>3, <1>9, ReadingTypes, ClockGoesOn
<1>11. HostCentis(now)' = HostCentis(now')
  BY <1>1 DEF HostCentis, HostMs
<1>12. CASE at' = "wrongClock"
  BY <1>12 DEF LostInv
<1>13. CASE /\ intervalMatches(time(a, lost))
            /\ at' = IF lastRound THEN "passed" ELSE "interval"
            /\ wallTime' = time(a, lost) /\ period' = longer(period)
            /\ tim' = Lengthened(TIM1(t, now'), period', ~lastRound)
  <2>1. at' = "interval" => Pending(tim, now)'
    <3>1. period' \in Nat \ {0} /\ period' = period + 150
      BY <1>3, <1>13 DEF longer
    <3>2. Pending(TIM1(t, now'), now') /\ TIM1(t, now') \in Timers(now') /\ TIM1(t, now').arr = t.arr
      BY <1>6, <1>9, TimerPending, TimerLater
    <3>3. PICK e \in BOOLEAN : e = ~lastRound
      BY Zenon
    <3>4. tim' = Lengthened(TIM1(t, now'), period', e)
      BY <1>13, <3>3, Zenon
    <3>5. /\ tim'.arr = halfTicks(period') /\ tim'.base = TIM1(t, now').base
          /\ tim'.uif = TIM1(t, now').uif
      <4>1. /\ Lengthened(TIM1(t, now'), period', e).arr = halfTicks(period')
            /\ Lengthened(TIM1(t, now'), period', e).base = TIM1(t, now').base
            /\ Lengthened(TIM1(t, now'), period', e).uif = TIM1(t, now').uif
        BY <1>9, <3>1, <3>2, Lengthens
      <4> QED
        BY <3>4, <4>1, Zenon
    <3>6. t.arr = 2 * period - 1
      <4>1. PICK k \in 1 .. 8 : tim.arr = 2 * period - 1
        BY <1>1 DEF TypeInv, PeriodInv
      <4> QED
        BY <1>6, <4>1
    <3>7. PeriodOf(TIM1(t, now')) = period /\ PeriodOf(tim') = period + 150
      BY <1>3, <3>1, <3>2, <3>5, <3>6 DEF PeriodOf, halfTicks
    <3>8. TIM1(t, now').base \in Nat
      BY <1>9, <3>2 DEF Timers
    <3>9. TIM1(t, now').uif = TRUE \/ now' < TIM1(t, now').base + PeriodOf(TIM1(t, now'))
      BY <3>2, Zenon DEF Pending
    <3>10. tim'.uif = TRUE \/ now' < tim'.base + PeriodOf(tim')
      BY <1>3, <1>9, <3>5, <3>7, <3>8, <3>9
    <3>11. PeriodOf(tim)' = PeriodOf(tim')
      BY Zenon DEF PeriodOf
    <3> QED
      BY <3>10, <3>11, Zenon DEF Pending
  <2>2. /\ delays'.lost = FALSE => delays.lost = FALSE /\ lost = FALSE
        /\ delays'.lost = TRUE => delays.lost = TRUE \/ (delays.lost = FALSE /\ lost = TRUE)
    <3>1. delays.lost \in BOOLEAN
      BY Typed DEF DelayTypes
    <3>2. delays'.lost = (delays.lost \/ lost)
      BY <1>2, Zenon DEF Noted
    <3> QED
      BY <1>8, <3>1, <3>2, Zenon
  <2>3. wallTime' <= HostCentis(now)'
    <3>1. CASE lost = TRUE
      <4>1. wallTime' = -1
        BY <1>13, <3>1, Zenon
      <4> QED
        BY <1>10, <1>11, <4>1
    <3>2. CASE lost = FALSE
      <4>1. wallTime' = HostCentis(x + a)
        BY <1>13, <3>2, Zenon
      <4> QED
        BY <1>10, <1>11, <4>1
    <3> QED
      BY <1>8, <3>1, <3>2
  <2>4. delays'.lost = FALSE => wallTime' >= 0
    <3>1. lost = FALSE => wallTime' = HostCentis(x + a)
      BY <1>13, Zenon
    <3>2. lost = FALSE => wallTime' >= 0
      BY <1>10, <3>1
    <3> QED
      BY <2>2, <3>2, Zenon
  <2>5. delays'.lost = TRUE => NearWord(HostCentis(now), period)
    <3>1. CASE delays.lost = TRUE
      BY <1>1, <3>1 DEF LostInv
    <3>2. CASE delays.lost = FALSE /\ lost = TRUE
      <4>1. intervalMatches(-1)
        BY <1>13, <3>2, Zenon
      <4>2. wallTime \in Nat
        BY <1>3, <1>5, <3>2
      <4>3. Accepted(wallTime, period)
        <5>1. (-1 - wallTime) * 10 = -(10 * wallTime + 10)
          BY <4>2
        <5>2. Wrap((-1 - wallTime) * 10) <= period + 40
          BY <4>1, Zenon DEF intervalMatches
        <5> QED
          BY <5>1, <5>2, Zenon DEF Accepted, Failed
      <4>4. NearWord(wallTime, period)
        BY <1>3, <4>2, <4>3, AcceptedNear
      <4> QED
        BY <1>3, <1>5, <1>10, <4>2, <4>4, WordTypes DEF NearWord
    <3> QED
      BY <2>2, <3>1, <3>2, Zenon
  <2>6. delays'.lost = TRUE => NearWord(HostCentis(now), period)'
    <3>1. period' = period + 150
      BY <1>13 DEF longer
    <3>2. NearWord(HostCentis(now), period) => HostCentis(now)' * 10 + period' + 50 >= Word
      BY <1>3, <1>10, <1>11, <3>1, WordTypes DEF NearWord
    <3> QED
      BY <2>5, <3>2, Zenon DEF NearWord
  <2> QED
    BY <2>1, <2>3, <2>4, <2>6, Zenon DEF LostInv
<1> QED
  BY <1>2, <1>12, <1>13

\* Every step keeps this.
LEMMA LostStep == ClockInv /\ LostInv /\ [Next]_clockVars => LostInv'
<1> SUFFICES ASSUME ClockInv, LostInv, [Next]_clockVars PROVE LostInv'
  OBVIOUS
<1>0. TypeInv
  BY DEF ClockInv
<1>1. CASE startTimekeeping \/ startIntervals \/ calibrate \/ timeRound
  <2>1. at' \in {"calibrate", "firstClock", "noTimer", "time", "wrongTime", "intervals"}
    <3>1. \/ at' = "calibrate" \/ at' = "firstClock" \/ at' = "noTimer" \/ at' = "time"
          \/ at' = "wrongTime" \/ at' = "intervals"
      BY <1>1, Zenon DEF startTimekeeping, startIntervals, calibrate, timeRound
    <3> QED
      BY <3>1
  <2> QED
    BY <2>1 DEF LostInv
<1>2. CASE firstClock
  BY <1>0, <1>2, FirstClockLost
<1>3. CASE intervalRound
  BY <1>0, <1>3, IntervalLost
<1>4. CASE UNCHANGED clockVars
  <2>1. /\ at' = at /\ now' = now /\ host' = host /\ tim' = tim
        /\ wallTime' = wallTime /\ period' = period /\ delays' = delays
    BY <1>4 DEF clockVars
  <2>2. HostCentis(now)' = HostCentis(now) /\ PeriodOf(tim)' = PeriodOf(tim)
    BY <2>1 DEF HostCentis, HostMs, PeriodOf
  <2> QED
    BY <2>1, <2>2, Zenon DEF LostInv, Pending, NearWord
<1> QED
  BY <1>1, <1>2, <1>3, <1>4, Zenon DEF Next, testTimekeeping, testIntervals, Done

\* testIntervals passes with a failed call behind it only when the host's clock
\* has come to within an interval of the word.
THEOREM FailedClocksCaught == Spec => []FailedClockCaught
<1>1. Init => LostInv
  <2>1. Init => at = "timekeeping"
    BY DEF Init
  <2> QED
    BY <2>1 DEF LostInv
<1>2. ClockInv /\ LostInv => FailedClockCaught
  <2> SUFFICES ASSUME ClockInv, LostInv, at = "passed", delays.lost
               PROVE  HostCentis(now) * 10 + period + 50 >= Word
    BY Zenon DEF FailedClockCaught
  <2>1. delays.lost \in BOOLEAN
    BY Typed DEF ClockInv, DelayTypes
  <2>2. delays.lost = TRUE
    BY <2>1, Zenon
  <2>3. at \in {"interval", "passed"}
    OBVIOUS
  <2> QED
    BY <2>2, <2>3, Zenon DEF LostInv, NearWord
<1> QED
  BY <1>1, <1>2, LostStep, ClockAlways, PTL DEF Spec

-----------------------------------------------------------------------------
\* The timer's period is of k seconds.
OfSeconds(t, k) == t.arr = 2000 * k - 1

\* What StepsLeft comes to, at each place the firmware can be.
StepsCounted ==
    /\ at = "timekeeping" => StepsLeft = 21
    /\ at = "calibrate" => \E k \in 1 .. 8 : OfSeconds(tim, k) /\ StepsLeft = 21 - k
    /\ at = "time" => round \in 0 .. 4 /\ StepsLeft = 12 - round
    /\ at = "intervals" => StepsLeft = 7
    /\ at = "firstClock" => StepsLeft = 6 /\ round = 0
    /\ at = "interval" => round \in 0 .. 4 /\ StepsLeft = 5 - round
    /\ at \in Ended => StepsLeft = 0

\* There is always a step left until the tests have ended.
LEMMA CountsSteps == ClockInv => StepsCounted
<1> SUFFICES ASSUME ClockInv PROVE StepsCounted
  OBVIOUS
<1>1. round \in 0 .. 5 /\ PeriodInv /\ StartInv
  BY Zenon DEF ClockInv, TypeInv, TypeOK
<1>2. at = "timekeeping" => StepsLeft = 21
  BY DEF StepsLeft
<1>3. ASSUME at = "calibrate"
      PROVE  \E k \in 1 .. 8 : OfSeconds(tim, k) /\ StepsLeft = 21 - k
  <2>1. PICK k \in 1 .. 8 : tim.arr = 2000 * k - 1
    BY <1>1, <1>3 DEF PeriodInv, Ended
  <2>2. StepsLeft = 12 + (17999 - tim.arr) \div 2000
    BY <1>3 DEF StepsLeft
  <2>3. (17999 - tim.arr) \div 2000 = 9 - k
    BY <2>1
  <2> QED
    BY <2>1, <2>2, <2>3 DEF OfSeconds
<1>4. at = "time" => round \in 0 .. 4 /\ StepsLeft = 12 - round
  <2>1. at = "time" => StepsLeft = 12 - round
    BY DEF StepsLeft
  <2> QED
    BY <1>1, <2>1 DEF StartInv
<1>5. at = "intervals" => StepsLeft = 7
  BY DEF StepsLeft
<1>6. at = "firstClock" => StepsLeft = 6 /\ round = 0
  BY <1>1 DEF StepsLeft, StartInv
<1>7. at = "interval" => round \in 0 .. 4 /\ StepsLeft = 5 - round
  <2>1. at = "interval" => StepsLeft = 5 - round
    BY DEF StepsLeft
  <2> QED
    BY <1>1, <2>1 DEF StartInv
<1>8. at \in Ended => StepsLeft = 0
  BY DEF StepsLeft, Ended
<1> QED
  BY <1>2, <1>3, <1>4, <1>5, <1>6, <1>7, <1>8, Zenon DEF StepsCounted

\* So it is after a step.
LEMMA CountsStepsAfter == ClockInv' => StepsCounted'
BY CountsSteps, PTL

\* What a step does to the place, the period and the round, as far as
\* StepsLeft depends on them.
Progress ==
    \/ at = "timekeeping" /\ at' = "calibrate"
    \/ at = "calibrate" /\ at' = "calibrate" /\ tim'.arr = Longer(tim)
    \/ at = "calibrate" /\ at' = "time"
    \/ at = "time" /\ at' = "time" /\ round' = round + 1
    \/ at = "time" /\ at' = "intervals"
    \/ at = "intervals" /\ at' = "firstClock"
    \/ at = "firstClock" /\ at' = "interval" /\ round' = round
    \/ at = "interval" /\ at' = "interval" /\ round' = round + 1
    \/ at \notin Ended /\ at' \in Ended

\* Every step but the last stutter gets on.
LEMMA Progresses == ClockInv /\ Next => Progress \/ UNCHANGED clockVars
<1> SUFFICES ASSUME ClockInv, Next PROVE Progress \/ UNCHANGED clockVars
  OBVIOUS
<1>1. CASE startTimekeeping \/ startIntervals
  <2>1. \/ at = "timekeeping" /\ at' = "calibrate"
        \/ at = "intervals" /\ at' = "firstClock"
    BY <1>1, Zenon DEF startTimekeeping, startIntervals
  <2> QED
    BY <2>1, Zenon DEF Progress
<1>2. CASE calibrate
  <2>1. PICK a \in host.before, b \in host.after :
           /\ at = "calibrate" /\ now' = now + a + b
           /\ \/ at' \in {"calibrate", "noTimer"} /\ tim' = retry(tim, now')
              \/ at' \in {"noTimer", "time"}
    BY <1>2, Zenon DEF calibrate
  <2>2. tim \in Timers(now) /\ now \in Nat
    BY Typed DEF ClockInv
  <2>3. now' \in Nat
    <3>1. TypeInv'
      BY <1>2, CalibrateTypes DEF ClockInv
    <3> QED
      BY <3>1, Zenon DEF TypeInv, TypeOK
  <2>4. retry(tim, now').arr = Longer(tim)
    BY <2>2, <2>3, Retries, Zenon
  <2>5. CASE at' = "calibrate"
    <3>1. "calibrate" # "noTimer" /\ "calibrate" # "time"
      OBVIOUS
    <3>2. tim' = retry(tim, now')
      BY <2>1, <2>5, <3>1
    <3> QED
      BY <2>1, <2>4, <2>5, <3>2, Zenon DEF Progress
  <2>6. CASE at' = "noTimer"
    BY <2>1, <2>6 DEF Progress, Ended
  <2>7. CASE at' = "time"
    BY <2>1, <2>7, Zenon DEF Progress
  <2> QED
    BY <2>1, <2>5, <2>6, <2>7
<1>3. CASE timeRound
  <2>1. \/ at' = "wrongTime" \/ at' = "intervals"
        \/ at' = "time" /\ round' = round + 1
    BY <1>3, Zenon DEF timeRound
  <2>2. at = "time"
    BY <1>3, Zenon DEF timeRound
  <2> QED
    BY <2>1, <2>2 DEF Progress, Ended
<1>4. CASE firstClock
  <2>1. at = "firstClock" /\ (at' = "noClock" \/ at' = "interval") /\ round' = round
    BY <1>4, Zenon DEF firstClock
  <2> QED
    BY <2>1 DEF Progress, Ended
<1>5. CASE intervalRound
  <2>1. \/ at' = "wrongClock" \/ at' = "passed"
        \/ at' = "interval" /\ round' = round + 1
    BY <1>5, Zenon DEF intervalRound
  <2>2. at = "interval"
    BY <1>5, Zenon DEF intervalRound
  <2> QED
    BY <2>1, <2>2 DEF Progress, Ended
<1>6. CASE Done
  BY <1>6 DEF Done
<1> QED
  BY <1>1, <1>2, <1>3, <1>4, <1>5, <1>6, Zenon DEF Next, testTimekeeping, testIntervals

\* That leaves fewer steps.
LEMMA ProgressCounts ==
  ClockInv /\ ClockInv' /\ Progress => StepsLeft' \in 0 .. StepsLeft - 1
<1> SUFFICES ASSUME ClockInv, ClockInv', Progress PROVE StepsLeft' \in 0 .. StepsLeft - 1
  OBVIOUS
<1>1. StepsCounted /\ StepsCounted'
  BY CountsSteps, CountsStepsAfter
<1>2. at \in {"timekeeping", "calibrate", "time", "intervals", "firstClock", "interval"} \cup Ended
  BY Zenon DEF ClockInv, TypeInv, TypeOK
<1>3. PICK m : m = StepsLeft
  OBVIOUS
<1>4. PICK n : n = StepsLeft'
  OBVIOUS
<1>5. /\ at = "timekeeping" => m = 21
      /\ at = "calibrate" => \E k \in 1 .. 8 : OfSeconds(tim, k) /\ m = 21 - k
      /\ at = "time" => round \in 0 .. 4 /\ m = 12 - round
      /\ at = "intervals" => m = 7
      /\ at = "firstClock" => m = 6 /\ round = 0
      /\ at = "interval" => round \in 0 .. 4 /\ m = 5 - round
  BY <1>1, <1>3, Zenon DEF StepsCounted
<1>6. /\ at' = "calibrate" => \E k \in 1 .. 8 : OfSeconds(tim', k) /\ n = 21 - k
      /\ at' = "time" => round' \in 0 .. 4 /\ n = 12 - round'
      /\ at' = "intervals" => n = 7
      /\ at' = "firstClock" => n = 6
      /\ at' = "interval" => round' \in 0 .. 4 /\ n = 5 - round'
      /\ at' \in Ended => n = 0
  BY <1>1, <1>4, Zenon DEF StepsCounted
<1>7. n \in 0 .. m - 1
  <2>1. CASE at \notin Ended /\ at' \in Ended
    BY <1>2, <1>5, <1>6, <2>1
  <2>2. CASE at = "calibrate" /\ at' = "calibrate" /\ tim'.arr = Longer(tim)
    BY <1>5, <1>6, <2>2 DEF OfSeconds, Longer
  <2>3. CASE \/ at = "timekeeping" /\ at' = "calibrate"
             \/ at = "calibrate" /\ at' = "time"
    BY <1>5, <1>6, <2>3
  <2>4. CASE \/ at = "time" /\ at' = "time" /\ round' = round + 1
             \/ at = "time" /\ at' = "intervals"
             \/ at = "intervals" /\ at' = "firstClock"
    BY <1>5, <1>6, <2>4
  <2>5. CASE \/ at = "firstClock" /\ at' = "interval" /\ round' = round
             \/ at = "interval" /\ at' = "interval" /\ round' = round + 1
    BY <1>5, <1>6, <2>5
  <2> QED
    BY <2>1, <2>2, <2>3, <2>4, <2>5, Zenon DEF Progress
<1> QED
  BY <1>3, <1>4, <1>7

\* The two tests come to their end in at most 21 steps, 19 of them calls: each
\* retry of the calibration leaves fewer retries, and no loop does more rounds
\* than it counts.
THEOREM ClockTestsEnd == Spec => StepsRunOut
<1>1. ClockInv /\ ClockInv' /\ [Next]_clockVars => [StepsLeft' \in 0 .. StepsLeft - 1]_clockVars
  BY Progresses, ProgressCounts, Zenon
<1> QED
  BY <1>1, ClockAlways, PTL DEF Spec, StepsRunOut
=============================================================================
