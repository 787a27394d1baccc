--------------------------- MODULE SwoTrace_proofs ---------------------------
(***************************************************************************)
(* Theorems about the SWO firmware, for every state an earlier session may *)
(* leave the trace units in and every depth of the stimulus port.          *)
(***************************************************************************)
EXTENDS SwoTrace, TLAPS

\* The points of swo_setup() from which on a unit's lock is open, and its
\* registers are written.
TPIUOpen    == {"TPIU", "unlock DWT", "DWT", "unlock ITM", "ITM", "DBGMCU"}
TPIUWritten == TPIUOpen \ {"TPIU"}
DWTOpen     == {"DWT", "unlock ITM", "ITM", "DBGMCU"}
DWTWritten  == DWTOpen \ {"DWT"}
ITMOpen     == {"ITM", "DBGMCU"}
Enabled     == TPIUOpen \cup {"unlock TPIU"}

TraceOn == trcena = TRUE

\* The trace units at each point of swo_setup(), whatever they held before.
SetupInv ==
    /\ pc # "clock_setup" => hz = RCC_CLOCK_3V3_84MHZ
    /\ Printing \/ pc \in Enabled => TraceOn /\ divisor = 728
    /\ pc \in TPIUOpen => "TPIU" \in open
    /\ pc \in DWTOpen => "DWT" \in open
    /\ pc \in ITMOpen => "ITM" \in open
    /\ Printing \/ pc \in TPIUWritten =>
          acpr = 728 /\ {"CSPSR", "SPPR", "FFCR"} \subseteq set
    /\ Printing \/ pc \in DWTWritten => "DWT_CTRL" \in set
    /\ Printing \/ pc = "DBGMCU" => {"TPR", "TCR", "TER"} \subseteq set
    /\ Printing => "DBGMCU_CR" \in set

\* What the port buffers continues the text on the wire, and the character to
\* print continues it; there is room for a character that is about to be
\* written, and the block is complete when the LED is toggled.
TextInv ==
    /\ ~Printing => fifo = <<>>
    /\ \A k \in 1 .. Len(fifo) : fifo[k] = (wire.char + k) % Characters
    /\ value = (wire.char + Len(fifo) + 1) % Characters
    /\ pc = "write" => Len(fifo) < Depth
    /\ pc = "toggle" => value = 0

-----------------------------------------------------------------------------
\* The divisors for the clock out of reset and the one set up.
LEMMA Divisors ==
  /\ (HSI \div SWO_BAUDRATE) - 1 = 137
  /\ (RCC_CLOCK_3V3_84MHZ \div SWO_BAUDRATE) - 1 = 728
BY SMT DEF SWO_BAUDRATE, HSI, RCC_CLOCK_3V3_84MHZ

\* What TypeOK says of the text on its way.
TextTypes ==
    /\ value \in 0 .. Characters - 1
    /\ fifo \in Seq(0 .. Characters - 1) /\ Len(fifo) <= Depth
    /\ wire \in [char : 0 .. Characters - 1, frame : {0, 1}]

\* The initial states have their types.
LEMMA InitTypes == Init => TypeOK
<1> SUFFICES ASSUME Init PROVE TypeOK
  OBVIOUS
<1>1. fifo \in Seq(0 .. Characters - 1) /\ Len(fifo) <= Depth
  BY DepthAssumption DEF Init
<1>2. value \in 0 .. Characters - 1 /\ wire \in [char : 0 .. Characters - 1, frame : {0, 1}]
  BY DEF Init, Characters
<1>3. led \in BOOLEAN /\ trcena \in BOOLEAN
  BY Zenon DEF Init
<1>4. pc = "clock_setup" /\ hz = HSI /\ divisor \in Nat /\ acpr \in Nat
  BY DEF Init
<1>5. open \subseteq Units /\ set \subseteq Registers
  BY DEF Init
<1> QED
  BY <1>1, <1>2, <1>3, <1>4, <1>5 DEF TypeOK

\* clock_setup() and swo_setup() keep the types.
LEMMA SetupTypes ==
  ASSUME TypeOK, clock_setup \/ swo_setup
  PROVE  TypeOK'
<1>1. CASE clock_setup
  BY <1>1 DEF clock_setup, Step, units, TypeOK
<1>2. CASE enableTrace
  <2>1. divisor' \in Nat
    <3>1. hz = HSI \/ hz = RCC_CLOCK_3V3_84MHZ
      BY DEF TypeOK
    <3>2. divisor' = (hz \div SWO_BAUDRATE) - 1
      BY <1>2, Zenon DEF enableTrace
    <3> QED
      BY <3>1, <3>2, Divisors
  <2>2. trcena' \in BOOLEAN
    BY <1>2, Zenon DEF enableTrace
  <2>3. pc' = "unlock TPIU" /\ UNCHANGED <<hz, open, set, acpr, value, fifo, led, wire>>
    BY <1>2, Zenon DEF enableTrace, Step
  <2> QED
    BY <2>1, <2>2, <2>3 DEF TypeOK
<1>3. ASSUME NEW at, NEW unit \in Units, NEW to \in Units, unlock(at, unit, to)
      PROVE  TypeOK'
  BY <1>3 DEF unlock, Units, Step, TypeOK
<1>4. ASSUME NEW unit, NEW registers \in SUBSET Registers,
             NEW to \in {"unlock DWT", "unlock ITM", "DBGMCU"}, Writes(unit, registers, to)
      PROVE  TypeOK'
  BY <1>4 DEF Writes, Step, TypeOK
<1>5. CASE configureTPIU \/ configureDWT \/ configureITM
  BY <1>4, <1>5 DEF configureTPIU, configureDWT, configureITM, Registers
<1>6. CASE assignPin
  BY <1>6 DEF assignPin, Registers, Step, TypeOK
<1> QED
  BY <1>1, <1>2, <1>3, <1>5, <1>6 DEF swo_setup, Units

\* The character next on the wire is one of the text.
LEMMA HeadType ==
  ASSUME NEW S, NEW s \in Seq(S), s # <<>>
  PROVE  Head(s) \in S
OBVIOUS

\* Printing and sending keep the types of the text on its way.
LEMMA TextStepTypes ==
  ASSUME TextTypes, pc = "write" => Len(fifo) < Depth, writePort \/ Send
  PROVE  TextTypes'
<1> USE DEF TextTypes
<1>1. CASE writePort
  <2>1. value' \in 0 .. Characters - 1
    BY <1>1 DEF writePort, Characters
  <2>2. Append(fifo, value) \in Seq(0 .. Characters - 1) /\ Len(Append(fifo, value)) = Len(fifo) + 1
    OBVIOUS
  <2>3. Len(fifo) + 1 <= Depth
    BY <1>1, DepthAssumption DEF writePort
  <2>4. fifo' = fifo \/ fifo' = Append(fifo, value)
    BY <1>1 DEF writePort
  <2>5. fifo' \in Seq(0 .. Characters - 1) /\ Len(fifo') <= Depth
    BY <2>2, <2>3, <2>4
  <2> QED
    BY <1>1, <2>1, <2>5 DEF writePort
<1>2. CASE Send
  <2>1. fifo # <<>> /\ fifo' = Tail(fifo)
    BY <1>2 DEF Send
  <2>2. Tail(fifo) \in Seq(0 .. Characters - 1) /\ Len(Tail(fifo)) = Len(fifo) - 1
    BY <2>1
  <2>3. fifo' \in Seq(0 .. Characters - 1) /\ Len(fifo') <= Depth
    BY <2>1, <2>2, DepthAssumption
  <2>4. Head(fifo) \in 0 .. Characters - 1
    BY <2>1, HeadType
  <2>5. 1 - wire.frame \in {0, 1}
    OBVIOUS
  <2>6. wire' \in [char : 0 .. Characters - 1, frame : {0, 1}]
    BY <1>2, <2>4, <2>5 DEF Send
  <2> QED
    BY <1>2, <2>3, <2>6 DEF Send
<1> QED
  BY <1>1, <1>2

\* Every step of firmware and trace units keeps the types.
LEMMA NextTypes == TypeOK /\ TextInv /\ [Next]_vars => TypeOK'
<1> SUFFICES ASSUME TypeOK, TextInv, [Next]_vars PROVE TypeOK'
  OBVIOUS
<1>1. CASE clock_setup \/ swo_setup
  BY <1>1, SetupTypes
<1>2. CASE writePort \/ Send
  <2>1. TextTypes'
    BY <1>2, TextStepTypes DEF TypeOK, TextTypes, TextInv
  <2>2. pc' \in {"wait", "toggle", pc} /\ UNCHANGED <<hz, divisor, units, led>>
    BY <1>2 DEF writePort, Send
  <2> QED
    BY <2>1, <2>2 DEF TypeOK, TextTypes, units
<1>3. CASE awaitPort
  BY <1>3 DEF awaitPort, TypeOK, units
<1>4. CASE toggleLED
  <2>1. led' \in BOOLEAN
    BY <1>4 DEF toggleLED
  <2> QED
    BY <1>4, <2>1 DEF toggleLED, TypeOK, units
<1>5. CASE UNCHANGED vars
  BY <1>5 DEF vars, TypeOK, units
<1> QED
  BY <1>1, <1>2, <1>3, <1>4, <1>5 DEF Next, main

-----------------------------------------------------------------------------
\* The text is not begun before the first character.
LEMMA InitText == Init => TextInv
<1> SUFFICES ASSUME Init PROVE TextInv
  OBVIOUS
<1>1. fifo = <<>> /\ Len(fifo) = 0 /\ value = 0 /\ wire.char = 27 /\ pc = "clock_setup"
  BY DEF Init, Characters
<1> QED
  BY <1>1 DEF TextInv, Printing, Characters

\* Positions in the text add up, whichever sum wraps first.
LEMMA Positions ==
  ASSUME NEW c \in 0 .. 27, NEW m \in Nat
  PROVE  /\ (c + 1) % 28 \in 0 .. 27
         /\ (((c + 1) % 28) + m) % 28 = (c + (m + 1)) % 28
         /\ (((c + m + 1) % 28) + 1) % 28 = (c + (m + 1) + 1) % 28
         /\ c + m + 1 = c + (m + 1)
<1>1. c + m + 1 = c + (m + 1) /\ (c + 1) % 28 \in 0 .. 27
  OBVIOUS
<1>2. (((c + 1) % 28) + m) % 28 = (c + (m + 1)) % 28
  BY SMTT(30)
<1>3. (((c + m + 1) % 28) + 1) % 28 = (c + (m + 1) + 1) % 28
  BY SMTT(30)
<1> QED
  BY <1>1, <1>2, <1>3

\* A character written to a port with room continues the text.
LEMMA WriteText ==
  ASSUME TextTypes, TextInv, SetupInv, writePort
  PROVE  TextInv'
<1> DEFINE n == Len(fifo)
           c == wire.char
<1>1. n \in Nat /\ n < Depth /\ c \in 0 .. 27 /\ value \in 0 .. 27 /\ Printing
  BY DEF TextTypes, TextInv, writePort, Characters, Printing
<1>r. TraceOn /\ {"TPR", "TCR", "TER"} \subseteq set
  BY <1>1 DEF SetupInv
<1>2. Ready
  BY <1>1, <1>r, Zenon DEF Ready, PortEnabled, TraceOn
<1>3. /\ fifo' = Append(fifo, value) /\ value' = (value + 1) % 28 /\ wire' = wire
      /\ pc' = IF value = 27 THEN "toggle" ELSE "wait"
  BY <1>2 DEF writePort, Characters
<1>4. /\ Len(fifo') = n + 1 /\ fifo'[n + 1] = value
      /\ \A k \in 1 .. n : fifo'[k] = fifo[k]
  BY <1>3 DEF TextTypes
<1>5. value = (c + n + 1) % 28 /\ \A k \in 1 .. n : fifo[k] = (c + k) % 28
  BY DEF TextInv, Characters
<1>c. wire'.char = c
  BY <1>3
<1> HIDE DEF n, c
<1>6. ASSUME NEW k \in 1 .. n + 1 PROVE fifo'[k] = (c + k) % 28
  <2>1. CASE k = n + 1
    BY <1>1, <1>4, <1>5, <2>1, Positions
  <2>2. CASE k # n + 1
    <3>1. k \in 1 .. n
      BY <1>1, <2>2
    <3> QED
      BY <1>4, <1>5, <3>1
  <2> QED
    BY <2>1, <2>2
<1>7. value' = (c + (n + 1) + 1) % 28
  BY <1>1, <1>3, <1>5, Positions
<1>8. pc' = "toggle" => value' = 0
  BY <1>1, <1>3
<1>9. pc' # "write" /\ Printing'
  BY <1>3 DEF Printing
<1> QED
  BY <1>c, <1>4, <1>6, <1>7, <1>8, <1>9 DEF TextInv, Characters

\* A character sent is the next of the text, and those behind it move up.
LEMMA SendText ==
  ASSUME TextTypes, TextInv, SetupInv, Send
  PROVE  TextInv' /\ wire'.char = (wire.char + 1) % Characters
                 /\ wire'.frame = 1 - wire.frame
<1> DEFINE n == Len(fifo)
           c == wire.char
           d == wire'.char
<1>1. /\ n \in Nat \ {0} /\ fifo # <<>> /\ Printing /\ n <= Depth
      /\ c \in 0 .. 27 /\ wire.frame \in {0, 1}
  BY DEF TextTypes, TextInv, Send, Characters
<1>2. Visible
  BY <1>1 DEF SetupInv, Visible
<1>3. /\ fifo' = Tail(fifo) /\ wire' = [char |-> Head(fifo), frame |-> 1 - wire.frame]
      /\ pc' = pc /\ value' = value
  BY <1>2 DEF Send
<1>4. Len(fifo') = n - 1 /\ \A k \in 1 .. n - 1 : fifo'[k] = fifo[k + 1]
  BY <1>1, <1>3 DEF TextTypes
<1>5. value = (c + n + 1) % 28 /\ \A k \in 1 .. n : fifo[k] = (c + k) % 28
  BY DEF TextInv, Characters
<1>6. d = fifo[1] /\ wire'.frame = 1 - wire.frame
  BY <1>1, <1>3 DEF TextTypes
<1>w. pc = "write" => n < Depth
  BY DEF TextInv
<1> HIDE DEF n, c, d
<1>7. d = (c + 1) % 28
  BY <1>1, <1>5, <1>6
<1>8. d \in 0 .. 27 /\ \A m \in Nat : (d + m) % 28 = (c + (m + 1)) % 28
  BY <1>1, <1>7, Positions
<1>9. ASSUME NEW k \in 1 .. n - 1 PROVE fifo'[k] = (d + k) % 28
  <2>1. k \in Nat /\ k + 1 \in 1 .. n /\ k \in 1 .. n - 1
    BY <1>1
  <2>2. fifo'[k] = (c + (k + 1)) % 28
    BY <1>4, <1>5, <2>1
  <2> QED
    BY <1>8, <2>1, <2>2
<1>10. value' = (d + (n - 1) + 1) % 28
  <2>1. n \in Nat /\ d + (n - 1) + 1 = d + n /\ c + n + 1 = c + (n + 1)
    BY <1>1, <1>8
  <2>2. (d + n) % 28 = (c + (n + 1)) % 28
    BY <1>8, <2>1
  <2> QED
    BY <1>3, <1>5, <2>1, <2>2
<1>11. (pc' = "write" => n - 1 < Depth) /\ Printing'
  BY <1>1, <1>3, <1>w, DepthAssumption DEF Printing
<1>12. pc' = "toggle" => value' = 0
  BY <1>3 DEF TextInv
<1>13. TextInv'
  BY <1>4, <1>9, <1>10, <1>11, <1>12 DEF TextInv, Characters, d
<1> QED
  BY <1>6, <1>7, <1>13 DEF Characters, c, d

\* Every step keeps the text in order.
LEMMA NextText == TypeOK /\ TextInv /\ SetupInv /\ [Next]_vars => TextInv'
<1> SUFFICES ASSUME TypeOK, TextInv, SetupInv, [Next]_vars PROVE TextInv'
  OBVIOUS
<1>1. CASE clock_setup \/ swo_setup
  <2>1. ~Printing /\ pc' \notin {"write", "toggle"} /\ UNCHANGED <<fifo, value, wire>>
    BY <1>1, Zenon DEF clock_setup, swo_setup, enableTrace, unlock, configureTPIU, configureDWT,
                configureITM, Writes, assignPin, Step, Printing
  <2> QED
    BY <2>1 DEF TextInv
<1>2. CASE awaitPort
  <2>1. Len(fifo) < Depth /\ Printing /\ pc' = "write" /\ UNCHANGED <<fifo, value, wire>>
    BY <1>2 DEF awaitPort, Ready, Printing
  <2> QED
    BY <2>1 DEF TextInv, Printing
<1>3. CASE writePort
  BY <1>3, WriteText DEF TypeOK, TextTypes
<1>4. CASE toggleLED
  <2>1. Printing /\ pc' = "wait" /\ UNCHANGED <<fifo, value, wire>>
    BY <1>4, Zenon DEF toggleLED, Printing
  <2> QED
    BY <2>1 DEF TextInv, Printing
<1>5. CASE Send
  BY <1>5, SendText DEF TypeOK, TextTypes
<1>6. CASE UNCHANGED vars
  BY <1>6 DEF vars, TextInv, Printing
<1> QED
  BY <1>1, <1>2, <1>3, <1>4, <1>5, <1>6 DEF Next, main

-----------------------------------------------------------------------------
\* Nothing of the setup has happened at the start.
LEMMA InitSetup == Init => SetupInv
BY DEF Init, SetupInv, Printing, Enabled, TPIUOpen, TPIUWritten, DWTOpen, DWTWritten, ITMOpen

\* Writes to a unit that is enabled and open are taken.
LEMMA WritesTaken ==
  ASSUME NEW unit, NEW registers, NEW to, Writes(unit, registers, to), TraceOn, unit \in open
  PROVE  /\ pc = unit /\ pc' = to /\ set \subseteq set' /\ registers \subseteq set'
         /\ hz' = hz /\ divisor' = divisor /\ open' = open /\ TraceOn'
<1>1. Taken(unit)
  BY Zenon DEF Taken, TraceOn
<1>2. set' = set \cup registers
  BY <1>1, Zenon DEF Writes
<1>3. TraceOn'
  BY Zenon DEF Writes, TraceOn
<1>4. pc = unit /\ pc' = to /\ hz' = hz /\ divisor' = divisor /\ open' = open
  BY Zenon DEF Writes, Step
<1> QED
  BY <1>2, <1>3, <1>4

\* An unlocking of a unit that is enabled opens its lock.
LEMMA UnlockTaken ==
  ASSUME NEW at, NEW unit, NEW to, unlock(at, unit, to), TraceOn
  PROVE  /\ pc = at /\ pc' = to /\ open' = open \cup {unit}
         /\ hz' = hz /\ divisor' = divisor /\ set' = set /\ acpr' = acpr /\ TraceOn'
<1>1. TraceOn' /\ open' = open \cup {unit}
  BY Zenon DEF unlock, TraceOn
<1>2. pc = at /\ pc' = to /\ hz' = hz /\ divisor' = divisor /\ set' = set /\ acpr' = acpr
  BY Zenon DEF unlock, Step
<1> QED
  BY <1>1, <1>2

\* Every step keeps what the setup has reached.
LEMMA NextSetup == SetupInv /\ [Next]_vars => SetupInv'
<1> SUFFICES ASSUME SetupInv, [Next]_vars PROVE SetupInv'
  OBVIOUS
<1> USE DEF Enabled, TPIUOpen, TPIUWritten, DWTOpen, DWTWritten, ITMOpen
<1>1. CASE clock_setup
  <2>1. pc' = "enable" /\ hz' = RCC_CLOCK_3V3_84MHZ
    BY <1>1 DEF clock_setup, Step
  <2> QED
    BY <2>1 DEF SetupInv, Printing
<1>2. CASE enableTrace
  <2>1. /\ pc = "enable" /\ pc' = "unlock TPIU" /\ TraceOn' /\ hz' = hz
        /\ divisor' = (hz \div SWO_BAUDRATE) - 1
    BY <1>2, Zenon DEF enableTrace, Step, TraceOn
  <2>h. hz = RCC_CLOCK_3V3_84MHZ
    BY <2>1, Zenon DEF SetupInv
  <2>2. hz' = RCC_CLOCK_3V3_84MHZ /\ divisor' = 728
    BY <2>1, <2>h, Divisors
  <2> QED
    BY <2>1, <2>2 DEF SetupInv, Printing
<1>3. CASE unlock("unlock TPIU", "TPIU", "TPIU")
  <2>1. pc = "unlock TPIU"
    BY <1>3, Zenon DEF unlock, Step
  <2>2. TraceOn
    BY <2>1 DEF SetupInv
  <2>3. /\ pc' = "TPIU" /\ open' = open \cup {"TPIU"} /\ TraceOn'
        /\ hz' = hz /\ divisor' = divisor /\ set' = set /\ acpr' = acpr
    BY <1>3, <2>2, UnlockTaken
  <2>4. "TPIU" \in open' /\ open \subseteq open'
    BY <2>3
  <2> QED
    BY <2>1, <2>3, <2>4 DEF SetupInv, Printing
<1>4. CASE configureTPIU
  <2>p. pc = "TPIU"
    BY <1>4, Zenon DEF configureTPIU, Writes, Step
  <2>1. TraceOn /\ "TPIU" \in open
    BY <2>p DEF SetupInv
  <2>d. divisor = 728
    BY <2>p DEF SetupInv
  <2>2. Writes("TPIU", {"CSPSR", "SPPR", "FFCR"}, "unlock DWT")
    BY <1>4, Zenon DEF configureTPIU
  <2>3. /\ pc' = "unlock DWT" /\ set \subseteq set' /\ {"CSPSR", "SPPR", "FFCR"} \subseteq set'
        /\ hz' = hz /\ divisor' = divisor /\ open' = open /\ TraceOn'
    BY <2>1, <2>2, WritesTaken
  <2>4. acpr' = divisor
    <3>1. Taken("TPIU")
      BY <2>1, Zenon DEF Taken, TraceOn
    <3> QED
      BY <2>2, <3>1, Zenon DEF Writes
  <2> QED
    BY <2>p, <2>1, <2>d, <2>3, <2>4 DEF SetupInv, Printing
<1>5. CASE unlock("unlock DWT", "DWT", "DWT")
  <2>1. pc = "unlock DWT"
    BY <1>5, Zenon DEF unlock, Step
  <2>2. TraceOn
    BY <2>1 DEF SetupInv
  <2>3. /\ pc' = "DWT" /\ open' = open \cup {"DWT"} /\ TraceOn'
        /\ hz' = hz /\ divisor' = divisor /\ set' = set /\ acpr' = acpr
    BY <1>5, <2>2, UnlockTaken
  <2>4. "DWT" \in open' /\ open \subseteq open'
    BY <2>3
  <2> QED
    BY <2>1, <2>3, <2>4 DEF SetupInv, Printing
<1>6. CASE configureDWT
  <2>p. pc = "DWT"
    BY <1>6, Zenon DEF configureDWT, Writes, Step
  <2>1. TraceOn /\ "DWT" \in open
    BY <2>p DEF SetupInv
  <2>2. Writes("DWT", {"DWT_CTRL"}, "unlock ITM")
    BY <1>6, Zenon DEF configureDWT
  <2>3. /\ pc' = "unlock ITM" /\ set \subseteq set' /\ {"DWT_CTRL"} \subseteq set'
        /\ hz' = hz /\ divisor' = divisor /\ open' = open /\ TraceOn'
    BY <2>1, <2>2, WritesTaken
  <2>4. acpr' = acpr
    BY <2>2, Zenon DEF Writes
  <2> QED
    BY <2>p, <2>1, <2>3, <2>4 DEF SetupInv, Printing
<1>7. CASE unlock("unlock ITM", "ITM", "ITM")
  <2>1. pc = "unlock ITM"
    BY <1>7, Zenon DEF unlock, Step
  <2>2. TraceOn
    BY <2>1 DEF SetupInv
  <2>3. /\ pc' = "ITM" /\ open' = open \cup {"ITM"} /\ TraceOn'
        /\ hz' = hz /\ divisor' = divisor /\ set' = set /\ acpr' = acpr
    BY <1>7, <2>2, UnlockTaken
  <2>4. "ITM" \in open' /\ open \subseteq open'
    BY <2>3
  <2> QED
    BY <2>1, <2>3, <2>4 DEF SetupInv, Printing
<1>8. CASE configureITM
  <2>p. pc = "ITM"
    BY <1>8, Zenon DEF configureITM, Writes, Step
  <2>1. TraceOn /\ "ITM" \in open
    BY <2>p DEF SetupInv
  <2>2. Writes("ITM", {"TPR", "TCR", "TER"}, "DBGMCU")
    BY <1>8, Zenon DEF configureITM
  <2>3. /\ pc' = "DBGMCU" /\ set \subseteq set' /\ {"TPR", "TCR", "TER"} \subseteq set'
        /\ hz' = hz /\ divisor' = divisor /\ open' = open /\ TraceOn'
    BY <2>1, <2>2, WritesTaken
  <2>4. acpr' = acpr
    BY <2>2, Zenon DEF Writes
  <2> QED
    BY <2>p, <2>1, <2>3, <2>4 DEF SetupInv, Printing
<1>9. CASE assignPin
  <2>1. pc = "DBGMCU" /\ pc' = "wait" /\ set' = set \cup {"DBGMCU_CR"}
    BY <1>9, Zenon DEF assignPin, Step
  <2>2. /\ hz' = hz /\ divisor' = divisor /\ open' = open /\ acpr' = acpr
        /\ (TraceOn => TraceOn')
    BY <1>9, Zenon DEF assignPin, TraceOn
  <2> QED
    BY <2>1, <2>2 DEF SetupInv, Printing
<1>10. CASE awaitPort \/ writePort \/ toggleLED
  <2>1. Printing /\ pc' \in {"wait", "write", "toggle"}
    BY <1>10 DEF awaitPort, writePort, toggleLED, Printing
  <2>3. /\ hz' = hz /\ divisor' = divisor /\ set' = set
        /\ open' = open /\ acpr' = acpr /\ (TraceOn => TraceOn')
    BY <1>10, Zenon DEF awaitPort, writePort, toggleLED, units, TraceOn
  <2>2. pc' \notin TPIUOpen \cup {"unlock TPIU", "clock_setup"} /\ pc # "clock_setup"
    BY <2>1 DEF Printing
  <2> QED
    BY <2>1, <2>2, <2>3 DEF SetupInv, Printing
<1> HIDE DEF Enabled, TPIUOpen, TPIUWritten, DWTOpen, DWTWritten, ITMOpen
<1>11. CASE Send \/ UNCHANGED vars
  <2>1. /\ pc' = pc /\ hz' = hz /\ divisor' = divisor /\ set' = set
        /\ open' = open /\ acpr' = acpr /\ (TraceOn => TraceOn')
    BY <1>11, Zenon DEF Send, vars, units, TraceOn
  <2> QED
    BY <2>1 DEF SetupInv, Printing
<1> QED
  BY <1>1, <1>2, <1>3, <1>4, <1>5, <1>6, <1>7, <1>8, <1>9, <1>10, <1>11
  DEF Next, main, swo_setup

\* The three invariants hold together.
LEMMA AllFollowed == Spec => [](TypeOK /\ TextInv /\ SetupInv)
<1>1. Init => TypeOK /\ TextInv /\ SetupInv
  BY InitTypes, InitText, InitSetup
<1>2. TypeOK /\ TextInv /\ SetupInv /\ [Next]_vars => (TypeOK /\ TextInv /\ SetupInv)'
  BY NextTypes, NextText, NextSetup
<1> QED
  BY <1>1, <1>2, PTL DEF Spec

\* Firmware and trace units stay within their types, the port within its depth
\* (swo.c:92-99).
THEOREM TraceTypes == Spec => []TypeOK
BY AllFollowed, PTL

\* No register write meets a closed lock, whatever an earlier session left in
\* the trace units (swo.c:63-89).
THEOREM RegistersTaken == Spec => []TakenFromAnyState
<1>1. TypeOK /\ SetupInv => TakenFromAnyState
  <2> SUFFICES ASSUME TypeOK, SetupInv, Printing PROVE TraceOn /\ set = Registers
    BY Zenon DEF TakenFromAnyState, TraceOn
  <2>1. set \subseteq Registers
    BY Zenon DEF TypeOK
  <2> QED
    BY <2>1 DEF SetupInv, Registers
<1> QED
  BY <1>1, AllFollowed, PTL

\* The listener's rate is that of the clock the core runs on (swo.c:66-72).
THEOREM RateStaysKept == Spec => []RateKept
<1>1. SetupInv => RateKept
  <2> SUFFICES ASSUME SetupInv, Printing PROVE (hz \div (acpr + 1)) \in 112896 .. 117504
    BY SMTT(30) DEF RateKept
  <2>1. hz = RCC_CLOCK_3V3_84MHZ /\ acpr = 728
    BY DEF SetupInv, Printing
  <2>2. RCC_CLOCK_3V3_84MHZ \div (728 + 1) \in 112896 .. 117504
    BY SMTT(30) DEF RCC_CLOCK_3V3_84MHZ
  <2> QED
    BY <2>1, <2>2, SMTT(60)
<1> QED
  BY <1>1, AllFollowed, PTL

\* The wire shows the text in order, none of it lost or repeated, although the
\* firmware only polls a bit (swo.c:92-99, 108-116): the firmware's steps are
\* those of the stream or leave it as it is.  This is the safety part of
\* PrintsText.
THEOREM TextInOrder == Spec => Listener!InOrder
<1>1. Init => Listener!Quiet
  BY DEF Init, Listener!Quiet
<1>2. TypeOK /\ TextInv /\ SetupInv /\ [Next]_vars
        => [Listener!Advance]_(Listener!streamVars)
  <2> SUFFICES ASSUME TypeOK, TextInv, SetupInv, [Next]_vars
      PROVE  Listener!Advance \/ UNCHANGED Listener!streamVars
    OBVIOUS
  <2>1. CASE Send
    BY <2>1, SendText DEF TypeOK, TextTypes, Listener!Advance
  <2>2. CASE UNCHANGED wire
    BY <2>2 DEF Listener!streamVars
  <2>3. Send \/ UNCHANGED wire
    BY Zenon DEF Next, main, clock_setup, swo_setup, enableTrace, unlock, configureTPIU,
       configureDWT, configureITM, Writes, assignPin, Step, awaitPort, writePort,
       toggleLED, vars
  <2> QED
    BY <2>1, <2>2, <2>3
<1> QED
  BY <1>1, <1>2, AllFollowed, PTL DEF Spec, Listener!InOrder

\* The LED never gets ahead of the text by more than the port buffers
\* (swo.c:111-115).
THEOREM LEDBehindWire == Spec => LEDFollowsWire
<1>1. TypeOK /\ TextInv /\ [Next]_vars
        => [led' # led => wire.char >= Characters - 1 - Depth]_vars
  <2> SUFFICES ASSUME TypeOK, TextInv, [Next]_vars, led' # led
      PROVE  wire.char >= Characters - 1 - Depth
    OBVIOUS
  <2>1. toggleLED \/ led' = led
    BY Zenon DEF Next, main, clock_setup, swo_setup, enableTrace, unlock, configureTPIU,
       configureDWT, configureITM, Writes, assignPin, Step, awaitPort, writePort,
       Send, vars
  <2> DEFINE n == Len(fifo)
             c == wire.char
  <2>2. value = 0
    BY <2>1 DEF toggleLED, TextInv
  <2>t. TextTypes
    BY Zenon DEF TypeOK, TextTypes
  <2>3. n \in Nat /\ n <= Depth /\ c \in 0 .. 27 /\ (c + n + 1) % 28 = 0
    BY <2>2, <2>t DEF TextTypes, TextInv, Characters
  <2> HIDE DEF n, c
  <2>4. c >= 27 - n
    BY <2>3
  <2>5. c >= 28 - 1 - Depth
    BY <2>3, <2>4, DepthAssumption
  <2> QED
    BY <2>5 DEF c, Characters
<1> QED
  BY <1>1, AllFollowed, PTL DEF Spec, LEDFollowsWire
=============================================================================
