------------------------------ MODULE SwoTrace ------------------------------
(***************************************************************************)
(* src/stm32/f4/swo/swo.c: the firmware that prints through stimulus port  *)
(* 0 of the ITM, over the TPIU, on the SWO pin.  The trace units are       *)
(* hardware.  They are found as an earlier debug session left them, take a *)
(* register write only when trace is enabled and their lock is open, and   *)
(* put what the port buffers on the wire at their own pace.                *)
(***************************************************************************)
EXTENDS Integers, Sequences

CONSTANT Depth    \* characters the stimulus port buffers

ASSUME DepthAssumption == Depth \in Nat \ {0}

VARIABLES
    pc,
    hz,        \* core clock
    divisor,   \* swo_setup()'s local variable
    trcena,    \* trace is enabled in DEMCR
    open,      \* the trace units whose lock is open
    set,       \* the trace registers that hold what the firmware wants
    acpr,      \* the TPIU's divisor register
    value,     \* the character main() prints next, 0 for 'A'
    fifo,      \* characters in the stimulus port
    led,       \* PA5
    wire       \* the last character on the wire, and its frame bit

units == <<trcena, open, set, acpr>>
vars  == <<pc, hz, divisor, units, value, fifo, led, wire>>

\* The core clock out of reset, and RCC_CLOCK_3V3_84MHZ.
HSI == 16000000
RCC_CLOCK_3V3_84MHZ == 84000000
SWO_BAUDRATE == 115200
Characters   == 28    \* A to Z, \r and \n
Units        == {"TPIU", "DWT", "ITM"}
Registers    == {"CSPSR", "SPPR", "FFCR", "DWT_CTRL", "TPR", "TCR", "TER", "DBGMCU_CR"}

Init ==
    /\ pc = "clock_setup" /\ hz = HSI /\ divisor = 0
    /\ trcena \in BOOLEAN /\ open \in SUBSET Units
    /\ set \in SUBSET Registers /\ acpr \in {0, 138}
    /\ value = 0 /\ fifo = <<>> /\ led = FALSE
    /\ wire = [char |-> Characters - 1, frame |-> 0]

Step(at, to) ==
    pc = at /\ pc' = to /\ UNCHANGED <<value, fifo, led, wire>>

-----------------------------------------------------------------------------
\* clock_setup() and gpio_setup(): 84 MHz, PA5 an output.
clock_setup ==
    /\ Step("clock_setup", "enable")
    /\ hz' = RCC_CLOCK_3V3_84MHZ
    /\ UNCHANGED <<divisor, units>>

\* Mutant: the divisor is that of the clock out of reset.
enableTraceStaleClock ==
    /\ Step("enable", "unlock TPIU")
    /\ trcena' = TRUE
    /\ divisor' = (HSI \div SWO_BAUDRATE) - 1
    /\ UNCHANGED <<hz, open, set, acpr>>

\* swo_setup(), in the order of its writes.
enableTrace ==
    /\ Step("enable", "unlock TPIU")
    /\ trcena' = TRUE
    /\ divisor' = (hz \div SWO_BAUDRATE) - 1
    /\ UNCHANGED <<hz, open, set, acpr>>

\* Mutant: an unlock is forgotten.
unlockNone(at, unit, to) ==
    /\ Step(at, to)
    /\ UNCHANGED <<hz, divisor, units>>

unlock(at, unit, to) ==
    /\ Step(at, to)
    /\ open' = IF trcena THEN open \cup {unit} ELSE open
    /\ UNCHANGED <<hz, divisor, trcena, set, acpr>>

\* What writing registers of a trace unit does.
Taken(unit) == trcena /\ unit \in open
Writes(unit, registers, to) ==
    /\ Step(unit, to)
    /\ set' = IF Taken(unit) THEN set \cup registers ELSE set
    /\ acpr' = IF Taken(unit) /\ unit = "TPIU" THEN divisor ELSE acpr
    /\ UNCHANGED <<hz, divisor, trcena, open>>

configureTPIU == Writes("TPIU", {"CSPSR", "SPPR", "FFCR"}, "unlock DWT")
configureDWT  == Writes("DWT", {"DWT_CTRL"}, "unlock ITM")
configureITM  == Writes("ITM", {"TPR", "TCR", "TER"}, "DBGMCU")

assignPin ==
    /\ Step("DBGMCU", "wait")
    /\ set' = set \cup {"DBGMCU_CR"}
    /\ UNCHANGED <<hz, divisor, trcena, open, acpr>>

swo_setup ==
    \/ enableTrace
    \/ unlock("unlock TPIU", "TPIU", "TPIU") \/ configureTPIU
    \/ unlock("unlock DWT", "DWT", "DWT") \/ configureDWT
    \/ unlock("unlock ITM", "ITM", "ITM") \/ configureITM
    \/ assignPin

-----------------------------------------------------------------------------
PortEnabled == trcena /\ {"TPR", "TCR", "TER"} \subseteq set
\* Bit 0 of the stimulus port, as the firmware reads it.
Ready == PortEnabled /\ Len(fifo) < Depth

\* Mutant: the port is written whether it is ready or not.
awaitPortNot ==
    /\ pc = "wait" /\ pc' = "write"
    /\ UNCHANGED <<hz, divisor, units, value, fifo, led, wire>>

\* itm_write(): the busy-wait, and the write.
awaitPort ==
    /\ pc = "wait" /\ Ready /\ pc' = "write"
    /\ UNCHANGED <<hz, divisor, units, value, fifo, led, wire>>

\* Mutant: the LED is toggled with the line end still to print.
writePortToggleEarly ==
    /\ pc = "write"
    /\ fifo' = IF Ready THEN Append(fifo, value) ELSE fifo
    /\ value' = (value + 1) % Characters
    /\ pc' = IF value = Characters - 3 THEN "toggle" ELSE "wait"
    /\ UNCHANGED <<hz, divisor, units, led, wire>>

\* Mutant: the letters go on after the line end.
writePortEndless ==
    /\ pc = "write"
    /\ fifo' = IF Ready THEN Append(fifo, value) ELSE fifo
    /\ value' = value + 1
    /\ pc' = IF value = Characters - 1 THEN "toggle" ELSE "wait"
    /\ UNCHANGED <<hz, divisor, units, led, wire>>

\* A port that is not ready loses what is written to it.
writePort ==
    /\ pc = "write"
    /\ fifo' = IF Ready THEN Append(fifo, value) ELSE fifo
    /\ value' = (value + 1) % Characters
    /\ pc' = IF value = Characters - 1 THEN "toggle" ELSE "wait"
    /\ UNCHANGED <<hz, divisor, units, led, wire>>

toggleLED ==
    /\ pc = "toggle" /\ pc' = "wait"
    /\ led' = ~led
    /\ UNCHANGED <<hz, divisor, units, value, fifo, wire>>

main == clock_setup \/ swo_setup \/ awaitPort \/ writePort \/ toggleLED

\* The wire shows text when the TPIU sends unframed Manchester bytes on the pin.
Visible == {"CSPSR", "SPPR", "FFCR", "DBGMCU_CR"} \subseteq set

\* The trace units send a character.
Send ==
    /\ fifo # <<>>
    /\ fifo' = Tail(fifo)
    /\ wire' = IF Visible THEN [char |-> Head(fifo), frame |-> 1 - wire.frame] ELSE wire
    /\ UNCHANGED <<pc, hz, divisor, units, value, led>>

Next == main \/ Send

\* Processor and trace units both go on.
Spec == Init /\ [][Next]_vars /\ WF_vars(main) /\ WF_vars(Send)
-----------------------------------------------------------------------------
\* Every variable has its type.
TypeOK ==
    /\ pc \in {"clock_setup", "enable", "unlock TPIU", "TPIU", "unlock DWT", "DWT",
               "unlock ITM", "ITM", "DBGMCU", "wait", "write", "toggle"}
    /\ hz \in {HSI, RCC_CLOCK_3V3_84MHZ}
    /\ divisor \in Nat /\ acpr \in Nat
    /\ trcena \in BOOLEAN /\ led \in BOOLEAN
    /\ open \subseteq Units /\ set \subseteq Registers
    /\ value \in 0 .. Characters - 1
    /\ fifo \in Seq(0 .. Characters - 1) /\ Len(fifo) <= Depth
    /\ wire \in [char : 0 .. Characters - 1, frame : {0, 1}]

Printing == pc \in {"wait", "write", "toggle"}

\* Whatever an earlier session left in the trace units, every register has what
\* the firmware wants once it prints: none of the writes met a closed lock
\* (swo.c:63-89).
TakenFromAnyState == Printing => trcena /\ set = Registers

\* The listener's rate is kept within two percent: the divisor is that of the
\* clock the core runs on when it prints (swo.c:66-72).
RateKept ==
    Printing => (hz \div (acpr + 1)) \in 112896 .. 117504

\* Every character appears on the wire, once and in order, for ever, although
\* the firmware only polls a bit (swo.c:92-99, 108-116).
Listener == INSTANCE CharacterStream WITH char <- wire.char, frame <- wire.frame
PrintsText == Listener!Stream

\* The LED changes when all of the block but what the port still buffers is on
\* the wire: it never gets ahead of the text (swo.c:111-115).
LEDFollowsWire == [][led' # led => wire.char >= Characters - 1 - Depth]_vars
=============================================================================
