------------------------------ MODULE K32Blink ------------------------------
(***************************************************************************)
(* The K32 L2B firmware from reset to the blinking LED: irqReset() of      *)
(* module K32Startup, then run() of src/kinetis/k32/l2b/blink/blink.cxx,   *)
(* one action per register the rest depends on.  The clock generator (MCG) *)
(* is hardware: it follows the mode it is asked for at its own pace and    *)
(* the status register tells what it runs on now.                          *)
(***************************************************************************)
EXTENDS K32Startup

CONSTANT Delay    \* iterations of the delay loop (1000000 in the code)

ASSUME DelayAssumption == Delay \in Nat \ {0}

VARIABLES
    cop,    \* the watchdog's control register
    mcg,    \* the clock generator's registers
    gateC,  \* port C is clocked
    port,   \* port C: output latch and direction
    i       \* the delay loop's counter

peripherals == <<cop, mcg, gateC, port>>
vars == <<pc, memory, resets, peripherals, i>>

Pins == {0, 1, 2}

\* The register values of constants.hxx.  The mode asked for is in the upper two
\* bits of ctrl1, the mode in use in bits 3 and 2 of the status; the code's other
\* bits of these registers say what the references do besides clocking the
\* processor, and are left out.
ctrl1ClkMode  == [HIRC |-> 0, LIRC |-> 64]
statusClkMode == [HIRC |-> 0, LIRC |-> 4]
ctrl2LIRC2MHz == 0
copCtrlDisabled == 0
miscCtrlHIRClkEnabled  == 128
miscCtrlHIRClkDisabled == 128

\* How the hardware reads them.
Asked       == mcg.ctrl1 \div 16
WatchdogOff == (cop \div 4) % 4 = 0
HIRCOn      == mcg.misc >= 128
OnHIRC      == mcg.status = 0
SlowLIRC    == mcg.ctrl2 % 2 = 0
\* The processor runs while the clock it runs on does.
Clocked     == OnHIRC => HIRCOn

\* The peripherals out of reset: watchdog on, LIRC at 8 MHz.
OutOfReset == [ctrl1 |-> 64, ctrl2 |-> 1, misc |-> 0, status |-> 4]

ResetPeripherals ==
    /\ cop' = 12 /\ gateC' = FALSE
    /\ mcg' = OutOfReset
    /\ port' = [out |-> {}, dir |-> {}]

Init ==
    /\ PowerOn
    /\ cop = 12 /\ gateC = FALSE
    /\ mcg = OutOfReset
    /\ port = [out |-> {}, dir |-> {}]
    /\ i = 0

\* A step of run() from label at to label to.
Step(at, to) == pc = at /\ pc' = to /\ UNCHANGED <<memory, resets>>

-----------------------------------------------------------------------------
(***************************************************************************)
(* clockSetup().                                                           *)
(***************************************************************************)
disableWatchdog ==
    /\ Step("run", "enableHIRC")
    /\ cop' = copCtrlDisabled
    /\ UNCHANGED <<mcg, gateC, port, i>>

\* Mutant: the reference is left off.
enableHIRCNot ==
    /\ Step("enableHIRC", "toHIRC")
    /\ mcg' = [mcg EXCEPT !.misc = 0]
    /\ UNCHANGED <<cop, gateC, port, i>>

enableHIRC ==
    /\ Step("enableHIRC", "toHIRC")
    /\ mcg' = [mcg EXCEPT !.misc = miscCtrlHIRClkEnabled]
    /\ UNCHANGED <<cop, gateC, port, i>>

\* Mutant: the mode is asked for once and not awaited.
switchOnce(at, mode, next) ==
    /\ Step(at, next)
    /\ mcg' = [mcg EXCEPT !.ctrl1 = ctrl1ClkMode[mode]]
    /\ UNCHANGED <<cop, gateC, port, i>>

\* while (status is not mode) ctrl1 = mode.
switchTo(at, mode, next) ==
    /\ \/ mcg.status = statusClkMode[mode] /\ Step(at, next) /\ UNCHANGED mcg
       \/ /\ mcg.status # statusClkMode[mode] /\ Step(at, at)
          /\ mcg' = [mcg EXCEPT !.ctrl1 = ctrl1ClkMode[mode]]
    /\ UNCHANGED <<cop, gateC, port, i>>

\* Mutant: the high-frequency reference is turned off before the switch.
configureLIRCTooEarly ==
    /\ Step("configureLIRC", "toLIRC")
    /\ mcg' = [mcg EXCEPT !.ctrl2 = ctrl2LIRC2MHz, !.misc = 0]
    /\ UNCHANGED <<cop, gateC, port, i>>

\* Range, divider and miscCtrl, one after the other; no mode switch is under
\* way.
configureLIRC ==
    /\ Step("configureLIRC", "toLIRC")
    /\ mcg' = [mcg EXCEPT !.ctrl2 = ctrl2LIRC2MHz, !.misc = miscCtrlHIRClkEnabled]
    /\ UNCHANGED <<cop, gateC, port, i>>

cleanUp ==
    /\ Step("cleanUp", "enablePortC")
    /\ mcg' = [mcg EXCEPT !.misc = miscCtrlHIRClkDisabled]
    /\ UNCHANGED <<cop, gateC, port, i>>

enablePortC ==
    /\ Step("enablePortC", "setHigh")
    /\ gateC' = TRUE
    /\ UNCHANGED <<cop, mcg, port, i>>

clockSetup ==
    \/ disableWatchdog \/ enableHIRC
    \/ switchTo("toHIRC", "HIRC", "configureLIRC")
    \/ configureLIRC
    \/ switchTo("toLIRC", "LIRC", "cleanUp")
    \/ cleanUp \/ enablePortC

-----------------------------------------------------------------------------
(***************************************************************************)
(* gpioSetup() and the loop of run().  A port that is not clocked ignores  *)
(* what is written to it.                                                  *)
(***************************************************************************)
WritePort(out, dir) ==
    port' = IF gateC THEN [out |-> out, dir |-> dir] ELSE port

\* Mutant: the pins become outputs before they are high.
gpioSetupGlitch ==
    /\ \/ Step("setHigh", "setOutput") /\ WritePort(port.out, Pins)
       \/ Step("setOutput", "toggle") /\ WritePort(Pins, port.dir)
    /\ UNCHANGED <<cop, mcg, gateC, i>>

gpioSetup ==
    /\ \/ Step("setHigh", "setOutput") /\ WritePort(port.out \cup Pins, port.dir)
       \/ Step("setOutput", "toggle") /\ WritePort(port.out, port.dir \cup Pins)
    /\ UNCHANGED <<cop, mcg, gateC, i>>

toggleLED ==
    /\ Step("toggle", "delay")
    /\ WritePort((port.out \cup {0}) \ (port.out \cap {0}), port.dir)
    /\ i' = 0
    /\ UNCHANGED <<cop, mcg, gateC>>

\* Mutant: the delay is one iteration longer.
delayOneMore ==
    /\ \/ i <= Delay /\ Step("delay", "delay") /\ i' = i + 1
       \/ i > Delay /\ Step("delay", "toggle") /\ UNCHANGED i
    /\ UNCHANGED peripherals

delay ==
    /\ \/ i < Delay /\ Step("delay", "delay") /\ i' = i + 1
       \/ i >= Delay /\ Step("delay", "toggle") /\ UNCHANGED i
    /\ UNCHANGED peripherals

run == clockSetup \/ gpioSetup \/ toggleLED \/ delay

-----------------------------------------------------------------------------
\* The clock generator takes up the mode asked for; HIRC only if it is on.
SwitchMode ==
    /\ Asked # mcg.status
    /\ Asked = 0 => HIRCOn
    /\ mcg' = [mcg EXCEPT !.status = Asked]
    /\ UNCHANGED <<pc, memory, resets, cop, gateC, port, i>>

Firmware ==
    /\ Clocked
    /\ \/ irqReset /\ UNCHANGED <<peripherals, i>>
       \/ irqHardFault /\ UNCHANGED <<peripherals, i>>
       \/ run

Reset == Restart /\ ResetPeripherals /\ i' = 0

Next == Firmware \/ SwitchMode \/ Reset

Spec == Init /\ [][Next]_vars
\* The processor runs on, and the clock generator gets to its mode.
FairSpec == Spec /\ WF_vars(Firmware) /\ WF_vars(SwitchMode)
-----------------------------------------------------------------------------
\* Every variable has its type.
TypeOK ==
    /\ pc \in {"copy", "clear", "ctors", "hardFault", "run", "enableHIRC", "toHIRC",
               "configureLIRC", "toLIRC", "cleanUp", "enablePortC", "setHigh",
               "setOutput", "toggle", "delay"}
    /\ layout \in Layouts
    /\ ram \in [RAM -> ByteStates]
    /\ dst \in Nat /\ ctor \in Nat
    /\ resets \in 0 .. MaxResets
    /\ cop \in {0, 12} /\ gateC \in BOOLEAN
    /\ mcg \in [ctrl1 : {0, 64}, ctrl2 : {0, 1}, misc : {0, 128}, status : {0, 4}]
    /\ port \in [out : SUBSET Pins, dir : SUBSET Pins]
    /\ i \in 0 .. Delay

\* The range of the low-frequency reference is never changed while the
\* processor runs on it or is about to, which is why the code goes through HIRC
\* (blink.cxx:42-47); only a reset puts it back.
RangeChangedOffClock ==
    [][mcg'.ctrl2 # mcg.ctrl2 /\ pc' # "copy" => OnHIRC /\ Asked = 0]_vars

\* The processor is never left on a clock that is turned off (blink.cxx:43-54).
NeverUnclocked == Clocked

\* The LED blinks on the 2 MHz reference with the watchdog off, however long
\* the mode switches took (blink.cxx:41-56).
BlinksOnSlowClock ==
    pc \in {"toggle", "delay"} =>
        ~OnHIRC /\ Asked = 4 /\ SlowLIRC /\ WatchdogOff

\* A LED lights when its pin is driven low.
Lit(p) == p \in port.dir /\ p \notin port.out

\* The LEDs the firmware does not blink stay dark from reset on, through the
\* setup of the port included (blink.cxx:61-64).
OthersDark == \A p \in Pins \ {0} : ~Lit(p)

\* The LED is dark until the blinking starts and then changes after exactly the
\* delay: no flash while the port is set up.
Promise == INSTANCE Blinker
    WITH lit <- Lit(0), held <- IF pc = "delay" THEN i ELSE Delay
BlinksSteadily == Promise!Blinking

\* Unless it faults for its layout, the firmware gets through the mode switches
\* and blinks for ever.
KeepsBlinking == Aligned => []<>Lit(0) /\ []<>~Lit(0)

\* What the code says it does, and does not (blink.cxx:53-54): the
\* high-frequency reference is off once it is no longer needed.
HIRCOffAfterCleanUp == pc \in {"toggle", "delay"} => ~HIRCOn
=============================================================================
